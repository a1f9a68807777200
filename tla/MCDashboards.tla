---------------------------- MODULE MCDashboards ----------------------------
(* Two hosts in Fleet, or two more: names that differ in case or in their  *)
(* domain, and two whose slugs are the same.                               *)
EXTENDS Generator, TLC

RunSymmetry == Permutations(Runs)

MCNameOrder == <<"", "DB", "db", "db-a", "db.a">>
MCLower == [m \in ToSet(MCNameOrder) |-> IF m = "DB" THEN "db" ELSE m]
MCShort == [m \in ToSet(MCNameOrder) |-> CASE m \in {"DB", "db.a"} -> "db" [] OTHER -> m]
MCSlug == [m \in ToSet(MCNameOrder) |-> CASE m = "DB" -> "db" [] m = "db.a" -> "db-a"
                                          [] m = "" -> "host" [] OTHER -> m]
MCTagged == [m \in ToSet(MCNameOrder) |-> MCSlug[m] \o "-" \o m]

ASSUME MCTags == TagsTellApart

Agent(m) == [hostname |-> m, unenrolled |-> FALSE]
Retired(m) == [hostname |-> m, unenrolled |-> TRUE]

\* Two hosts of one slug, one of them enrolled twice.
OneSlug == [items |-> <<Agent("db.a"), Agent("db-a"), Agent("db.a")>>,
            seen |-> <<"db-a", "db.a">>, receivers |-> {}]
\* One of them is unenrolled.
OneLeft == [items |-> <<Retired("db-a"), Agent("db.a")>>, seen |-> <<"db.a">>, receivers |-> {}]
\* Elasticsearch is down; documents call it and another host by one name.
NoAnswer == [items |-> <<Agent("db.a"), Agent("")>>, seen |-> Unreachable, receivers |-> {}]
OneName == [items |-> <<Agent("db"), Agent("db.a")>>, seen |-> <<"DB">>, receivers |-> {}]

MCWorlds == {OneSlug, OneLeft, NoAnswer, OneName}
MCPlans  == {BoardsFor(w) : w \in MCWorlds}
MCEach   == UNION {ToSet(p) : p \in MCPlans}
MCFiles  == {b.file : b \in MCEach}
MCBodies == {b.body : b \in MCEach}
=============================================================================
