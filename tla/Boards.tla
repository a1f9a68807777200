------------------------------- MODULE Boards -------------------------------
(***************************************************************************)
(* stack/gen-dashboards.py building one dashboard: the policies it finds   *)
(* in Fleet decide which dashboards there are and what each holds, and the *)
(* builder adds its panels one by one to a Board.                          *)
(***************************************************************************)
EXTENDS Board, HostBoard, NetworkBoards, HwDocs, Collected

CONSTANT Fleets   \* [held, off]: an agent policy's integrations, and the datasets switched off

VARIABLES fleet,    \* the policy the generator found
          subject,  \* the dashboard it builds: "host", or a network dashboard
          todo      \* the panels still to be added

vars == <<boardVars, fleet, subject, todo>>

Caps(f) == PolicyCapabilities(f.held, f.off)

\* The dashboards that come of a policy, and what the builder of each has to add.  main()
\* takes the receivers of all policies together (1410-1412); of the stock policies only
\* the stack's has any.
Subjects(f) == {"host"} \union NetworkDashboards(Caps(f).receivers)

Dashboard(f, s) == IF s = "host" THEN HostDashboard(Caps(f)) ELSE Builder(s)

\* An agent policy holds integrations that fleet/setup-policies.py creates, any of them.
ASSUME FleetsAssumption ==
    \A f \in Fleets :
        /\ f.held \subseteq UNION Policies
        /\ \A s \in Subjects(f) : \A i \in NameSet(Dashboard(f, s)) :
              i.body \in IF i.heading THEN Headings ELSE Bodies

Init ==
    /\ BoardInit
    /\ fleet \in Fleets
    /\ subject \in Subjects(fleet)
    /\ todo = Dashboard(fleet, subject)

AddHeading ==
    /\ todo # <<>> /\ Head(todo).heading
    /\ Row(Head(todo).body)
    /\ todo' = Tail(todo)
    /\ UNCHANGED <<fleet, subject>>

AddPanel ==
    /\ todo # <<>> /\ ~Head(todo).heading
    /\ LET p == Head(todo) IN Add(p.body, p.w, p.h)
    /\ todo' = Tail(todo)
    /\ UNCHANGED <<fleet, subject>>

\* The dashboard is complete.
Built == todo = <<>> /\ UNCHANGED vars

Next == AddHeading \/ AddPanel \/ Built

Spec == Init /\ [][Next]_vars

-----------------------------------------------------------------------------
(* Properties. *)

TypeOK ==
    /\ fleet \in Fleets
    /\ x \in 0..Columns /\ y \in Nat /\ rowh \in Nat /\ id \in Nat
    /\ \A p \in panels : p.id \in 1..id /\ p.w \in 1..Columns /\ p.h \in 1..12

Queries == UNION {p.body.queries : p \in {q \in panels : ~q.heading}}

AllSets(f(_)) == UNION {f(n) : n \in UNION Policies}

\* A query asks the data source that holds what it names, which is also its panel's:
\* asked of the other it draws "a confident flat zero" (gen-dashboards.py:672-674), or
\* nothing. What is metrics and what is logs is decided in setup-policies.py.
ReadsWhereItLands ==
    \A p \in panels : ~p.heading => \A q \in p.body.queries :
        /\ q.source = p.body.source
        /\ q.sets \subseteq IF q.source = Metrics THEN AllSets(MetricSets) ELSE AllSets(LogSets)

\* A `missing' value is of the field's own type; an address can have none. Otherwise
\* Elasticsearch refuses the query and the panel is empty (gen-dashboards.py:222-226).
MissingFitsField ==
    \A q \in Queries : \A t \in q.by :
        t.missing \in CASE t.field \in {"source.ip", "destination.ip"} -> {"nothing"}
                        [] t.field = "destination.port" -> {"nothing", "number"}
                        [] OTHER -> {"nothing", "word"}

\* The hardware panels of gen-dashboards.py:609-668 show and group by fields that
\* hwstats.py writes into readings of the kind they ask for.
HardwareIsReported ==
    \A q \in Queries : q.kind # "any" =>
        q.shows \union {t.field : t \in q.by} \subseteq FieldsOf[q.kind]

\* "The panels each one gets are chosen from what its agent policy actually collects"
\* (gen-dashboards.py:7), as far as that is so.  A host's dashboard asks for the system's
\* metrics whether or not the policy has the integration (464-606): without it, eleven
\* panels of what is not collected.  Beyond those it asks only for the packages whose
\* integration is in the policy, and the Custom Logs datasets that are on; a stream of a
\* package that is switched off keeps its panels.  A receiver's dashboard is about its own
\* stream, which is on.  The network overview asks for all four receivers (778-783), to
\* tell which of them arrive; UniFi's asks for both feeds when one is on (1452-1455).
PanelsFollowPolicy ==
    LET optional == {LogSet[n] : n \in DOMAIN LogSet} \union NetSets
        collected == (UNION {Sets(n) : n \in fleet.held}) \ (optional \intersect fleet.off)
        both == {"cef.log", "iptables.log"} IN
    \A q \in Queries :
        /\ subject = "host"     => q.sets \subseteq collected \union Sets("system")
        /\ subject = "overview" => q.sets \subseteq NetSets
        /\ subject = "unifi"    => q.sets \subseteq both /\ both \intersect collected # {}
        /\ subject \notin {"host", "overview", "unifi"} => q.sets \subseteq collected

\* And nothing is left out: each integration that collects from the host has a panel
\* of its own when the host's dashboard is complete, "point a new Custom Logs input
\* somewhere and its dataset gets its own panels" (gen-dashboards.py:8-10); either
\* UniFi receiver alone is reason enough for the dashboard of both (1452-1455).
EveryIntegrationShown ==
    /\ (subject = "host" /\ todo = <<>>) =>
          \A n \in fleet.held \ {Receivers[p] : p \in DOMAIN Receivers} :
             Sets(n) \subseteq fleet.off \/ \E q \in Queries : q.sets \intersect Sets(n) # {}
    /\ \A n \in {"unifi-activity-cef", "unifi-traffic-iptables"} \intersect fleet.held :
          Sets(n) \intersect fleet.off = {} =>
             "unifi" \in NetworkDashboards(Caps(fleet).receivers)
=============================================================================
