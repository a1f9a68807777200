------------------------------ MODULE Discovery ------------------------------
(***************************************************************************)
(* What stack/gen-dashboards.py makes of the answers of Fleet and          *)
(* Elasticsearch: which hosts there are, by which name their documents     *)
(* call them, and which dashboard goes to which file.  Names are members   *)
(* of a set; what the string functions of the code make of them is given   *)
(* by constants.                                                           *)
(***************************************************************************)
EXTENDS NetworkBoards, SequencesExt

CONSTANTS
    NameOrder,   \* all names in the order of sorted()
    Lower,       \* str.lower()
    Short,       \* the part before the first dot, in lower case
    Slug,        \* slug(): what is left of a name in file names
    Tagged       \* the slug, cut, with five digits of the name's hash

Names == ToSet(NameOrder)

\* Each name is in the order once, and in lower case it is a name too. No two stems make
\* one file name, nor does one make that of a network dashboard.
ASSUME NameAssumption ==
    /\ NameOrder \in Seq(STRING)
    /\ \A i, j \in DOMAIN NameOrder : NameOrder[i] = NameOrder[j] => i = j
    /\ Lower \in [Names -> Names]
    /\ LET stems == {Slug[m] : m \in Names} \union {Tagged[m] : m \in Names} IN
       \A s \in stems :
           /\ \A t \in stems : "host-" \o s = "host-" \o t => s = t
           /\ \A k \in DOMAIN NetworkFiles : "host-" \o s # NetworkFiles[k].file

\* When Elasticsearch does not answer, hostnames stand for themselves, as if it had
\* seen none.
Unreachable == <<>>

Before(m, n) ==
    \E i, j \in 1..Len(NameOrder) : i < j /\ NameOrder[i] = m /\ NameOrder[j] = n

\* A set of positions, from the first to the last.
InOrder(S) ==
    [i \in 1..Cardinality(S) |-> CHOOSE k \in S : Cardinality(S \intersect 1..k) = i]

Listed(agent) == ~agent.unenrolled /\ agent.hostname # ""

\* fleet_agents(): the agents that are not unenrolled and have a hostname, the first of
\* each in Fleet's order where several share one, sorted by hostname.
FleetAgents(items) ==
    LET Called(k) == {i \in DOMAIN items :
                         Listed(items[i]) /\ Lower[items[i].hostname] = NameOrder[k]}
        order == InOrder({k \in DOMAIN NameOrder : Called(k) # {}}) IN
    [i \in DOMAIN order |-> items[Min(Called(order[i]))]]

\* resolve_host_name(): seen is es_host_names(), in the order of the buckets.
ResolveHostName(hostname, seen) ==
    LET same == {i \in DOMAIN seen : Lower[seen[i]] = Lower[hostname]}
        like == {i \in DOMAIN seen : Short[seen[i]] = Short[hostname]} IN
    IF hostname \in ToSet(seen) THEN hostname
    ELSE IF same # {} THEN seen[Max(same)]
    ELSE IF like # {} THEN seen[Min(like)]
    ELSE hostname

UniqueSlugs_NotUnique(names) == [n \in ToSet(names) |-> Slug[n]]

\* The stem that unique_slugs() comes to at each name, from the first to the last in
\* order: the name's slug if no earlier one has it. A name that is there twice meets its
\* own slug the second time.
Stems(names) ==
    LET Earlier(j, i) == Before(names[j], names[i]) \/ (names[j] = names[i] /\ j < i)
        stem[i \in DOMAIN names] ==
            IF \E j \in DOMAIN names : Earlier(j, i) /\ stem[j] = Slug[names[i]]
            THEN Tagged[names[i]] ELSE Slug[names[i]] IN
    stem

\* unique_slugs(): the stem of a name that is there twice is the last.
UniqueSlugs(names) ==
    [m \in ToSet(names) |-> Stems(names)[Max({i \in DOMAIN names : names[i] = m})]]

\* The names main() resolves the agents of a world to, agent by agent.
HostNames(w) ==
    LET agents == FleetAgents(w.items) IN
    [i \in DOMAIN agents |-> ResolveHostName(agents[i].hostname, w.seen)]

\* boards in main(): a dashboard for each agent, then those of the network. What a
\* dashboard holds is left at what it is computed from.
BoardsFor(w) ==
    LET agents == FleetAgents(w.items)
        names  == HostNames(w)
        stems  == UniqueSlugs(names)
        network == InOrder({k \in DOMAIN NetworkFiles :
                               NetworkFiles[k].board \in NetworkDashboards(w.receivers)}) IN
    [i \in DOMAIN agents |->
        [file |-> "host-" \o stems[names[i]],
         body |-> [agent |-> agents[i], name |-> names[i]]]] \o
    [i \in DOMAIN network |->
        [file |-> NetworkFiles[network[i]].file, body |-> [receivers |-> w.receivers]]]
=============================================================================
