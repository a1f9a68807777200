------------------------------ MODULE Generator ------------------------------
(***************************************************************************)
(* stack/gen-dashboards.py whole: what Discovery makes of Fleet's answer   *)
(* is what the runs of Dashboards write.                                   *)
(***************************************************************************)
EXTENDS Dashboards, Discovery

CONSTANT Worlds   \* [items, seen, receivers]: what Fleet and Elasticsearch may answer

ASSUME WorldsAssumption ==
    \A w \in Worlds : /\ w.items \in Seq([hostname : Names, unenrolled : BOOLEAN])
                      /\ w.seen \in Seq(Names)

\* What the digits of a name's hash are for: names cut and tagged with them differ from
\* each other and from whole ones.
TagsTellApart ==
    \A m, p \in Names : Tagged[m] # Slug[p] /\ (Tagged[m] = Tagged[p] => m = p)

\* Each enrolled host has a dashboard of its own under the name its documents carry,
\* however its name collides with others in file names (gen-dashboards.py:1320-1326);
\* unless a user's own file has that name.
EveryHostShown ==
    \A r \in Runs, w \in Worlds :
        alone[r] /\ ~overlapped /\ pc[r] \in {"ok", "kept"} /\ boards[r] = BoardsFor(w) =>
            LET stems == UniqueSlugs(HostNames(w)) IN
            \A h \in DOMAIN stems :
                LET here == shown["host-" \o stems[h]] IN
                here = Hand \/ (Generated(here) /\ here.name = h)
=============================================================================
