------------------------------ MODULE MCBoards ------------------------------
(* Each stock policy, whole, with one integration removed, or with one of  *)
(* its streams switched off.                                               *)
EXTENDS Boards

MCFleets ==
    UNION {{[held |-> p \ out, off |-> {}] : out \in {{}} \union {{n} : n \in p}}
              \union {[held |-> p, off |-> {s}] : s \in UNION {Sets(n) : n \in p}}
           : p \in Policies}

Items == UNION {NameSet(HostDashboard(Caps(f))) : f \in MCFleets} \union
         UNION {NameSet(Builder(b)) : b \in NetworkDashboards(DOMAIN Receivers)}

MCBodies   == {i.body : i \in {j \in Items : ~j.heading}}
MCHeadings == {i.body : i \in {j \in Items : j.heading}}
=============================================================================
