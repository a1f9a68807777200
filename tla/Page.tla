-------------------------------- MODULE Page --------------------------------
(***************************************************************************)
(* What a Grafana page asks of the panels laid out on it: none lies over   *)
(* another, none sticks out at the side, and each stays in the section it  *)
(* belongs to.  Grafana reads the section of a panel off its position: it  *)
(* is that of the nearest heading above it.                                *)
(***************************************************************************)
EXTENDS Integers

CONSTANT Width

VARIABLE placed   \* rectangles, each a heading or not

Rect == [x : Nat, y : Nat, w : Nat \ {0}, h : Nat \ {0}, heading : BOOLEAN]

Fits(r) == r.x + r.w <= Width

Disjoint(p, q) ==
    \/ p.x + p.w <= q.x \/ q.x + q.w <= p.x
    \/ p.y + p.h <= q.y \/ q.y + q.h <= p.y

Init == placed = {}

\* A panel goes wherever there is room below the last heading.
PlacePanel(r) ==
    /\ ~r.heading /\ Fits(r)
    /\ \A q \in placed : Disjoint(q, r) /\ (q.heading => q.y + q.h <= r.y)
    /\ placed' = placed \union {r}

\* A heading takes a line of its own, below everything else.
PlaceHeading(r) ==
    /\ r.heading /\ r.x = 0 /\ r.w = Width
    /\ \A q \in placed : q.y + q.h <= r.y
    /\ placed' = placed \union {r}

Next == \E r \in placed' : r \in Rect /\ (PlacePanel(r) \/ PlaceHeading(r))

Spec == Init /\ [][Next]_placed
=============================================================================
