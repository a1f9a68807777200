-------------------------------- MODULE Board --------------------------------
(***************************************************************************)
(* class Board of stack/gen-dashboards.py: a dashboard under construction, *)
(* to which host_dashboard() and the network builders add headings and     *)
(* panels, packed left to right in lines of 24 columns.                    *)
(***************************************************************************)
EXTENDS Integers

CONSTANTS
    Bodies,     \* what a panel can show
    Headings    \* the titles of rows

Columns == 24

VARIABLES
    panels,    \* what has been laid out; a set, as each panel has an id of its own
    x,         \* where the next panel goes ...
    y,         \* ... and the line it goes to
    rowh,      \* the height of that line so far
    id         \* the id given last

boardVars == <<panels, x, y, rowh, id>>

BoardInit ==
    /\ panels = {}
    /\ x = 0 /\ y = 0 /\ rowh = 0 /\ id = 0

\* _newline(): the line that a panel goes to once the current one is closed.
Below_IgnoresHeight == IF x # 0 THEN y + 1 ELSE y
Below == IF x # 0 THEN y + rowh ELSE y

Row_KeepsLine(title) ==
    /\ id' = id + 1
    /\ panels' = panels \union
          {[id |-> id', x |-> 0, y |-> y, w |-> Columns, h |-> 1,
            heading |-> TRUE, body |-> title]}
    /\ y' = y + 1 /\ x' = 0 /\ rowh' = 0

\* row(): a heading on a line of its own.
Row(title) ==
    /\ id' = id + 1
    /\ panels' = panels \union
          {[id |-> id', x |-> 0, y |-> Below, w |-> Columns, h |-> 1,
            heading |-> TRUE, body |-> title]}
    /\ y' = Below + 1 /\ x' = 0 /\ rowh' = 0

Put(body, w, h, px, py, high) ==
    /\ id' = id + 1
    /\ panels' = panels \union
          {[id |-> id', x |-> px, y |-> py, w |-> w, h |-> h,
            heading |-> FALSE, body |-> body]}
    /\ x' = px + w /\ y' = py
    /\ rowh' = IF h > high THEN h ELSE high

Add_NeverWraps(body, w, h) == Put(body, w, h, x, y, rowh)

\* add(): to the right of the last panel, or at the start of a new line.
Add(body, w, h) ==
    IF x + w > Columns THEN Put(body, w, h, 0, Below, 0) ELSE Put(body, w, h, x, y, rowh)

BoardNext ==
    \/ \E t \in Headings : Row(t)
    \/ \E b \in Bodies, w \in 1..Columns, h \in Nat \ {0} : Add(b, w, h)

BoardSpec == BoardInit /\ [][BoardNext]_boardVars

-----------------------------------------------------------------------------
(* Properties. *)

Placed == {[x |-> p.x, y |-> p.y, w |-> p.w, h |-> p.h, heading |-> p.heading] : p \in panels}

Laid == INSTANCE Page WITH placed <- Placed, Width <- Columns

\* Whatever panels the builders add, in whatever order and of whatever sizes, the
\* packing of Board.add() and Board.row() (gen-dashboards.py:384-405) lays them out
\* as a page asks: none over another, and none moved into another section.
LaidOutAsPage == Laid!Spec

\* No two panels lie over each other, each being one in the list with its own id, and
\* none sticks out of Grafana's 24 columns (gen-dashboards.py:397-405).
NoOverlap ==
    \A p, q \in panels :
        /\ p.x + p.w <= Columns
        /\ p.id # q.id => Laid!Disjoint(p, q)
        /\ p.id = q.id => p = q
=============================================================================
