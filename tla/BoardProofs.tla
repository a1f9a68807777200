----------------------------- MODULE BoardProofs -----------------------------
(***************************************************************************)
(* The packing of Board, for every sequence of panels and headings: panels *)
(* never overlap, and Board implements Page.  And the dashboards of Boards,*)
(* for agent policies that hold any of the stock integrations, with any    *)
(* datasets switched off: each builder's items, list by list, ask for what *)
(* there is, and the board shows of them what has been added.              *)
(***************************************************************************)
EXTENDS Boards, SequenceTheorems, TLAPS

PanelType ==
    [id : Nat, x : Nat, y : Nat, w : Nat \ {0}, h : Nat \ {0},
     heading : BOOLEAN, body : Bodies \union Headings]

BoardTypeOK ==
    /\ panels \subseteq PanelType
    /\ x \in 0..Columns /\ y \in Nat /\ rowh \in Nat /\ id \in Nat

\* Of the panels laid out, those above the current line end above it, those in it end
\* left of where the next one goes, and none reaches below it.
Packed ==
    /\ x = 0 => rowh = 0
    /\ \A p \in panels :
          /\ p.x + p.w <= Columns
          /\ p.id <= id
          /\ p.y + p.h <= y + rowh
          /\ p.y + p.h <= y \/ (p.x + p.w <= x /\ ~p.heading)

IInv == BoardTypeOK /\ Packed /\ NoOverlap

\* What Put() needs of the place it is given: a free one, in the line at py.
Free(w, px, py, high) ==
    /\ px \in 0..Columns /\ py \in Nat /\ high \in Nat
    /\ px + w <= Columns
    /\ \A p \in panels : /\ p.y + p.h <= py + high
                         /\ p.y + p.h <= py \/ (p.x + p.w <= px /\ ~p.heading)

\* The numbers of a panel, for the arithmetic below.
LEMMA PanelNumbers ==
    ASSUME BoardTypeOK, NEW p \in panels
    PROVE  /\ p.id \in Nat /\ p.x \in Nat /\ p.y \in Nat
           /\ p.w \in Nat /\ p.w > 0 /\ p.h \in Nat /\ p.h > 0
           /\ p.heading \in BOOLEAN
  BY DEF BoardTypeOK, PanelType

LEMMA PutKeeps ==
    ASSUME IInv,
           NEW b \in Bodies, NEW w \in 1..Columns, NEW h \in Nat \ {0},
           NEW px, NEW py, NEW high,
           Free(w, px, py, high), Put(b, w, h, px, py, high)
    PROVE  IInv'
<1> DEFINE new == [id |-> id + 1, x |-> px, y |-> py, w |-> w, h |-> h,
                   heading |-> FALSE, body |-> b]
<1>1. /\ id' = id + 1 /\ panels' = panels \union {new}
      /\ x' = px + w /\ y' = py /\ rowh' = IF h > high THEN h ELSE high
  BY DEF Put
<1>2. px \in 0..24 /\ py \in Nat /\ high \in Nat /\ px + w <= 24 /\ id \in Nat
  BY DEF Free, Columns, IInv, BoardTypeOK
<1>3. ASSUME NEW p \in panels
      PROVE  /\ p.y + p.h <= py + high /\ p.x + p.w <= 24 /\ p.id <= id
             /\ p.y + p.h <= py \/ (p.x + p.w <= px /\ ~p.heading)
  BY DEF Free, IInv, Packed, Columns
<1>4. BoardTypeOK'
  <2>1. new \in PanelType
    BY <1>2 DEF PanelType, Columns
  <2>2. px + w \in 0..24 /\ (IF h > high THEN h ELSE high) \in Nat /\ id + 1 \in Nat
    BY <1>2 DEF Columns
  <2>3. QED
    BY <1>1, <1>2, <2>1, <2>2 DEF IInv, BoardTypeOK, Columns
<1>5. Packed'
  <2>1. x' # 0
    BY <1>1, <1>2 DEF Columns
  <2>2. ASSUME NEW p \in panels'
        PROVE  /\ p.x + p.w <= 24 /\ p.id <= id' /\ p.y + p.h <= y' + rowh'
               /\ p.y + p.h <= y' \/ (p.x + p.w <= x' /\ ~p.heading)
    <3>1. CASE p = new
      BY <3>1, <1>1, <1>2 DEF Columns
    <3>2. CASE p \in panels
      BY <3>2, <1>1, <1>2, <1>3, PanelNumbers DEF Columns, IInv
    <3>3. QED
      BY <3>1, <3>2, <1>1
  <2>3. QED
    BY <2>1, <2>2 DEF Packed, Columns
<1>6. ASSUME NEW p \in panels
      PROVE  p.id # new.id /\ Laid!Disjoint(p, new) /\ Laid!Disjoint(new, p)
  BY <1>2, <1>3, PanelNumbers DEF IInv, Laid!Disjoint
<1>7. NoOverlap'
  <2>1. ASSUME NEW p \in panels', NEW q \in panels'
        PROVE  /\ p.x + p.w <= 24
               /\ p.id # q.id => Laid!Disjoint(p, q)
               /\ p.id = q.id => p = q
    <3>1. CASE p \in panels /\ q \in panels
      BY <3>1 DEF IInv, NoOverlap, Columns
    <3>2. CASE p \in panels /\ q = new
      BY <3>2, <1>3, <1>6
    <3>3. CASE p = new /\ q \in panels
      <4>1. p.id # q.id /\ Laid!Disjoint(p, q)
        BY <3>3, <1>6
      <4>2. p.x + p.w <= 24
        BY <3>3, <1>2
      <4>3. QED
        BY <4>1, <4>2
    <3>4. CASE p = new /\ q = new
      BY <3>4, <1>2
    <3>5. QED
      BY <3>1, <3>2, <3>3, <3>4, <1>1
  <2>2. QED
    BY <2>1 DEF NoOverlap, Laid!Disjoint, Columns
<1>8. QED
  BY <1>4, <1>5, <1>7 DEF IInv

LEMMA RowKeeps == ASSUME IInv, NEW t \in Headings, Row(t) PROVE IInv'
<1> DEFINE new == [id |-> id + 1, x |-> 0, y |-> Below, w |-> 24, h |-> 1,
                   heading |-> TRUE, body |-> t]
<1>1. /\ id' = id + 1 /\ panels' = panels \union {new}
      /\ x' = 0 /\ y' = Below + 1 /\ rowh' = 0
  BY DEF Row, Columns
<1>2. Below \in Nat /\ id \in Nat
  BY DEF IInv, BoardTypeOK, Below
<1>3. ASSUME NEW p \in panels
      PROVE  p.y + p.h <= Below /\ p.x + p.w <= 24 /\ p.id <= id
  BY PanelNumbers DEF IInv, BoardTypeOK, Packed, Below, Columns
<1>4. BoardTypeOK'
  <2>1. new \in PanelType
    BY <1>2 DEF PanelType
  <2>2. panels' \subseteq PanelType
    BY <1>1, <2>1 DEF IInv, BoardTypeOK
  <2>3. x' \in 0..24 /\ y' \in Nat /\ rowh' \in Nat /\ id' \in Nat
    BY <1>1, <1>2
  <2>4. QED
    BY <2>2, <2>3 DEF BoardTypeOK, Columns
<1>5. Packed'
  <2>1. ASSUME NEW p \in panels'
        PROVE  p.x + p.w <= 24 /\ p.id <= id' /\ p.y + p.h <= y'
    <3>1. CASE p = new
      BY <3>1, <1>1, <1>2
    <3>2. CASE p \in panels
      BY <3>2, <1>1, <1>2, <1>3, PanelNumbers DEF IInv
    <3>3. QED
      BY <3>1, <3>2, <1>1
  <2>2. y' \in Nat /\ rowh' = 0 /\ \A p \in panels' : p.y + p.h <= y' + rowh'
    BY <1>1, <1>2, <2>1
  <2>3. QED
    BY <2>1, <2>2 DEF Packed, Columns
<1>6. ASSUME NEW p \in panels
      PROVE  p.id # new.id /\ Laid!Disjoint(p, new) /\ Laid!Disjoint(new, p)
  BY <1>2, <1>3, PanelNumbers DEF IInv, Laid!Disjoint
<1>7. NoOverlap'
  <2>1. ASSUME NEW p \in panels', NEW q \in panels'
        PROVE  /\ p.x + p.w <= 24
               /\ p.id # q.id => Laid!Disjoint(p, q)
               /\ p.id = q.id => p = q
    <3>1. CASE p \in panels /\ q \in panels
      BY <3>1 DEF IInv, NoOverlap, Columns
    <3>2. CASE p \in panels /\ q = new
      BY <3>2, <1>3, <1>6
    <3>3. CASE p = new /\ q \in panels
      <4>1. p.id # q.id /\ Laid!Disjoint(p, q)
        BY <3>3, <1>6
      <4>2. p.x + p.w <= 24
        BY <3>3, <1>2
      <4>3. QED
        BY <4>1, <4>2
    <3>4. CASE p = new /\ q = new
      BY <3>4, <1>2
    <3>5. QED
      BY <3>1, <3>2, <3>3, <3>4, <1>1
  <2>2. QED
    BY <2>1 DEF NoOverlap, Laid!Disjoint, Columns
<1>8. QED
  BY <1>4, <1>5, <1>7 DEF IInv

\* Where add() puts a panel is free: in the current line, or in the next.
LEMMA AddIsPut ==
    ASSUME IInv, NEW b, NEW w \in 1..Columns, NEW h, Add(b, w, h)
    PROVE  \E px, py, high : Free(w, px, py, high) /\ Put(b, w, h, px, py, high)
<1> USE DEF Columns, IInv, BoardTypeOK
<1>1. CASE x + w > 24
  <2>1. Put(b, w, h, 0, Below, 0)
    BY <1>1 DEF Add
  <2>2. Free(w, 0, Below, 0)
    BY <1>1, PanelNumbers DEF Free, Below, Packed
  <2>3. QED
    BY <2>1, <2>2
<1>2. CASE ~(x + w > 24)
  <2>1. Put(b, w, h, x, y, rowh)
    BY <1>2 DEF Add
  <2>2. Free(w, x, y, rowh)
    BY <1>2, PanelNumbers DEF Free, Packed
  <2>3. QED
    BY <2>1, <2>2
<1>3. QED
  BY <1>1, <1>2

LEMMA InitPacked == BoardInit => IInv
  BY DEF BoardInit, IInv, BoardTypeOK, Packed, NoOverlap, Columns

LEMMA StepPacks == ASSUME IInv, [BoardNext]_boardVars PROVE IInv'
<1>1. ASSUME NEW t \in Headings, Row(t) PROVE IInv'
  BY <1>1, RowKeeps
<1>2. ASSUME NEW b \in Bodies, NEW w \in 1..Columns, NEW h \in Nat \ {0}, Add(b, w, h)
      PROVE  IInv'
  <2>1. PICK px, py, high : Free(w, px, py, high) /\ Put(b, w, h, px, py, high)
    BY <1>2, AddIsPut
  <2>2. QED
    BY <2>1, PutKeeps
<1>3. CASE UNCHANGED boardVars
  BY <1>3 DEF boardVars, IInv, BoardTypeOK, Packed, NoOverlap, Laid!Disjoint
<1>4. QED
  BY <1>1, <1>2, <1>3 DEF BoardNext

LEMMA Inductive == BoardSpec => []IInv
  BY InitPacked, StepPacks, PTL DEF BoardSpec

-----------------------------------------------------------------------------

\* No two panels of a dashboard ever lie over each other, none sticks out of the 24
\* columns and each has its own id, whatever is added in whatever order and size.
THEOREM PanelsNeverOverlap == BoardSpec => []NoOverlap
<1>1. IInv => NoOverlap
  BY DEF IInv
<1>2. QED
  BY <1>1, Inductive, PTL

\* What one panel adds to the page that Page sees.
LEMMA PlacedGrows ==
    ASSUME NEW p, NEW r, panels' = panels \union {p},
           r = [x |-> p.x, y |-> p.y, w |-> p.w, h |-> p.h, heading |-> p.heading]
    PROVE  Placed' = Placed \union {r}
  BY DEF Placed

LEMMA PutPlaces ==
    ASSUME IInv,
           NEW b \in Bodies, NEW w \in 1..Columns, NEW h \in Nat \ {0},
           NEW px, NEW py, NEW high,
           Free(w, px, py, high), Put(b, w, h, px, py, high)
    PROVE  Laid!Next
<1> DEFINE new == [id |-> id + 1, x |-> px, y |-> py, w |-> w, h |-> h,
                   heading |-> FALSE, body |-> b]
<1> DEFINE r == [x |-> px, y |-> py, w |-> w, h |-> h, heading |-> FALSE]
<1>1. panels' = panels \union {new}
  BY DEF Put
<1>2. Placed' = Placed \union {r}
  <2>1. r = [x |-> new.x, y |-> new.y, w |-> new.w, h |-> new.h, heading |-> new.heading]
    OBVIOUS
  <2> HIDE DEF new, r
  <2>2. QED
    BY <1>1, <2>1, PlacedGrows
<1>3. px \in 0..24 /\ py \in Nat /\ px + w <= 24
  BY DEF Free, Columns
<1>4. r \in Laid!Rect /\ Laid!Fits(r)
  BY <1>3 DEF Laid!Rect, Laid!Fits, Columns
<1>5. \A q \in Placed : Laid!Disjoint(q, r) /\ (q.heading => q.y + q.h <= r.y)
  <2> SUFFICES ASSUME NEW p \in panels
               PROVE  LET q == [x |-> p.x, y |-> p.y, w |-> p.w, h |-> p.h, heading |-> p.heading]
                      IN  Laid!Disjoint(q, r) /\ (q.heading => q.y + q.h <= r.y)
    BY DEF Placed
  <2>1. p.heading \in BOOLEAN /\ p.x \in Nat /\ p.w \in Nat /\ p.y \in Nat /\ p.h \in Nat
    BY PanelNumbers DEF IInv
  <2>2. p.y + p.h <= py \/ (p.x + p.w <= px /\ ~p.heading)
    BY DEF Free
  <2>3. QED
    BY <1>3, <2>1, <2>2 DEF Laid!Disjoint
<1>6. Laid!PlacePanel(r)
  BY <1>2, <1>4, <1>5 DEF Laid!PlacePanel
<1>7. r \in Placed'
  BY <1>2
<1>8. QED
  BY <1>4, <1>6, <1>7 DEF Laid!Next

LEMMA RowPlaces == ASSUME IInv, NEW t \in Headings, Row(t) PROVE Laid!Next
<1> DEFINE new == [id |-> id + 1, x |-> 0, y |-> Below, w |-> 24, h |-> 1,
                   heading |-> TRUE, body |-> t]
<1> DEFINE r == [x |-> 0, y |-> Below, w |-> 24, h |-> 1, heading |-> TRUE]
<1>1. panels' = panels \union {new}
  BY DEF Row, Columns
<1>2. Placed' = Placed \union {r}
  <2>1. r = [x |-> new.x, y |-> new.y, w |-> new.w, h |-> new.h, heading |-> new.heading]
    OBVIOUS
  <2> HIDE DEF new, r
  <2>2. QED
    BY <1>1, <2>1, PlacedGrows
<1>3. Below \in Nat /\ \A p \in panels : p.y + p.h <= Below
  BY PanelNumbers DEF IInv, Packed, Below, BoardTypeOK, Columns
<1>4. r \in Laid!Rect
  BY <1>3 DEF Laid!Rect
<1>5. \A q \in Placed : q.y + q.h <= r.y
  BY <1>3 DEF Placed
<1>6. Laid!PlaceHeading(r)
  BY <1>2, <1>5 DEF Laid!PlaceHeading, Columns
<1>7. r \in Placed'
  BY <1>2
<1>8. QED
  BY <1>4, <1>6, <1>7 DEF Laid!Next

\* Board implements Page: every row() and add() is a step that Page allows, so each
\* panel is laid out on free room and stays in the section it was added to.
THEOREM BoardImplementsPage == BoardSpec => LaidOutAsPage
<1>1. BoardInit => Laid!Init
  BY DEF BoardInit, Laid!Init, Placed
<1>2. IInv /\ [BoardNext]_boardVars => [Laid!Next]_Placed
  <2> SUFFICES ASSUME IInv, [BoardNext]_boardVars PROVE [Laid!Next]_Placed
    OBVIOUS
  <2>1. ASSUME NEW t \in Headings, Row(t) PROVE Laid!Next
    BY <2>1, RowPlaces
  <2>2. ASSUME NEW b \in Bodies, NEW w \in 1..Columns, NEW h \in Nat \ {0}, Add(b, w, h)
        PROVE  Laid!Next
    <3>1. PICK px, py, high : Free(w, px, py, high) /\ Put(b, w, h, px, py, high)
      BY <2>2, AddIsPut
    <3>2. QED
      BY <3>1, PutPlaces
  <2>3. CASE UNCHANGED boardVars
    BY <2>3 DEF boardVars, Placed
  <2>4. QED
    BY <2>1, <2>2, <2>3 DEF BoardNext
<1>3. QED
  BY <1>1, <1>2, Inductive, PTL DEF BoardSpec, LaidOutAsPage, Laid!Spec

-----------------------------------------------------------------------------
(* Sequences of items. *)

\* A concatenation holds what its parts hold.
LEMMA NamesOfConcat == ASSUME NEW S, NEW s \in Seq(S), NEW t \in Seq(S)
  PROVE s \o t \in Seq(S) /\ NameSet(s \o t) = NameSet(s) \union NameSet(t)
<1>1. /\ s \o t \in Seq(S) /\ Len(s \o t) = Len(s) + Len(t)
      /\ \A i \in 1..(Len(s) + Len(t)) :
            (s \o t)[i] = IF i <= Len(s) THEN s[i] ELSE t[i - Len(s)]
  BY ConcatProperties
<1>2. Len(s) \in Nat /\ Len(t) \in Nat
  OBVIOUS
<1>3. ASSUME NEW i \in 1..Len(s) PROVE s[i] \in NameSet(s \o t)
  <2>1. i \in 1..Len(s \o t) /\ (s \o t)[i] = s[i]
    BY <1>1, <1>2
  <2>2. QED
    BY <2>1 DEF NameSet
<1>4. ASSUME NEW i \in 1..Len(t) PROVE t[i] \in NameSet(s \o t)
  <2>1. i + Len(s) \in 1..Len(s \o t) /\ (s \o t)[i + Len(s)] = t[i]
    BY <1>1, <1>2
  <2>2. QED
    BY <2>1 DEF NameSet
<1>5. ASSUME NEW i \in 1..Len(s \o t) PROVE (s \o t)[i] \in NameSet(s) \union NameSet(t)
  <2>1. CASE i <= Len(s)
    BY <1>1, <1>2, <2>1 DEF NameSet
  <2>2. CASE ~(i <= Len(s))
    <3>1. i - Len(s) \in 1..Len(t) /\ (s \o t)[i] = t[i - Len(s)]
      BY <1>1, <1>2, <2>2
    <3>2. QED
      BY <3>1 DEF NameSet
  <2>3. QED
    BY <2>1, <2>2
<1>6. QED
  BY <1>1, <1>3, <1>4, <1>5 DEF NameSet

\* The head of a list is in it, and so is everything in the tail.
LEMMA HeadAndTail ==
  ASSUME NEW S, NEW s \in Seq(S), s # <<>>
  PROVE  Head(s) \in S /\ Tail(s) \in Seq(S) /\ NameSet(s) = {Head(s)} \union NameSet(Tail(s))
<1>1. /\ Len(s) \in Nat \ {0} /\ Head(s) = s[1]
      /\ Tail(s) \in Seq(S) /\ Len(Tail(s)) = Len(s) - 1
      /\ \A i \in 1..Len(Tail(s)) : Tail(s)[i] = s[i + 1]
  BY EmptySeq, HeadTailProperties
<1>2. Head(s) \in S
  BY <1>1
<1>3. ASSUME NEW i \in 1..Len(s) PROVE s[i] \in {Head(s)} \union NameSet(Tail(s))
  <2>1. CASE i = 1
    BY <1>1, <2>1
  <2>2. CASE i # 1
    <3>1. i - 1 \in 1..Len(Tail(s)) /\ Tail(s)[i - 1] = s[i]
      BY <1>1, <2>2
    <3>2. QED
      BY <3>1 DEF NameSet
  <2>3. QED
    BY <2>1, <2>2
<1>4. ASSUME NEW i \in 1..Len(Tail(s)) PROVE Tail(s)[i] \in NameSet(s)
  <2>1. i + 1 \in 1..Len(s) /\ Tail(s)[i] = s[i + 1]
    BY <1>1
  <2>2. QED
    BY <2>1 DEF NameSet
<1>5. Head(s) \in NameSet(s)
  BY <1>1 DEF NameSet
<1>6. QED
  BY <1>1, <1>2, <1>3, <1>4, <1>5 DEF NameSet

-----------------------------------------------------------------------------
(* What the stock integrations are called and collect. *)

\* The integrations that are neither Custom Logs inputs nor receivers ...
Own == {"system", "linux-metrics", "journal-errors", "docker"}

\* ... the receivers of the network gear's streams ...
Receiving == {"qnap-syslog", "unifi-activity-cef", "unifi-traffic-iptables", "unifi-netflow"}

\* ... and the Custom Logs inputs of the media applications.
Shipping == {a \o "-logs" : a \in NameSet(MediaApps)}

\* What the package "system" collects.
SystemStreams ==
    {"system.cpu", "system.memory", "system.filesystem", "system.load",
     "system.network", "system.diskio", "system.process", "system.uptime"}

\* The datasets whose panels depend on whether their stream is on.
Optional == {LogSet[n] : n \in DOMAIN LogSet} \union NetSets

\* The streams of UniFi's two receivers.
Unifi == {"cef.log", "iptables.log"}

\* Every dataset of a data source, whichever integration it comes from.
Known(source) == IF source = Metrics THEN AllSets(MetricSets) ELSE AllSets(LogSets)

\* No two of the three kinds share a name, and the stock policies hold no others.
LEMMA Names ==
    /\ DOMAIN LogSet = {"proxmox-hardware"} \union Shipping
    /\ UNION Policies = Own \union DOMAIN LogSet \union Receiving
    /\ DOMAIN LogSet \intersect (Own \union Receiving) = {}
<1>1. {MediaApps[i] \o "-logs" : i \in 1..Len(MediaApps)} = Shipping
  BY DEF NameSet, Shipping
<1>2. DOMAIN LogSet = {"proxmox-hardware"} \union Shipping
  BY <1>1 DEF LogSet
<1>3. NameSet(ProxmoxPolicy) = {"system", "linux-metrics", "journal-errors", "proxmox-hardware"}
  BY DEF NameSet, ProxmoxPolicy
<1>4. NameSet(NetworkReceivers) = Receiving /\ NetworkReceivers \in Seq(Receiving)
  BY DEF NameSet, NetworkReceivers, Receiving
<1> DEFINE own == <<"system", "docker", "journal-errors">>
<1>5. ASSUME NEW S
      PROVE  /\ own \in Seq(S \union {"system", "docker", "journal-errors"})
             /\ NameSet(own) = {"system", "docker", "journal-errors"}
  BY DEF NameSet
<1>6. NameSet(StackPolicy) = {"system", "docker", "journal-errors"} \union Receiving
  <2>1. NetworkReceivers \in Seq(Receiving \union {"system", "docker", "journal-errors"})
    BY DEF NetworkReceivers, Receiving
  <2>2. StackPolicy = own \o NetworkReceivers
    BY DEF StackPolicy
  <2>3. own \in Seq(Receiving \union {"system", "docker", "journal-errors"})
    BY <1>5
  <2> HIDE DEF own
  <2>4. NameSet(StackPolicy) = NameSet(own) \union NameSet(NetworkReceivers)
    BY <2>1, <2>2, <2>3, NamesOfConcat
  <2>5. QED
    BY <1>4, <1>5, <2>4
<1>7. NameSet(MediaPolicy) = {"system", "docker", "journal-errors"} \union Shipping
  <2> DEFINE shipping == [i \in 1..Len(MediaApps) |-> MediaApps[i] \o "-logs"]
  <2>1. Len(MediaApps) = 9
    BY DEF MediaApps
  <2>2. shipping \in Seq(Shipping \union {"system", "docker", "journal-errors"})
    <3>1. shipping \in [1..9 -> Shipping \union {"system", "docker", "journal-errors"}]
      BY <2>1, <1>1
    <3>2. QED
      BY <3>1, SeqDef
  <2>5. NameSet(shipping) = Shipping
    <3>1. DOMAIN shipping = 1..9 /\ \A i \in 1..9 : shipping[i] = MediaApps[i] \o "-logs"
      BY <2>1
    <3> HIDE DEF shipping
    <3>2. 1..Len(shipping) = 1..9
      BY <2>2, <3>1, LenProperties
    <3>3. QED
      BY <2>1, <3>1, <3>2, <1>1 DEF NameSet
  <2>3. MediaPolicy = own \o shipping
    BY DEF MediaPolicy
  <2>4. own \in Seq(Shipping \union {"system", "docker", "journal-errors"})
    BY <1>5
  <2> HIDE DEF own, shipping
  <2>6. NameSet(MediaPolicy) = NameSet(own) \union NameSet(shipping)
    BY <2>2, <2>3, <2>4, NamesOfConcat
  <2>7. QED
    BY <1>5, <2>5, <2>6
<1>8. UNION Policies =
         NameSet(ProxmoxPolicy) \union NameSet(MediaPolicy) \union NameSet(StackPolicy)
  BY DEF Policies
<1>9. DOMAIN LogSet \intersect (Own \union Receiving) = {}
  BY <1>2, <1>4, NamesAssumption DEF Shipping, Receiving, Own
<1>10. QED
  BY <1>2, <1>3, <1>6, <1>7, <1>8, <1>9 DEF Own

LEMMA ReceiverNames ==
    ASSUME NEW p \in DOMAIN Receivers
    PROVE  Receivers[p] \in Receiving /\ Receivers[p] \notin DOMAIN LogSet \union Own
<1>1. Receivers[p] \in Receiving
  BY DEF Receivers, Receiving
<1>2. QED
  BY <1>1, Names DEF Receiving, Own

\* A Custom Logs input writes the dataset of its application, or that of hwstats.py.
LEMMA LogSetOf ==
  ASSUME NEW n \in DOMAIN LogSet
  PROVE  /\ LogSet[n] \in {"proxmox_hw"} \union NameSet(MediaApps)
         /\ LogSet["proxmox-hardware"] = "proxmox_hw"
         /\ LogSet[n] = "proxmox_hw" => n = "proxmox-hardware"
<1>1. NameSet(MediaApps) = {"sonarr", "radarr", "lidarr", "readarr", "prowlarr", "bazarr",
               "jellyfin", "kavita", "emby"}
  BY DEF NameSet, MediaApps
<1>2. CASE n = "proxmox-hardware"
  BY <1>2 DEF LogSet
<1>3. CASE n # "proxmox-hardware"
  <2>1. PICK a \in NameSet(MediaApps) : a \o "-logs" = n
    BY <1>3, Names DEF Shipping
  <2>2. LogSet[n] = CHOOSE b \in NameSet(MediaApps) : b \o "-logs" = n
    BY <1>3 DEF LogSet
  <2>3. LogSet[n] \in NameSet(MediaApps)
    BY <2>1, <2>2, Zenon
  <2>4. LogSet["proxmox-hardware"] = "proxmox_hw"
    BY DEF LogSet
  <2>5. QED
    BY <2>3, <2>4, <1>1
<1>4. QED
  BY <1>2, <1>3

\* Each integration tells its package.
LEMMA PackageOf ==
  /\ Package("system") = "system" /\ Package("docker") = "docker"
  /\ Package("linux-metrics") = "linux" /\ Package("journal-errors") = "journald"
  /\ \A n \in DOMAIN LogSet : Package(n) = "log"
  /\ \A p \in DOMAIN Receivers : Package(Receivers[p]) = p
<1>1. \A n \in DOMAIN LogSet : Package(n) = "log"
  BY Names DEF Package, Own
<1>2. {"system", "linux-metrics", "journal-errors", "docker"} \intersect DOMAIN LogSet = {}
  BY Names DEF Own
<1>3. Package("system") = "system" /\ Package("docker") = "docker"
  BY <1>2 DEF Package
<1>4. Package("linux-metrics") = "linux" /\ Package("journal-errors") = "journald"
  BY <1>2 DEF Package
<1>5. ASSUME NEW p \in DOMAIN Receivers PROVE Package(Receivers[p]) = p
  <2>2. Receivers[p] \notin DOMAIN LogSet \union Own
    BY ReceiverNames
  <2>3. Package(Receivers[p]) = CHOOSE q \in DOMAIN Receivers : Receivers[q] = Receivers[p]
    BY <2>2 DEF Package, Own
  <2>4. \A q \in DOMAIN Receivers : Receivers[q] = Receivers[p] => q = p
    BY DEF Receivers
  <2>5. QED
    BY <2>3, <2>4
<1>6. QED
  BY <1>1, <1>3, <1>4, <1>5

\* What policy_capabilities() makes of a policy, integration by integration.
LEMMA Collects ==
  ASSUME NEW f, f.held \subseteq UNION Policies
  PROVE  /\ "linux" \in Caps(f).packages <=> "linux-metrics" \in f.held
         /\ "docker" \in Caps(f).packages <=> "docker" \in f.held
         /\ "journald" \in Caps(f).packages <=> "journal-errors" \in f.held
         /\ Caps(f).datasets = {LogSet[n] : n \in f.held \intersect DOMAIN LogSet} \ f.off
         /\ Caps(f).receivers = {p \in DOMAIN Receivers :
                                   Receivers[p] \in f.held /\ p \o ".log" \notin f.off}
<1>1. Caps(f).packages = {Package(n) : n \in f.held}
  BY DEF Caps, PolicyCapabilities
<1>2. /\ Caps(f).datasets = {LogSet[n] : n \in f.held \intersect DOMAIN LogSet} \ f.off
      /\ Caps(f).receivers = {p \in DOMAIN Receivers :
                                Receivers[p] \in f.held /\ p \o ".log" \notin f.off}
  BY DEF Caps, PolicyCapabilities
<1>3. ASSUME NEW n \in f.held
      PROVE  \/ n \in {"system", "linux-metrics", "journal-errors", "docker"}
             \/ n \in DOMAIN LogSet
             \/ \E p \in DOMAIN Receivers :
                   n = Receivers[p] /\ p \notin {"linux", "docker", "journald"}
  BY Names DEF Receiving, Receivers, Own
<1>4. QED
  BY <1>1, <1>2, <1>3, PackageOf

\* The datasets of each integration.
LEMMA SetsOf ==
  /\ Sets("system") = SystemStreams
  /\ {"linux.service"} \subseteq Sets("linux-metrics")
  /\ Sets("docker") = {"docker.container", "docker.cpu", "docker.memory", "docker.container_logs"}
  /\ Sets("journal-errors") = {"journal_errors"}
  /\ \A n \in DOMAIN LogSet : Sets(n) = {LogSet[n]}
  /\ \A p \in DOMAIN Receivers : Sets(Receivers[p]) = {p \o ".log"}
<1>1. {"system", "linux-metrics", "journal-errors", "docker"} \intersect DOMAIN LogSet = {}
  BY Names DEF Own
<1>2. /\ LogSets("system") = {} /\ LogSets("docker") = {"docker.container_logs"}
      /\ LogSets("journal-errors") = {"journal_errors"}
  BY <1>1 DEF LogSets
<1>3. /\ MetricSets("system") = SystemStreams
      /\ MetricSets("docker") = {"docker.container", "docker.cpu", "docker.memory"}
      /\ MetricSets("journal-errors") = {}
      /\ {"linux.service"} \subseteq MetricSets("linux-metrics")
  BY DEF MetricSets, SystemStreams
<1>4. ASSUME NEW n \in DOMAIN LogSet PROVE MetricSets(n) = {} /\ LogSets(n) = {LogSet[n]}
  BY Names DEF MetricSets, LogSets, Own
<1>5. ASSUME NEW p \in DOMAIN Receivers
      PROVE  MetricSets(Receivers[p]) = {} /\ LogSets(Receivers[p]) = {p \o ".log"}
  BY ReceiverNames, PackageOf DEF LogSets, MetricSets, Own
<1>6. QED
  BY <1>2, <1>3, <1>4, <1>5 DEF Sets

\* None of them is a stream of another integration.
LEMMA OptionalSets ==
    Optional \intersect
       (SystemStreams \union {"linux.service", "docker.container", "docker.cpu", "docker.memory",
                              "docker.container_logs", "journal_errors"}) = {}
<1>1. NetSets = {"qnap_nas.log", "cef.log", "iptables.log", "netflow.log"}
  BY DEF NetSets, NetSources
<1>2. NameSet(MediaApps) = {"sonarr", "radarr", "lidarr", "readarr", "prowlarr", "bazarr",
                            "jellyfin", "kavita", "emby"}
  BY DEF NameSet, MediaApps
<1>3. QED
  BY <1>1, <1>2, LogSetOf DEF Optional, SystemStreams

\* The builders know metrics from logs: every dataset they name is where they ask.
LEMMA Streams ==
  /\ SystemStreams \union {"linux.service", "docker.container", "docker.cpu", "docker.memory"}
        \subseteq Known(Metrics)
  /\ {"docker.container_logs", "journal_errors", "proxmox_hw"} \union Optional
        \subseteq Known(Logs)
  /\ NetSets \subseteq Known(Logs)
<1>1. {"system", "linux-metrics", "docker", "journal-errors"} \union DOMAIN LogSet
         \union Receiving \subseteq UNION Policies
  BY Names DEF Own
<1>2. {"system", "linux-metrics", "journal-errors", "docker"} \intersect DOMAIN LogSet = {}
  BY Names DEF Own
<1>3. Known(Metrics) = UNION {MetricSets(n) : n \in UNION Policies}
  BY DEF Known, AllSets
<1>4. Known(Logs) = UNION {LogSets(n) : n \in UNION Policies}
  BY DEF Known, AllSets, Logs, Metrics
<1>5. \A m \in {"system", "linux-metrics", "docker"} : MetricSets(m) \subseteq Known(Metrics)
  BY <1>1, <1>3
<1>6. SystemStreams \subseteq Known(Metrics)
  BY <1>5 DEF MetricSets, SystemStreams
<1>7. {"linux.service", "docker.container", "docker.cpu", "docker.memory"} \subseteq Known(Metrics)
  BY <1>5 DEF MetricSets
<1>8. \A m \in {"docker", "journal-errors"} \union DOMAIN LogSet \union Receiving :
         LogSets(m) \subseteq Known(Logs)
  BY <1>1, <1>4
<1>9. {"docker.container_logs", "journal_errors"} \subseteq Known(Logs)
  <2>1. LogSets("docker") = {"docker.container_logs"}
    BY <1>2 DEF LogSets
  <2>2. LogSets("journal-errors") = {"journal_errors"}
    BY <1>2 DEF LogSets
  <2>3. QED
    BY <2>1, <2>2, <1>8
<1>10. ASSUME NEW m \in DOMAIN LogSet PROVE LogSet[m] \in Known(Logs)
  <2>1. LogSets(m) = {LogSet[m]}
    BY Names DEF LogSets, Own
  <2>2. QED
    BY <2>1, <1>8
<1>11. "proxmox_hw" \in Known(Logs)
  <2>1. "proxmox-hardware" \in DOMAIN LogSet
     BY Names
  <2>2. QED
    BY <2>1, <1>10, LogSetOf
<1>12. NetSets \subseteq Known(Logs)
  <2>1. ASSUME NEW p \in DOMAIN Receivers
        PROVE  LogSets(Receivers[p]) = {p \o ".log"} /\ Receivers[p] \in Receiving
    BY ReceiverNames, PackageOf DEF LogSets, Own
  <2>2. ASSUME NEW p \in DOMAIN Receivers
        PROVE  [qnap_nas |-> "qnap_nas.log", cef |-> "cef.log",
                iptables |-> "iptables.log", netflow |-> "netflow.log"][p] \in Known(Logs)
    BY <2>1, <1>8, NamesAssumption
  <2>3. DOMAIN Receivers = {"qnap_nas", "cef", "iptables", "netflow"}
    BY DEF Receivers
  <2>4. NetSets = {"qnap_nas.log", "cef.log", "iptables.log", "netflow.log"}
    BY DEF NetSets, NetSources
  <2>5. QED
    BY <2>2, <2>3, <2>4
<1>13. QED
  BY <1>6, <1>7, <1>9, <1>10, <1>11, <1>12 DEF Optional

-----------------------------------------------------------------------------
(* Panels that ask for what is there, and dashboards made of them. *)

\* A grouping whose `missing' value its field can hold.
Missing(field) ==
    CASE field \in {"source.ip", "destination.ip"} -> {"nothing"}
      [] field = "destination.port" -> {"nothing", "number"}
      [] OTHER -> {"nothing", "word"}

Fits(by) == \A t \in by : t.missing \in Missing(t.field)

\* A query asked of the source that holds the datasets it names, all among `sets', and
\* grouping by what their fields hold.
Answered(q, source, sets) ==
    /\ q.source = source /\ q.sets \subseteq sets /\ q.sets \subseteq Known(source)
    /\ Fits(q.by)
    /\ q.kind # "any" => q.shows \union {t.field : t \in q.by} \subseteq FieldsOf[q.kind]

\* An item that can be laid out, and whose queries are answered.
Sound(i, sets) ==
    i.heading \/ /\ ~i.heading /\ i.w \in 1..Columns /\ i.h \in 1..12
                 /\ \A q \in i.body.queries : Answered(q, i.body.source, sets)

\* A list of such items.
Made(s, sets) == s \in Seq(NameSet(s)) /\ \A i \in NameSet(s) : Sound(i, sets)

LEMMA EmptyMade == ASSUME NEW S PROVE Made(<<>>, S)
  BY DEF Made, NameSet

\* Sound lists make sound lists, and so do sound items, however many a list has.
LEMMA MadeOf ==
  ASSUME NEW s, NEW t, NEW sets, Made(s, sets), Made(t, sets)
  PROVE  Made(s \o t, sets) /\ NameSet(s \o t) = NameSet(s) \union NameSet(t)
<1>1. s \in Seq(NameSet(s) \union NameSet(t)) /\ t \in Seq(NameSet(s) \union NameSet(t))
  BY SeqMonotonic, Zenon DEF Made
<1>2. /\ s \o t \in Seq(NameSet(s) \union NameSet(t))
      /\ NameSet(s \o t) = NameSet(s) \union NameSet(t)
  BY <1>1, NamesOfConcat, Zenon
<1>3. QED
  BY <1>2 DEF Made

LEMMA MadeOfThree ==
  ASSUME NEW sets, NEW a, NEW b, NEW c, Sound(a, sets), Sound(b, sets), Sound(c, sets)
  PROVE  Made(<<a, b, c>>, sets) /\ NameSet(<<a, b, c>>) = {a, b, c}
  BY DEF Made, NameSet

LEMMA MadeOfFour ==
  ASSUME NEW sets, NEW a, NEW b, NEW c, NEW d,
         Sound(a, sets), Sound(b, sets), Sound(c, sets), Sound(d, sets)
  PROVE  Made(<<a, b, c, d>>, sets) /\ NameSet(<<a, b, c, d>>) = {a, b, c, d}
  BY DEF Made, NameSet

LEMMA MadeOfFive ==
  ASSUME NEW sets, NEW e1, NEW e2, NEW e3, NEW e4, NEW e5,
         Sound(e1, sets), Sound(e2, sets), Sound(e3, sets), Sound(e4, sets), Sound(e5, sets)
  PROVE  Made(<<e1, e2, e3, e4, e5>>, sets)
  BY DEF Made, NameSet

LEMMA MadeOfSix ==
  ASSUME NEW sets, NEW e1, NEW e2, NEW e3, NEW e4, NEW e5, NEW e6,
         Sound(e1, sets), Sound(e2, sets), Sound(e3, sets),
         Sound(e4, sets), Sound(e5, sets), Sound(e6, sets)
  PROVE  Made(<<e1, e2, e3, e4, e5, e6>>, sets)
  BY DEF Made, NameSet

LEMMA MadeOfNine ==
  ASSUME NEW sets, NEW e1, NEW e2, NEW e3, NEW e4, NEW e5, NEW e6, NEW e7, NEW e8, NEW e9,
         Sound(e1, sets), Sound(e2, sets), Sound(e3, sets),
         Sound(e4, sets), Sound(e5, sets), Sound(e6, sets),
         Sound(e7, sets), Sound(e8, sets), Sound(e9, sets)
  PROVE  Made(<<e1, e2, e3, e4, e5, e6, e7, e8, e9>>, sets)
  BY DEF Made, NameSet

LEMMA MadeOfTwentyTwo ==
  ASSUME NEW sets, NEW e1, NEW e2, NEW e3, NEW e4, NEW e5, NEW e6, NEW e7, NEW e8,
         NEW e9, NEW e10, NEW e11, NEW e12, NEW e13, NEW e14, NEW e15, NEW e16,
         NEW e17, NEW e18, NEW e19, NEW e20, NEW e21, NEW e22,
         Sound(e1, sets), Sound(e2, sets), Sound(e3, sets), Sound(e4, sets),
         Sound(e5, sets), Sound(e6, sets), Sound(e7, sets), Sound(e8, sets),
         Sound(e9, sets), Sound(e10, sets), Sound(e11, sets), Sound(e12, sets),
         Sound(e13, sets), Sound(e14, sets), Sound(e15, sets), Sound(e16, sets),
         Sound(e17, sets), Sound(e18, sets), Sound(e19, sets), Sound(e20, sets),
         Sound(e21, sets), Sound(e22, sets)
  PROVE  Made(<<e1, e2, e3, e4, e5, e6, e7, e8, e9, e10, e11,
                e12, e13, e14, e15, e16, e17, e18, e19, e20, e21, e22>>, sets)
  BY DEF Made, NameSet

LEMMA MadeOfRow ==
  ASSUME NEW sets, NEW s, s = [i \in 1..4 |-> s[i]], \A i \in 1..4 : Sound(s[i], sets)
  PROVE  Made(s, sets)
<1>1. s \in [1..4 -> {s[i] : i \in 1..4}]
  OBVIOUS
<1>2. s \in Seq({s[i] : i \in 1..4})
  BY <1>1, SeqDef
<1>3. DOMAIN s = 1..4 /\ 1..Len(s) = 1..4
  BY <1>1, <1>2, LenProperties
<1>4. NameSet(s) = {s[i] : i \in 1..4}
  BY <1>3 DEF NameSet
<1>5. QED
  BY <1>2, <1>4 DEF Made

\* A grouping without `missing' fits any field, and a word fits those that hold words.
LEMMA FitsPlain == ASSUME NEW fields PROVE Fits({Terms(f) : f \in fields})
  BY DEF Fits, Terms, Missing

\* The fields that hold no words.
Numeric == {"source.ip", "destination.ip", "destination.port"}

LEMMA FitsWords ==
  ASSUME NEW words, words \intersect Numeric = {}
  PROVE  Fits({TermsOr(f, "word") : f \in words})
  BY DEF Fits, TermsOr, Missing, Numeric

\* The panels the builders call for, by the helper that makes them.
LEMMA HeadingItem == ASSUME NEW sets, NEW title PROVE Sound(Heading(title), sets)
  BY DEF Heading, Sound

LEMMA LogItem ==
  ASSUME NEW S, NEW w, NEW h, NEW sets, NEW by, w \in 1..24, h \in 1..12,
         sets \in SUBSET (S \intersect Known(Logs)), Fits(by)
  PROVE  Sound(LogPanel(w, h, sets, by), S)
  BY DEF Query, Answered, LogPanel, PanelOf, Sound, Columns

LEMMA MetricItem ==
  ASSUME NEW S, NEW w, NEW h, NEW sets, NEW by, w \in 1..24, h \in 1..12,
         sets \in SUBSET (S \intersect Known(Metrics)), Fits(by)
  PROVE  Sound(MetricPanel(w, h, sets, by), S)
  BY DEF Query, Answered, MetricPanel, PanelOf, Sound, Columns

LEMMA HwPanelItem ==
  ASSUME NEW S, "proxmox_hw" \in S, NEW kind \in Kinds, NEW shows \in SUBSET FieldsOf[kind],
         NEW by \in SUBSET FieldsOf[kind]
  PROVE  Sound(HwPanel(kind, shows, by), S)
<1>2. Fits({Terms(f) : f \in by})
  BY FitsPlain
<1>3. {"proxmox_hw"} \subseteq Known(Logs)
  BY Streams
<1>4. {t.field : t \in {Terms(f) : f \in by}} \subseteq FieldsOf[kind]
  BY DEF Terms
<1>5. Answered(HwQuery(kind, shows, {Terms(f) : f \in by}), Logs, S)
  BY <1>2, <1>3, <1>4 DEF HwQuery, Answered
<1>6. QED
  BY <1>5 DEF HwPanel, PanelOf, Sound, Columns

LEMMA OfItem ==
  ASSUME NEW set, set \in NetSets, NEW S, set \in S,
         NEW w, NEW h, w \in 1..24, h \in 1..12, NEW fields
  PROVE  Sound(Of(set, w, h, fields), S)
<1>1. {set} \in SUBSET (S \intersect Known(Logs))
  BY Streams
<1>2. QED
  BY <1>1, FitsPlain, LogItem DEF Of

LEMMA OfOrItem ==
  ASSUME NEW set, set \in NetSets, NEW S, set \in S,
         NEW w, NEW h, w \in 1..24, h \in 1..12, NEW fields, NEW words,
         words \intersect Numeric = {}
  PROVE  Sound(OfOr(set, w, h, fields, words), S)
<1>1. {set} \in SUBSET (S \intersect Known(Logs))
  BY Streams
<1>2. Fits({Terms(f) : f \in fields} \union {TermsOr(f, "word") : f \in words})
  BY FitsPlain, FitsWords DEF Fits, Numeric
<1>3. QED
  BY <1>1, <1>2, LogItem DEF OfOr

-----------------------------------------------------------------------------
(* The sections of a host's dashboard. *)

LEMMA FiguresMade == ASSUME NEW S, SystemStreams \subseteq S PROVE Made(Figures, S)
<1>1. Fits({})
  BY DEF Fits
<1>2. ASSUME NEW set \in {"system.cpu", "system.memory", "system.filesystem",
                           "system.load", "system.uptime"}
      PROVE Sound(MetricPanel(4, 4, {set}, {}), S)
   BY <1>1, MetricItem, Streams DEF SystemStreams
<1>3. Sound(LogPanel(4, 4, Everything, {}), S)
  BY <1>1, LogItem DEF Everything
<1>4. QED
  BY <1>2, <1>3 DEF Made, Figures, NameSet

LEMMA ResourcesMade == ASSUME NEW S, SystemStreams \subseteq S PROVE Made(Resources, S)
<1>1. Fits({}) /\ \A f : Fits({Terms(f)})
  BY DEF Fits, Terms, Missing
<1>2. Fits({TermsOr("system.filesystem.device_name", "word"),
                   TermsOr("system.filesystem.mount_point", "word"),
                   TermsOr("system.filesystem.type", "word")})
  BY DEF Fits, TermsOr, Missing
<1>3. /\ Sound(MetricPanel(12, 8, {"system.cpu"}, {}), S)
      /\ Sound(MetricPanel(12, 8, {"system.memory"}, {}), S)
   BY <1>1, MetricItem, Streams DEF SystemStreams
<1>4. /\ Sound(MetricPanel(8, 8, {"system.filesystem"},
                        {Terms("system.filesystem.mount_point")}), S)
      /\ Sound(MetricPanel(8, 8, {"system.network"}, {Terms("system.network.name")}), S)
      /\ Sound(MetricPanel(8, 8, {"system.diskio"}, {Terms("system.diskio.name")}), S)
   BY <1>1, MetricItem, Streams DEF SystemStreams
<1>5. Sound(MetricPanel(24, 8, {"system.filesystem"},
                  {TermsOr("system.filesystem.device_name", "word"),
                   TermsOr("system.filesystem.mount_point", "word"),
                   TermsOr("system.filesystem.type", "word")}), S)
   BY <1>2, MetricItem, Streams DEF SystemStreams
<1>6. Sound(Heading("Resources"), S)
  BY HeadingItem
<1>7. QED
  BY <1>3, <1>4, <1>5, <1>6 DEF Made, Resources, NameSet

LEMMA HardwareMade == ASSUME NEW S, "proxmox_hw" \in S PROVE Made(Hardware, S)
<1>1. /\ {"hw.sensor.celsius", "hw.sensor.label"} \subseteq FieldsOf["temperature"]
      /\ {"hw.disk.celsius", "hw.disk.power_on_hours", "hw.disk.reallocated_sectors",
          "hw.disk.pending_sectors", "hw.disk.percentage_used",
          "hw.disk.device"} \subseteq FieldsOf["disk"]
      /\ {"hw.zpool.capacity_pct", "hw.zpool.free_bytes", "hw.zpool.size_bytes",
          "hw.zpool.fragmentation_pct", "hw.zpool.name",
          "hw.zpool.health"} \subseteq FieldsOf["zpool"]
  BY DEF FieldsOf, AlwaysIn, DiskFields, NvmeFields, SataFields, PoolFields
<1>2. /\ Sound(HwPanel("temperature", {"hw.sensor.celsius"}, {"hw.sensor.label"}), S)
      /\ Sound(HwPanel("disk", {"hw.disk.celsius"}, {"hw.disk.device"}), S)
      /\ Sound(HwPanel("disk", {"hw.disk.celsius", "hw.disk.power_on_hours",
                       "hw.disk.reallocated_sectors", "hw.disk.pending_sectors",
                       "hw.disk.percentage_used"}, {"hw.disk.device"}), S)
      /\ Sound(HwPanel("zpool", {"hw.zpool.capacity_pct", "hw.zpool.free_bytes",
                       "hw.zpool.size_bytes", "hw.zpool.fragmentation_pct"},
                       {"hw.zpool.name", "hw.zpool.health"}), S)
  BY <1>1, HwPanelItem DEF Kinds
<1>3. Sound(Heading("Hardware"), S)
  BY HeadingItem
<1>4. QED
  BY <1>2, <1>3 DEF Made, Hardware, NameSet

LEMMA UnitsMade == ASSUME NEW S, "linux.service" \in S PROVE Made(Units, S)
<1>1. Fits({}) /\ Fits({Terms("system.service.name"), Terms("system.service.sub_state")})
  BY DEF Fits, Terms, Missing
<1>2. /\ Sound(MetricPanel(4, 6, {"linux.service"}, {}), S)
      /\ Sound(MetricPanel(20, 6, {"linux.service"},
                  {Terms("system.service.name"), Terms("system.service.sub_state")}), S)
  BY <1>1, MetricItem, Streams
<1>3. Sound(Heading("systemd units"), S)
  BY HeadingItem
<1>4. QED
  BY <1>2, <1>3, MadeOfThree DEF Units

LEMMA ContainersMade ==
  ASSUME NEW S, {"docker.container", "docker.cpu", "docker.memory", "docker.container_logs"} \subseteq S
  PROVE Made(Containers, S)
<1>1. Fits({}) /\ Fits({Terms("container.name")})
  BY DEF Fits, Terms, Missing
<1>2. /\ Sound(MetricPanel(4, 7, {"docker.container"}, {}), S)
      /\ Sound(MetricPanel(10, 7, {"docker.cpu"}, {Terms("container.name")}), S)
      /\ Sound(MetricPanel(10, 7, {"docker.memory"}, {Terms("container.name")}), S)
      /\ Sound(LogPanel(12, 7, {"docker.container_logs"}, {Terms("container.name")}), S)
  BY <1>1, MetricItem, LogItem, Streams
<1>3. Sound(Heading("Containers"), S)
  BY HeadingItem
<1>4. QED
  BY <1>2, <1>3 DEF Made, Containers, NameSet

LEMMA ApplicationsMade ==
  ASSUME NEW S, NEW sets, sets \subseteq S, sets \subseteq Known(Logs)
  PROVE  Made(Applications(sets), S)
<1>1. Fits({}) /\ Fits({Terms("event.dataset")})
  BY DEF Fits, Terms, Missing
<1>2. /\ Sound(LogPanel(12, 8, sets, {Terms("event.dataset")}), S)
      /\ Sound(LogPanel(24, 10, sets, {}), S)
  BY <1>1, LogItem
<1>3. Sound(Heading("Application logs"), S)
  BY HeadingItem
<1>4. QED
  BY <1>2, <1>3, MadeOfFour DEF Applications

LEMMA AllLogsMade ==
  ASSUME NEW S, NEW journald \in BOOLEAN, journald => "journal_errors" \in S
  PROVE  /\ Made(AllLogs(journald), S)
         /\ journald => LogPanel(12, 10, {"journal_errors"}, {}) \in NameSet(AllLogs(journald))
<1>1. Fits({}) /\ Fits({Terms("event.dataset")})
  BY DEF Fits, Terms, Missing
<1>2. /\ Sound(LogPanel(16, 8, Everything, {Terms("event.dataset")}), S)
      /\ Sound(LogPanel(8, 8, Everything, {Terms("event.dataset")}), S)
      /\ Sound(LogPanel(12, 10, Everything, {}), S)
      /\ Sound(LogPanel(24, 10, Everything, {}), S)
      /\ journald => Sound(LogPanel(12, 10, {"journal_errors"}, {}), S)
  BY <1>1, LogItem, Streams DEF Everything
<1> DEFINE top == <<Heading("All logs"),
      LogPanel(16, 8, Everything, {Terms("event.dataset")}),
      LogPanel(8, 8, Everything, {Terms("event.dataset")})>>
<1>3. Made(top, S)
  <2>1. Sound(Heading("All logs"), S)
    BY HeadingItem
  <2>2. QED
    BY <1>2, <2>1, MadeOfThree
<1> DEFINE errors == <<LogPanel(12, 10, {"journal_errors"}, {}),
                       LogPanel(12, 10, Everything, {})>>
           all    == <<LogPanel(24, 10, Everything, {})>>
<1>4. /\ journald => Made(errors, S)
      /\ LogPanel(12, 10, {"journal_errors"}, {}) \in NameSet(errors)
  BY <1>2 DEF Made, NameSet
<1>5. Made(all, S)
  BY <1>2 DEF Made, NameSet
<1>6. AllLogs(journald) = top \o IF journald THEN errors ELSE all
  BY Zenon DEF AllLogs
<1> HIDE DEF top, errors, all
<1>7. CASE journald
  <2>1. AllLogs(journald) = top \o errors
    BY <1>6, <1>7
  <2>2. /\ Made(top \o errors, S)
        /\ NameSet(top \o errors) = NameSet(top) \union NameSet(errors)
    BY <1>3, <1>4, <1>7, MadeOf, Zenon
  <2>3. QED
    BY <1>4, <2>1, <2>2
<1>8. CASE ~journald
  BY <1>3, <1>5, <1>6, <1>8, MadeOf
<1>9. QED
  BY <1>7, <1>8

\* The items of a host's dashboard, section by section.
Sections(caps) ==
    LET sets == caps.datasets \ {"proxmox_hw"} IN
    NameSet(Figures) \union NameSet(Resources)
        \union (IF "proxmox_hw" \in caps.datasets THEN NameSet(Hardware) ELSE {})
        \union (IF "linux" \in caps.packages THEN NameSet(Units) ELSE {})
        \union (IF "docker" \in caps.packages THEN NameSet(Containers) ELSE {})
        \union (IF sets # {} THEN NameSet(Applications(sets)) ELSE {})
        \union NameSet(AllLogs("journald" \in caps.packages))

\* host_dashboard() puts together what is sound, and only what the policy collects.
LEMMA HostMade ==
  ASSUME NEW caps, NEW S, caps.datasets \subseteq Known(Logs), caps.datasets \subseteq S,
         Sets("system") \subseteq S,
         "linux" \in caps.packages => "linux.service" \in S,
         "docker" \in caps.packages => Sets("docker") \subseteq S,
         "journald" \in caps.packages => "journal_errors" \in S
  PROVE  Made(HostDashboard(caps), S) /\ NameSet(HostDashboard(caps)) = Sections(caps)
<1> DEFINE sets == caps.datasets \ {"proxmox_hw"}
           s1 == Where("proxmox_hw" \in caps.datasets, Hardware)
           s2 == Where("linux" \in caps.packages, Units)
           s3 == Where("docker" \in caps.packages, Containers)
           s4 == Where(sets # {}, Applications(sets))
           s5 == AllLogs("journald" \in caps.packages)
<1>1. Made(Figures, S) /\ Made(Resources, S)
  BY SetsOf, FiguresMade, ResourcesMade
<1>2. /\ Made(s1, S)
      /\ NameSet(s1) = IF "proxmox_hw" \in caps.datasets THEN NameSet(Hardware) ELSE {}
  BY HardwareMade, EmptyMade DEF Where, NameSet
<1>3. /\ Made(s2, S)
      /\ NameSet(s2) = IF "linux" \in caps.packages THEN NameSet(Units) ELSE {}
  BY UnitsMade, EmptyMade DEF Where, NameSet
<1>4. /\ Made(s3, S)
      /\ NameSet(s3) = IF "docker" \in caps.packages THEN NameSet(Containers) ELSE {}
  BY SetsOf, ContainersMade, EmptyMade DEF Where, NameSet
<1>5. Made(s4, S) /\ NameSet(s4) = IF sets # {} THEN NameSet(Applications(sets)) ELSE {}
  <2>1. sets \subseteq S /\ sets \subseteq Known(Logs)
    OBVIOUS
  <2> HIDE DEF sets
  <2>2. Made(Applications(sets), S)
    BY <2>1, ApplicationsMade
  <2>3. QED
    BY <2>2, EmptyMade DEF Where, NameSet
<1>6. Made(s5, S)
  <2> DEFINE journald == "journald" \in caps.packages
  <2>1. journald \in BOOLEAN /\ (journald => "journal_errors" \in S)
    OBVIOUS
  <2> HIDE DEF journald
  <2>2. Made(AllLogs(journald), S)
    BY <2>1, AllLogsMade
  <2>3. QED
    BY <2>2 DEF journald
<1>7. HostDashboard(caps) = Figures \o Resources \o s1 \o s2 \o s3 \o s4 \o s5
  BY DEF HostDashboard
<1> HIDE DEF s1, s2, s3, s4, s5
<1> DEFINE t0 == Figures \o Resources
           t1 == t0 \o s1
           t2 == t1 \o s2
           t3 == t2 \o s3
           t4 == t3 \o s4
           t5 == t4 \o s5
<1>8. Made(t0, S) /\ NameSet(t0) = NameSet(Figures) \union NameSet(Resources)
  BY <1>1, MadeOf
<1> HIDE DEF t0
<1>9. Made(t1, S) /\ NameSet(t1) = NameSet(t0) \union NameSet(s1)
  BY <1>2, <1>8, MadeOf
<1> HIDE DEF t1
<1>10. Made(t2, S) /\ NameSet(t2) = NameSet(t1) \union NameSet(s2)
  BY <1>3, <1>9, MadeOf
<1> HIDE DEF t2
<1>11. Made(t3, S) /\ NameSet(t3) = NameSet(t2) \union NameSet(s3)
  BY <1>4, <1>10, MadeOf
<1> HIDE DEF t3
<1>12. Made(t4, S) /\ NameSet(t4) = NameSet(t3) \union NameSet(s4)
  BY <1>5, <1>11, MadeOf
<1> HIDE DEF t4
<1>13. Made(t5, S) /\ NameSet(t5) = NameSet(t4) \union NameSet(s5)
  BY <1>6, <1>12, MadeOf
<1>14. HostDashboard(caps) = t5
  BY <1>7 DEF t0, t1, t2, t3, t4
<1> HIDE DEF t5
<1>15. QED
  BY <1>2, <1>3, <1>4, <1>5, <1>8, <1>9, <1>10, <1>11, <1>12, <1>13, <1>14
  DEF s5, Sections

\* The datasets that the dashboard of a host may name.
Allowed(f) ==
    Sets("system") \union ((UNION {Sets(n) : n \in f.held}) \ (Optional \intersect f.off))

\* In particular for a policy found in Fleet: nothing of a dataset that is switched off.
LEMMA HostOfFleet ==
  ASSUME NEW f \in Fleets
  PROVE  /\ Made(HostDashboard(Caps(f)), Allowed(f))
         /\ NameSet(HostDashboard(Caps(f))) = Sections(Caps(f))
<1> DEFINE caps == Caps(f)
<1>1. f.held \subseteq UNION Policies
  BY FleetsAssumption
<1>2. /\ "linux" \in caps.packages <=> "linux-metrics" \in f.held
      /\ "docker" \in caps.packages <=> "docker" \in f.held
      /\ "journald" \in caps.packages <=> "journal-errors" \in f.held
      /\ caps.datasets = {LogSet[n] : n \in f.held \intersect DOMAIN LogSet} \ f.off
  BY <1>1, Collects
<1>3. Optional \intersect {"linux.service", "docker.container", "docker.cpu", "docker.memory",
                           "docker.container_logs", "journal_errors"} = {}
  BY OptionalSets
<1>4. caps.datasets \subseteq Known(Logs)
  BY <1>2, Streams DEF Optional
<1>5. caps.datasets \subseteq Allowed(f)
  BY <1>2, SetsOf DEF Allowed
<1>6. /\ "linux" \in caps.packages => "linux.service" \in Allowed(f)
      /\ "docker" \in caps.packages => Sets("docker") \subseteq Allowed(f)
      /\ "journald" \in caps.packages => "journal_errors" \in Allowed(f)
  <2>1. \A n \in f.held : \A d \in Sets(n) : d \notin Optional => d \in Allowed(f)
    BY DEF Allowed
  <2>2. QED
    BY <1>2, <1>3, <2>1, SetsOf
<1>7. Sets("system") \subseteq Allowed(f)
  BY DEF Allowed
<1> HIDE DEF caps
<1>8. QED
  BY <1>4, <1>5, <1>6, <1>7, HostMade DEF caps

-----------------------------------------------------------------------------
(* The network dashboards. *)

LEMMA FourMade ==
  ASSUME NEW set, set \in NetSets, NEW S, set \in S
  PROVE  Made(Four(set), S)
<1>1. Sound(Of(set, 6, 4, {}), S)
  BY OfItem
<1>2. QED
  BY <1>1, MadeOfRow DEF Four

LEMMA DetailMade ==
  ASSUME NEW set, set \in NetSets, NEW S, set \in S
  PROVE  Made(Detail(set), S)
<1>1. Sound(Heading("Detail"), S) /\ Sound(Of(set, 24, 12, {}), S)
  BY HeadingItem, OfItem
<1>2. QED
  BY <1>1 DEF Made, NameSet, Detail

LEMMA QnapMade == Made(QnapDashboard, {"qnap_nas.log"})
<1> DEFINE S == {"qnap_nas.log"}
           Q(w, h, fields) == Of("qnap_nas.log", w, h, fields)
           middle == <<Heading("Activity"),
      Q(12, 8, {"qnap.nas.category"}), Q(12, 8, {"event.action"}),
      Q(8, 8, {"user.name"}), Q(8, 8, {"source.address"}), Q(8, 8, {"qnap.nas.application"}),
      Heading("File access"),
      Q(12, 9, {"qnap.nas.file.path", "event.action"}),
      Q(12, 9, {"qnap.nas.connection_type"})>>
<1>1. "qnap_nas.log" \in NetSets /\ "qnap_nas.log" \in S
  BY DEF NetSets, NetSources
<1>2. /\ Sound(Heading("Activity"), S) /\ Sound(Heading("File access"), S)
  BY HeadingItem
<1>3. \A fields : /\ Sound(Q(12, 8, fields), S) /\ Sound(Q(8, 8, fields), S)
                   /\ Sound(Q(12, 9, fields), S)
  BY <1>1, OfItem
<1>4. Made(middle, S)
  <2> HIDE DEF Q
  <2>1. QED
    BY <1>2, <1>3, MadeOfNine, Zenon
<1>5. QED
  <2>1. QnapDashboard = Four("qnap_nas.log") \o middle \o Detail("qnap_nas.log")
    BY DEF QnapDashboard
  <2> HIDE DEF middle, S
  <2>2. Made(Four("qnap_nas.log") \o middle, S)
    BY <1>1, <1>4, FourMade, MadeOf
  <2>3. Made(Detail("qnap_nas.log"), S)
    BY <1>1, DetailMade
  <2>4. QED
    BY <2>1, <2>2, <2>3, MadeOf DEF S

LEMMA CefMade == Made(CefDashboard, {"cef.log"})
<1> DEFINE S == {"cef.log"}
           Q(w, h, fields, words) == OfOr("cef.log", w, h, fields, words)
           middle ==
    <<Heading("Activity"),
      Q(16, 8, {"cef.name"}, {}), Q(8, 8, {"cef.severity"}, {}),
      Q(8, 8, {}, {"cef.name", "cef.device.event_class_id"}),
      Q(8, 8, {}, {"cef.device.vendor", "cef.device.product", "observer.name"}),
      Q(8, 8, {"source.ip"}, {})>>
<1>1. "cef.log" \in NetSets /\ "cef.log" \in S
  BY DEF NetSets, NetSources
<1>2. Sound(Heading("Activity"), S)
  BY HeadingItem
<1>3. /\ Sound(Q(16, 8, {"cef.name"}, {}), S) /\ Sound(Q(8, 8, {"cef.severity"}, {}), S)
      /\ Sound(Q(8, 8, {"source.ip"}, {}), S)
  BY <1>1, OfOrItem
<1>4. /\ Sound(Q(8, 8, {}, {"cef.name", "cef.device.event_class_id"}), S)
      /\ Sound(Q(8, 8, {}, {"cef.device.vendor", "cef.device.product", "observer.name"}), S)
  BY <1>1, OfOrItem DEF Numeric
<1>5. Made(middle, S)
  <2> HIDE DEF Q
  <2>1. QED
    BY <1>2, <1>3, <1>4, MadeOfSix, Zenon
<1>6. CefDashboard = Four("cef.log") \o middle \o Detail("cef.log")
  BY DEF CefDashboard
<1>7. Made(Four("cef.log"), S) /\ Made(Detail("cef.log"), S)
  BY <1>1, FourMade, DetailMade
<1> HIDE DEF middle, S
<1>8. Made(Four("cef.log") \o middle, S)
  BY <1>5, <1>7, MadeOf
<1>9. QED
  BY <1>6, <1>7, <1>8, MadeOf DEF S

LEMMA IptablesMade == Made(IptablesDashboard, {"iptables.log"})
<1> DEFINE S == {"iptables.log"}
           Q(w, h, fields, words) == OfOr("iptables.log", w, h, fields, words)
           port == LogPanel(8, 8, {"iptables.log"}, {TermsOr("destination.port", "number"),
                                        TermsOr("network.transport", "word")})
           middle ==
    <<Heading("Traffic"),
      Q(12, 8, {"event.action"}, {}), Q(12, 8, {"iptables.ubiquiti.rule_set"}, {}),
      Q(8, 8, {}, {"observer.name", "event.action"}),
      Q(8, 8, {"source.ip"}, {}),
      port,
      Q(8, 8, {}, {"iptables.ubiquiti.rule_set", "iptables.ubiquiti.rule_number",
                   "event.action"}),
      Q(12, 7, {"network.transport"}, {}),
      Q(12, 7, {}, {"source.geo.country_iso_code"})>>
<1>1. "iptables.log" \in NetSets /\ "iptables.log" \in S
  BY DEF NetSets, NetSources
<1>2. Sound(Heading("Traffic"), S)
  BY HeadingItem
<1>3. /\ Sound(Q(12, 8, {"event.action"}, {}), S)
      /\ Sound(Q(12, 8, {"iptables.ubiquiti.rule_set"}, {}), S)
      /\ Sound(Q(8, 8, {"source.ip"}, {}), S)
      /\ Sound(Q(12, 7, {"network.transport"}, {}), S)
  BY <1>1, OfOrItem
<1>4. /\ Sound(Q(8, 8, {}, {"observer.name", "event.action"}), S)
      /\ Sound(Q(8, 8, {}, {"iptables.ubiquiti.rule_set", "iptables.ubiquiti.rule_number",
                   "event.action"}), S)
      /\ Sound(Q(12, 7, {}, {"source.geo.country_iso_code"}), S)
  BY <1>1, OfOrItem DEF Numeric
<1>5. Sound(port, S)
  <2>1. Fits({TermsOr("destination.port", "number"), TermsOr("network.transport", "word")})
    BY DEF Fits, TermsOr, Missing
  <2>2. {"iptables.log"} \in SUBSET (S \intersect Known(Logs))
    BY <1>1, Streams
  <2>3. QED
    BY <2>1, <2>2, LogItem
<1>6. Made(middle, S)
  <2> HIDE DEF Q, port
  <2>1. QED
    BY <1>2, <1>3, <1>4, <1>5, MadeOfNine, Zenon
<1>7. IptablesDashboard = Four("iptables.log") \o middle \o Detail("iptables.log")
  BY DEF IptablesDashboard
<1>8. Made(Four("iptables.log"), S) /\ Made(Detail("iptables.log"), S)
  BY <1>1, FourMade, DetailMade
<1> HIDE DEF middle, S
<1>9. Made(Four("iptables.log") \o middle, S)
  BY <1>6, <1>8, MadeOf
<1>10. QED
  BY <1>7, <1>8, <1>9, MadeOf DEF S

LEMMA NetflowMade == Made(NetflowDashboard, {"netflow.log"})
<1> DEFINE S == {"netflow.log"}
           Q(w, h, fields) == Of("netflow.log", w, h, fields)
           rest ==
    <<Heading("Volume"),
      Q(12, 8, {"source.ip"}), Q(12, 8, {"destination.ip"}),
      Q(8, 8, {"source.ip"}), Q(8, 8, {"source.ip", "destination.ip"}),
      Q(8, 8, {"destination.port", "network.transport"})>>
<1>1. "netflow.log" \in NetSets /\ "netflow.log" \in S
  BY DEF NetSets, NetSources
<1>2. Sound(Heading("Volume"), S)
  BY HeadingItem
<1>3. \A fields : Sound(Q(12, 8, fields), S) /\ Sound(Q(8, 8, fields), S)
  BY <1>1, OfItem
<1>4. Made(rest, S)
  <2> HIDE DEF Q
  <2>1. QED
    BY <1>2, <1>3, MadeOfSix, Zenon
<1>5. NetflowDashboard = Four("netflow.log") \o rest
  BY DEF NetflowDashboard
<1>6. Made(Four("netflow.log"), S)
  BY <1>1, FourMade
<1> HIDE DEF rest, S
<1>7. QED
  BY <1>4, <1>5, <1>6, MadeOf DEF S

LEMMA OverviewMade == Made(NetworkOverview, NetSets)
<1> DEFINE row == [i \in 1..4 |-> LogPanel(6, 4, {NetSources[i]}, {})]
           rest ==
    <<Heading("Ingest"),
      LogPanel(16, 8, NetSets, {Terms("event.dataset")}),
      LogPanel(8, 8, NetSets, {Terms("log.source.address")}),
      Heading("Everything arriving"),
      LogPanel(24, 12, NetSets, {})>>
<1>1. Fits({}) /\ \A f : Fits({Terms(f)})
  BY DEF Fits, Terms, Missing
<1>2. NetSets \subseteq Known(Logs)
  BY Streams
<1>3. Made(row, NetSets)
  <2>1. ASSUME NEW i \in 1..4 PROVE Sound(LogPanel(6, 4, {NetSources[i]}, {}), NetSets)
    <3>1. NetSources[i] \in NetSets
      BY DEF NetSets
    <3>2. {NetSources[i]} \in SUBSET (NetSets \intersect Known(Logs))
      BY <1>2, <3>1
    <3>3. QED
      BY <1>1, <3>2, LogItem
  <2>2. row = [i \in 1..4 |-> row[i]] /\ \A i \in 1..4 : Sound(row[i], NetSets)
    BY <2>1
  <2> HIDE DEF row
  <2>3. QED
    BY <2>2, MadeOfRow
<1>4. Made(rest, NetSets)
  <2>1. /\ Sound(LogPanel(16, 8, NetSets, {Terms("event.dataset")}), NetSets)
        /\ Sound(LogPanel(8, 8, NetSets, {Terms("log.source.address")}), NetSets)
        /\ Sound(LogPanel(24, 12, NetSets, {}), NetSets)
    BY <1>1, <1>2, LogItem
  <2>2. Sound(Heading("Ingest"), NetSets) /\ Sound(Heading("Everything arriving"), NetSets)
    BY HeadingItem
  <2>3. QED
    BY <2>1, <2>2, MadeOfFive, Zenon
<1>5. NetworkOverview = row \o row \o rest
  BY DEF NetworkOverview
<1> HIDE DEF row, rest
<1>6. Made(row \o row, NetSets)
  BY <1>3, MadeOf
<1>7. QED
  BY <1>4, <1>5, <1>6, MadeOf

LEMMA UnifiMade == Made(UnifiDashboard, Unifi)
<1> DEFINE both == {"cef.log", "iptables.log"}
           Both(w, h, words) == LogPanel(w, h, both, {TermsOr(f, "word") : f \in words})
           Cef(fields, words) == OfOr("cef.log", 12, 8, fields, words)
           Fw(fields, words)  == OfOr("iptables.log", 12, 8, fields, words)
           grouping == {Terms("source.ip"), TermsOr("destination.port", "number"),
                        TermsOr("network.transport", "word")}
           port == LogPanel(12, 8, {"iptables.log"}, grouping)
<1>1. /\ Unifi \subseteq NetSets /\ both \in SUBSET (Unifi \intersect Known(Logs))
      /\ both = {"cef.log", "iptables.log"} /\ Unifi = {"cef.log", "iptables.log"}
  <2>1. both \subseteq NetSets
    BY DEF NetSets, NetSources
  <2>2. QED
    BY <2>1, Streams DEF Unifi
<1>2. ASSUME NEW words, words \intersect Numeric = {}
      PROVE  /\ Sound(Both(6, 4, words), Unifi) /\ Sound(Both(12, 8, words), Unifi)
             /\ Sound(Both(24, 12, words), Unifi)
  <2>1. Fits({TermsOr(f, "word") : f \in words})
    BY <1>2, FitsWords DEF Numeric
  <2> HIDE DEF both
  <2>2. QED
    BY <1>1, <2>1, LogItem
<1>3. ASSUME NEW fields, NEW words, words \intersect Numeric = {}
      PROVE  Sound(Cef(fields, words), Unifi) /\ Sound(Fw(fields, words), Unifi)
  BY <1>1, <1>3, OfOrItem
<1>4. Sound(Of("cef.log", 6, 4, {}), Unifi)
  BY <1>1, OfItem
<1>5. Sound(port, Unifi)
  <2>1. Fits(grouping)
    BY DEF Fits, TermsOr, Terms, Missing
  <2>2. {"iptables.log"} \in SUBSET (Unifi \intersect Known(Logs))
    BY <1>1
  <2>3. QED
    BY <2>1, <2>2, LogItem
<1>6. \A title : Sound(Heading(title), Unifi)
  BY HeadingItem
<1>7. /\ {} \intersect Numeric = {} /\ {"network.direction", "observer.name"} \intersect Numeric = {}
      /\ {"rule.name", "rule.ruleset"} \intersect Numeric = {}
      /\ {"source.geo.country_iso_code"} \intersect Numeric = {}
      /\ {"observer.name"} \intersect Numeric = {}
      /\ {"rule.ruleset", "rule.name", "event.action"} \intersect Numeric = {}
      /\ {"source.user.name", "observer.name"} \intersect Numeric = {}
      /\ {"observer.name", "event.dataset"} \intersect Numeric = {}
  BY DEF Numeric
<1>8. Made(<<Both(6, 4, {}), Both(6, 4, {}), Of("cef.log", 6, 4, {}), Of("cef.log", 6, 4, {}),
      Heading("Threats"),
      Cef({"rule.name"}, {}),
      Cef({}, {"network.direction", "observer.name"}),
      Cef({}, {"rule.name", "rule.ruleset"}),
      Cef({"source.ip"}, {"source.geo.country_iso_code"}),
      Heading("Firewall"),
      Fw({}, {"observer.name"}),
      Fw({"rule.name"}, {}),
      Fw({}, {"rule.ruleset", "rule.name", "event.action"}),
      port,
      Heading("Management plane"),
      Cef({"source.ip"}, {"source.user.name", "observer.name"}),
      Cef({}, {}),
      Heading("Devices"),
      Both(12, 8, {"observer.name", "event.dataset"}), Both(12, 8, {}),
      Heading("Detail"),
      Both(24, 12, {})>>, Unifi)
  <2> HIDE DEF Both, Cef, Fw, port
  <2>1. QED
    BY <1>2, <1>3, <1>4, <1>5, <1>6, <1>7, MadeOfTwentyTwo, Zenon
<1>9. QED
  BY <1>8, Zenon DEF UnifiDashboard

\* What a dashboard may name: a network dashboard its own stream, or those it is the
\* summary of.
Scope(f, s) ==
    CASE s = "host"                -> Allowed(f)
      [] s = "overview"            -> NetSets
      [] s = "unifi"               -> Unifi
      [] OTHER                     -> {s \o ".log"}

\* Every builder makes sound items, of the datasets that its dashboard is about.
LEMMA DashboardMade ==
  ASSUME NEW f \in Fleets, NEW s \in Subjects(f)
  PROVE  Made(Dashboard(f, s), Scope(f, s))
<1>1. s \in {"host", "overview", "unifi"} \/ (s \in Caps(f).receivers /\ s \in DOMAIN Receivers)
  BY FleetsAssumption, Collects DEF Subjects, NetworkDashboards
<1>2. CASE s = "host"
  BY <1>2, HostOfFleet DEF Dashboard, Scope
<1>3. CASE s = "overview"
  BY <1>3, OverviewMade DEF Dashboard, Scope, Builder
<1>4. CASE s = "unifi"
  BY <1>4, UnifiMade DEF Dashboard, Scope, Builder
<1>5. CASE s \in DOMAIN Receivers
  <2>1. s \in {"qnap_nas", "cef", "iptables", "netflow"}
    BY <1>5 DEF Receivers
  <2>2. s \o ".log" = [qnap_nas |-> "qnap_nas.log", cef |-> "cef.log",
                       iptables |-> "iptables.log", netflow |-> "netflow.log"][s]
    BY <1>5, NamesAssumption
  <2>3. Scope(f, s) = {s \o ".log"} /\ Dashboard(f, s) = Builder(s)
    BY <2>1 DEF Scope, Dashboard
  <2>4. CASE s = "qnap_nas"
    BY <2>2, <2>3, <2>4, QnapMade DEF Builder
  <2>5. CASE s = "cef"
    BY <2>2, <2>3, <2>5, CefMade DEF Builder
  <2>6. CASE s = "iptables"
    BY <2>2, <2>3, <2>6, IptablesMade DEF Builder
  <2>7. CASE s = "netflow"
    BY <2>2, <2>3, <2>7, NetflowMade DEF Builder
  <2>8. QED
    BY <2>1, <2>4, <2>5, <2>6, <2>7
<1>6. QED
  BY <1>1, <1>2, <1>3, <1>4, <1>5

-----------------------------------------------------------------------------
(* The builder at work. *)

\* The panel that an item becomes.
ShownAs(p, i) ==
    /\ p.heading <=> i.heading
    /\ p.body = i.body
    /\ p.w = IF i.heading THEN Columns ELSE i.w
    /\ p.h = IF i.heading THEN 1 ELSE i.h

\* All the items of the dashboard being built.
Contents == NameSet(Dashboard(fleet, subject))

\* The builder at work: a panel on the board is one of its items, as wide and as high as
\* it asked, and each of its items is on the board or still to be added.
Adding ==
    /\ fleet \in Fleets /\ subject \in Subjects(fleet)
    /\ todo \in Seq(Contents)
    /\ \A p \in panels : p.id > 0 /\ \E i \in Contents : ShownAs(p, i)
    /\ \A i \in Contents : i \in NameSet(todo) \/ \E p \in panels : ShownAs(p, i)

\* So each item is one that Board can lay out.
LEMMA ItemsAllowed ==
  ASSUME Adding, NEW i \in Contents
  PROVE  /\ Sound(i, Scope(fleet, subject))
         /\ i.body \in IF i.heading THEN Headings ELSE Bodies
<1>1. Made(Dashboard(fleet, subject), Scope(fleet, subject))
  BY DashboardMade DEF Adding
<1>2. QED
  BY <1>1, FleetsAssumption DEF Made, Contents, Adding

\* Laying out the next item keeps both halves.
LEMMA StepAdds ==
  ASSUME Adding, IInv, NEW new, ShownAs(new, Head(todo)), todo # <<>>, new.id > 0,
         panels' = panels \union {new}, todo' = Tail(todo), UNCHANGED <<fleet, subject>>
  PROVE  Adding'
<1>1. Contents' = Contents
  BY DEF Contents
<1>2. /\ Head(todo) \in Contents /\ todo' \in Seq(Contents)
      /\ NameSet(todo) = {Head(todo)} \union NameSet(todo')
  BY HeadAndTail DEF Adding
<1>3. \A p \in panels' : p.id > 0 /\ \E i \in Contents : ShownAs(p, i)
  BY <1>2 DEF Adding
<1>4. \A i \in Contents : i \in NameSet(todo') \/ \E p \in panels' : ShownAs(p, i)
  BY <1>2 DEF Adding
<1>5. QED
  BY <1>1, <1>2, <1>3, <1>4 DEF Adding, ShownAs

\* A step of the builder is a step of Board.
LEMMA HeadingAdds == ASSUME Adding, IInv, AddHeading PROVE Adding' /\ BoardNext
<1>1. Head(todo) \in Contents /\ todo # <<>> /\ Head(todo).heading
  BY HeadAndTail DEF AddHeading, Adding
<1>2. Head(todo).body \in Headings
  BY <1>1, ItemsAllowed
<1> DEFINE new == [id |-> id + 1, x |-> 0, y |-> Below, w |-> Columns, h |-> 1,
                   heading |-> TRUE, body |-> Head(todo).body]
<1>3. panels' = panels \union {new}
  BY DEF AddHeading, Row
<1>4. new.id > 0 /\ ShownAs(new, Head(todo))
  BY <1>1 DEF ShownAs, IInv, BoardTypeOK
<1> HIDE DEF new
<1>5. Adding'
  BY <1>1, <1>3, <1>4, StepAdds DEF AddHeading
<1>6. BoardNext
  BY <1>2 DEF AddHeading, BoardNext
<1>7. QED
  BY <1>5, <1>6

LEMMA PanelAdds == ASSUME Adding, IInv, AddPanel PROVE Adding' /\ BoardNext
<1> DEFINE i == Head(todo)
<1>1. i \in Contents /\ todo # <<>> /\ ~i.heading
  BY HeadAndTail DEF AddPanel, Adding
<1>2. i.body \in Bodies /\ i.w \in 1..Columns /\ i.h \in 1..12
  BY <1>1, ItemsAllowed DEF Sound
<1>3. Add(i.body, i.w, i.h) /\ todo' = Tail(todo) /\ UNCHANGED <<fleet, subject>>
  BY DEF AddPanel
<1> HIDE DEF i
<1>4. PICK px, py, high : Put(i.body, i.w, i.h, px, py, high)
  BY <1>3 DEF Add
<1> DEFINE new == [id |-> id + 1, x |-> px, y |-> py, w |-> i.w, h |-> i.h,
                   heading |-> FALSE, body |-> i.body]
<1>5. panels' = panels \union {new}
  BY <1>4 DEF Put
<1>6. new.id > 0 /\ ShownAs(new, i)
  BY <1>1 DEF ShownAs, IInv, BoardTypeOK
<1> HIDE DEF new
<1>7. Adding'
  BY <1>1, <1>3, <1>5, <1>6, StepAdds DEF i
<1>8. i.h \in Nat \ {0}
  BY <1>2
<1>9. BoardNext
  BY <1>2, <1>3, <1>8 DEF BoardNext
<1>10. QED
  BY <1>7, <1>9

\* The invariant of Boards, which is inductive together with that of Board; and Boards
\* implements Board.
LEMMA AddingInductive == Spec => [](Adding /\ IInv) /\ BoardSpec
<1>1. Init => Adding /\ BoardInit
  <2> SUFFICES ASSUME Init PROVE Adding
    BY DEF Init
  <2>1. fleet \in Fleets /\ subject \in Subjects(fleet) /\ panels = {}
    BY DEF Init, BoardInit
  <2>2. todo = Dashboard(fleet, subject) /\ todo \in Seq(Contents)
    BY <2>1, DashboardMade DEF Init, Made, Contents
  <2>3. QED
    BY <2>1, <2>2 DEF Adding, Contents
<1>2. Adding /\ IInv /\ [Next]_vars => Adding' /\ [BoardNext]_boardVars
  <2> SUFFICES ASSUME Adding, IInv, [Next]_vars PROVE Adding' /\ [BoardNext]_boardVars
    OBVIOUS
  <2>1. CASE AddHeading
    BY <2>1, HeadingAdds
  <2>2. CASE AddPanel
    BY <2>2, PanelAdds
  <2>3. CASE UNCHANGED vars
    BY <2>3 DEF vars, boardVars, Adding, Contents
  <2>4. QED
    BY <2>1, <2>2, <2>3 DEF Next, Built
<1>3. BoardInit => IInv
  BY InitPacked
<1>4. IInv /\ [BoardNext]_boardVars => IInv'
  BY StepPacks
<1>5. QED
  BY <1>1, <1>2, <1>3, <1>4, PTL DEF Spec, BoardSpec

\* What the properties below ask of panels and of queries.
LEMMA PanelAllowed ==
  ASSUME Adding, NEW p \in panels
  PROVE  \E i \in Contents : ShownAs(p, i) /\ Sound(i, Scope(fleet, subject))
  BY ItemsAllowed DEF Adding

LEMMA QueryAllowed ==
  ASSUME Adding, NEW p \in panels, ~p.heading, NEW q \in p.body.queries
  PROVE  Answered(q, p.body.source, Scope(fleet, subject))
  BY PanelAllowed DEF ShownAs, Sound

LEMMA QueriesAllowed ==
  ASSUME Adding, NEW q \in Queries
  PROVE  \E source : Answered(q, source, Scope(fleet, subject))
<1>1. PICK p \in panels : ~p.heading /\ q \in p.body.queries
  BY DEF Queries
<1>2. QED
  BY <1>1, QueryAllowed

-----------------------------------------------------------------------------
(* What holds of every dashboard at every moment. *)

\* Type correctness of the generator at work: a panel's id is one that was handed out, and
\* it is as wide and as high as stat(), timeseries() and table() may ask.
THEOREM TypeCorrect == Spec => []TypeOK
<1>1. Adding /\ IInv => TypeOK
  <2> SUFFICES ASSUME Adding, IInv PROVE TypeOK
    OBVIOUS
  <2>1. ASSUME NEW p \in panels PROVE p.id \in 1..id /\ p.w \in 1..Columns /\ p.h \in 1..12
    <3>1. PICK i \in Contents : ShownAs(p, i) /\ Sound(i, Scope(fleet, subject))
      BY PanelAllowed
    <3>2. p.id \in Nat /\ p.id > 0 /\ p.id <= id /\ id \in Nat
      BY DEF Adding, IInv, BoardTypeOK, PanelType, Packed
    <3>3. p.w \in 1..Columns /\ p.h \in 1..12
      BY <3>1 DEF ShownAs, Sound, Columns
    <3>4. QED
      BY <3>2, <3>3
  <2>2. QED
    BY <2>1 DEF TypeOK, Adding, IInv, BoardTypeOK
<1>2. QED
  BY <1>1, AddingInductive, PTL

\* No panel asks one data source for what lands in the other, whatever a policy holds:
\* every dataset a builder of gen-dashboards.py names is one that an integration of
\* setup-policies.py writes, as metrics or as logs, just as the builder has it.
THEOREM AskedWhereItLands == Spec => []ReadsWhereItLands
<1>1. Adding => ReadsWhereItLands
  <2> SUFFICES ASSUME Adding, NEW p \in panels, ~p.heading, NEW q \in p.body.queries
               PROVE  /\ q.source = p.body.source
                      /\ q.sets \subseteq Known(q.source)
    BY Zenon DEF ReadsWhereItLands, Known
  <2>1. QED
    BY QueryAllowed DEF Answered
<1>2. QED
  BY <1>1, AddingInductive, PTL

\* No panel stays empty because Elasticsearch refuses its query: terms() is only given a
\* `missing' value that the field it groups by can parse.
THEOREM MissingAlwaysFits == Spec => []MissingFitsField
<1>1. Adding => MissingFitsField
  BY QueriesAllowed DEF MissingFitsField, Answered, Fits, Missing
<1>2. QED
  BY <1>1, AddingInductive, PTL

\* The hardware panels only show and group by fields that hwstats.py writes into readings
\* of the kind they ask for.
THEOREM HardwareAlwaysReported == Spec => []HardwareIsReported
<1>1. Adding => HardwareIsReported
  BY QueriesAllowed DEF HardwareIsReported, Answered
<1>2. QED
  BY <1>1, AddingInductive, PTL

\* Beyond the metrics of the system, which a host's dashboard always asks for, no panel of
\* a host's dashboard or a receiver's is about an integration that the policy lacks, or a
\* Custom Logs dataset or receiver whose stream is switched off; and the dashboard of
\* UniFi's two receivers is only there if one of them is on.
THEOREM PanelsOfThePolicy == Spec => []PanelsFollowPolicy
<1>1. Adding => PanelsFollowPolicy
  <2> DEFINE held == UNION {Sets(n) : n \in fleet.held}
             collected == held \ (Optional \intersect fleet.off)
             both == {"cef.log", "iptables.log"}
             Follows(q) ==
                /\ subject = "host"     => q.sets \subseteq collected \union Sets("system")
                /\ subject = "overview" => q.sets \subseteq NetSets
                /\ subject = "unifi"    => q.sets \subseteq both /\ both \intersect collected # {}
                /\ subject \notin {"host", "overview", "unifi"} => q.sets \subseteq collected
  <2> SUFFICES ASSUME Adding, NEW q \in Queries PROVE Follows(q)
    BY DEF PanelsFollowPolicy, Optional
  <2>1. q.sets \subseteq Scope(fleet, subject)
    BY QueriesAllowed DEF Answered
  <2>2. ASSUME NEW p \in Caps(fleet).receivers
        PROVE  p \in DOMAIN Receivers /\ p \o ".log" \in collected
    <3>1. /\ p \in DOMAIN Receivers /\ Receivers[p] \in fleet.held
          /\ p \o ".log" \notin fleet.off
      BY Collects, FleetsAssumption DEF Adding
    <3>2. Sets(Receivers[p]) = {p \o ".log"}
      BY <3>1, SetsOf
    <3>3. QED
      BY <3>1, <3>2
  <2> HIDE DEF collected
  <2>3. CASE subject = "host"
    <3>1. q.sets \subseteq Sets("system") \union collected
      BY <2>1, <2>3 DEF Scope, Allowed, collected
    <3>2. QED
      BY <3>1, <2>3
  <2>4. CASE subject = "overview"
    BY <2>1, <2>4 DEF Scope
  <2>5. CASE subject = "unifi"
    <3>1. PICK p \in {"cef", "iptables"} : p \in Caps(fleet).receivers
      <4>1. "unifi" \notin DOMAIN Receivers
        BY DEF Receivers
      <4>2. QED
        BY <2>2, <2>5, <4>1 DEF Adding, Subjects, NetworkDashboards
    <3>2. p \o ".log" \in both
      BY <2>2, <3>1, NamesAssumption
    <3>3. q.sets \subseteq both
      BY <2>1, <2>5 DEF Scope, Unifi
    <3>4. QED
      BY <2>2, <2>5, <3>1, <3>2, <3>3
  <2>6. CASE subject \notin {"host", "overview", "unifi"}
    <3>1. subject \in Caps(fleet).receivers
      BY <2>6 DEF Adding, Subjects, NetworkDashboards
    <3>2. q.sets \subseteq {subject \o ".log"}
      BY <2>1, <2>6 DEF Scope
    <3>3. QED
      BY <2>2, <2>6, <3>1, <3>2
  <2>7. QED
    BY <2>3, <2>4, <2>5, <2>6
<1>2. QED
  BY <1>1, AddingInductive, PTL

\* Every dashboard the builders make is a page: the builders only ever use row() and add(),
\* with sizes these can place, so Boards implements Page.
THEOREM BuildersLayOutPages == Spec => LaidOutAsPage
  BY AddingInductive, BoardImplementsPage, PTL

-----------------------------------------------------------------------------
(* And of the complete one. *)

\* Once all is added, every panel the builder had is there.
LEMMA WholeShown ==
  ASSUME Adding, todo = <<>>, NEW i \in Contents, ~i.heading, NEW q \in i.body.queries
  PROVE  q \in Queries
<1>1. NameSet(todo) = {}
  BY DEF NameSet
<1>2. PICK p \in panels : ShownAs(p, i)
  BY <1>1 DEF Adding
<1>3. QED
  BY <1>2 DEF ShownAs, Queries

\* A panel of one query asks for the datasets it is given.
LEMMA QueryOf ==
  ASSUME NEW w, NEW h, NEW sets, NEW by
  PROVE  /\ ~LogPanel(w, h, sets, by).heading
         /\ \E q \in LogPanel(w, h, sets, by).body.queries : q.sets = sets
         /\ ~MetricPanel(w, h, sets, by).heading
         /\ \E q \in MetricPanel(w, h, sets, by).body.queries : q.sets = sets
  BY DEF LogPanel, MetricPanel, PanelOf, Query

\* Each section has a panel of what the section is about.
LEMMA SectionPanels ==
  /\ MetricPanel(4, 4, {"system.cpu"}, {}) \in NameSet(Figures)
  /\ MetricPanel(4, 6, {"linux.service"}, {}) \in NameSet(Units)
  /\ MetricPanel(4, 7, {"docker.container"}, {}) \in NameSet(Containers)
  /\ \A sets : LogPanel(24, 10, sets, {}) \in NameSet(Applications(sets))
  /\ HwPanel("temperature", {"hw.sensor.celsius"}, {"hw.sensor.label"}) \in NameSet(Hardware)
<1>1. \A s, i : i \in 1..Len(s) => s[i] \in NameSet(s)
  BY DEF NameSet
<1>2. Len(Figures) = 6 /\ Figures[1] = MetricPanel(4, 4, {"system.cpu"}, {})
  BY DEF Figures
<1>3. Len(Units) = 3 /\ Units[2] = MetricPanel(4, 6, {"linux.service"}, {})
  <2>1. ASSUME NEW a, NEW b, NEW c PROVE Len(<<a, b, c>>) = 3 /\ <<a, b, c>>[2] = b
    OBVIOUS
  <2>2. QED
    BY <2>1, Zenon DEF Units
<1>4. Len(Containers) = 6 /\ Containers[2] = MetricPanel(4, 7, {"docker.container"}, {})
  BY DEF Containers
<1>6. Len(Hardware) = 5 /\ Hardware[2] = HwPanel("temperature", {"hw.sensor.celsius"}, {"hw.sensor.label"})
  BY DEF Hardware
<1>7. ASSUME NEW sets
      PROVE  Len(Applications(sets)) = 4 /\ Applications(sets)[4] = LogPanel(24, 10, sets, {})
  BY DEF Applications
<1>8. MetricPanel(4, 4, {"system.cpu"}, {}) \in NameSet(Figures)
  BY <1>1, <1>2
<1>9. MetricPanel(4, 6, {"linux.service"}, {}) \in NameSet(Units)
  BY <1>1, <1>3
<1>10. MetricPanel(4, 7, {"docker.container"}, {}) \in NameSet(Containers)
  BY <1>1, <1>4
<1>11. \A sets : LogPanel(24, 10, sets, {}) \in NameSet(Applications(sets))
  <2> SUFFICES ASSUME NEW sets PROVE LogPanel(24, 10, sets, {}) \in NameSet(Applications(sets))
    OBVIOUS
  <2>1. 4 \in 1..Len(Applications(sets))
    BY <1>7
  <2>2. QED
    BY <1>1, <1>7, <2>1, Zenon
<1>12. HwPanel("temperature", {"hw.sensor.celsius"}, {"hw.sensor.label"}) \in NameSet(Hardware)
  BY <1>1, <1>6
<1>13. QED
  BY <1>8, <1>9, <1>10, <1>11, <1>12

\* A complete dashboard, one integration of the host after the other.
LEMMA HostShowsAll ==
  ASSUME Adding, subject = "host", todo = <<>>,
         NEW n \in fleet.held, n \notin {Receivers[p] : p \in DOMAIN Receivers}
  PROVE  Sets(n) \subseteq fleet.off \/ \E q \in Queries : q.sets \intersect Sets(n) # {}
<1> DEFINE caps == Caps(fleet)
           sets == caps.datasets \ {"proxmox_hw"}
<1>1. /\ fleet \in Fleets
      /\ Contents = Sections(Caps(fleet))
  BY HostOfFleet DEF Adding, Contents, Dashboard
<1>2. /\ "linux" \in caps.packages <=> "linux-metrics" \in fleet.held
      /\ "docker" \in caps.packages <=> "docker" \in fleet.held
      /\ "journald" \in caps.packages <=> "journal-errors" \in fleet.held
      /\ caps.datasets = {LogSet[m] : m \in fleet.held \intersect DOMAIN LogSet} \ fleet.off
  BY <1>1, Collects, FleetsAssumption
<1> HIDE DEF caps, sets
<1>3. n \in {"system", "linux-metrics", "docker", "journal-errors"} \union DOMAIN LogSet
  BY <1>1, Names, FleetsAssumption DEF Receiving, Receivers, Own
<1>4. ASSUME NEW i \in Contents, ~i.heading, NEW q \in i.body.queries,
             NEW d \in q.sets, d \in Sets(n)
      PROVE  \E r \in Queries : r.sets \intersect Sets(n) # {}
  BY <1>4, WholeShown
<1>5. CASE n = "system"
  <2>1. MetricPanel(4, 4, {"system.cpu"}, {}) \in Contents /\ "system.cpu" \in Sets(n)
    BY <1>1, <1>5, SectionPanels, SetsOf DEF Sections, SystemStreams
  <2>2. QED
    BY <1>4, <2>1, QueryOf
<1>6. CASE n = "linux-metrics"
  <2>1. MetricPanel(4, 6, {"linux.service"}, {}) \in Contents /\ "linux.service" \in Sets(n)
    BY <1>1, <1>2, <1>6, SectionPanels, SetsOf DEF caps, Sections
  <2>2. QED
    BY <1>4, <2>1, QueryOf
<1>7. CASE n = "docker"
  <2>1. MetricPanel(4, 7, {"docker.container"}, {}) \in Contents /\ "docker.container" \in Sets(n)
    BY <1>1, <1>2, <1>7, SectionPanels, SetsOf DEF caps, Sections
  <2>2. QED
    BY <1>4, <2>1, QueryOf
<1>8. CASE n = "journal-errors"
  <2> DEFINE journald == "journald" \in caps.packages
  <2>1. journald \in BOOLEAN /\ journald
    BY <1>2, <1>8
  <2> HIDE DEF journald
  <2>2. LogPanel(12, 10, {"journal_errors"}, {}) \in NameSet(AllLogs(journald))
    BY <2>1, AllLogsMade
  <2>3. LogPanel(12, 10, {"journal_errors"}, {}) \in Contents /\ "journal_errors" \in Sets(n)
    BY <1>1, <1>8, <2>2, SetsOf DEF journald, caps, Sections
  <2>4. QED
    BY <1>4, <2>3, QueryOf
<1>9. CASE n \in DOMAIN LogSet
  <2>1. Sets(n) = {LogSet[n]}
    BY <1>9, SetsOf
  <2>2. CASE LogSet[n] \in fleet.off
    BY <2>1, <2>2
  <2>3. CASE LogSet[n] \notin fleet.off /\ LogSet[n] = "proxmox_hw"
    <3>1. "proxmox_hw" \in caps.datasets
      BY <1>2, <1>9, <2>3
    <3>2. HwPanel("temperature", {"hw.sensor.celsius"}, {"hw.sensor.label"}) \in Contents
      BY <1>1, <3>1, SectionPanels DEF caps, Sections
    <3>3. /\ ~HwPanel("temperature", {"hw.sensor.celsius"}, {"hw.sensor.label"}).heading
          /\ \E q \in HwPanel("temperature", {"hw.sensor.celsius"}, {"hw.sensor.label"}).body.queries :
                q.sets = {"proxmox_hw"}
      BY DEF HwPanel, HwQuery, PanelOf
    <3>4. QED
      BY <1>4, <2>1, <2>3, <3>2, <3>3
  <2>4. CASE LogSet[n] \notin fleet.off /\ LogSet[n] # "proxmox_hw"
    <3>1. LogSet[n] \in sets
      BY <1>2, <1>9, <2>4 DEF sets
    <3>2. LogPanel(24, 10, sets, {}) \in Contents
      BY <1>1, <3>1, SectionPanels DEF caps, sets, Sections
    <3>3. QED
      BY <1>4, <2>1, <3>1, <3>2, QueryOf
  <2>5. QED
    BY <2>2, <2>3, <2>4
<1>10. QED
  BY <1>3, <1>5, <1>6, <1>7, <1>8, <1>9

\* Nothing a host collects is left out of its complete dashboard, and either UniFi receiver
\* alone is reason enough for the dashboard of both.
THEOREM AllIntegrationsShown == Spec => []EveryIntegrationShown
<1>1. Adding /\ IInv => EveryIntegrationShown
  <2> SUFFICES ASSUME Adding, IInv PROVE EveryIntegrationShown
    OBVIOUS
  <2>1. ASSUME subject = "host", todo = <<>>,
               NEW n \in fleet.held \ {Receivers[p] : p \in DOMAIN Receivers}
        PROVE  Sets(n) \subseteq fleet.off \/ \E q \in Queries : q.sets \intersect Sets(n) # {}
    BY <2>1, HostShowsAll
  <2>2. ASSUME NEW n \in {"unifi-activity-cef", "unifi-traffic-iptables"} \intersect fleet.held,
               Sets(n) \intersect fleet.off = {}
        PROVE  "unifi" \in NetworkDashboards(Caps(fleet).receivers)
    <3>1. PICK p \in {"cef", "iptables"} : p \in DOMAIN Receivers /\ Receivers[p] = n
      BY DEF Receivers
    <3>2. p \o ".log" \notin fleet.off
      BY <2>2, <3>1, SetsOf
    <3>3. p \in Caps(fleet).receivers
      BY <3>1, <3>2, Collects, FleetsAssumption DEF Adding
    <3>4. QED
      BY <3>3 DEF NetworkDashboards
  <2>3. QED
    BY <2>1, <2>2 DEF EveryIntegrationShown
<1>2. QED
  BY <1>1, AddingInductive, PTL
=============================================================================
