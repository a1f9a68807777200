-------------------------- MODULE DashboardsProofs --------------------------
(***************************************************************************)
(* The runs of Dashboards, for any number of them, any files and any lists *)
(* of boards: types, users' own dashboards, and what Grafana reads.        *)
(***************************************************************************)
EXTENDS Generator, FiniteSetTheorems, WellFoundedInduction, TLAPS

Board == [file : Files, body : Bodies]

\* What a run that has a board to write is about to write, and where.
LEMMA AtBoard ==
    ASSUME TypeOK, NEW r \in Runs, Active(r)
    PROVE  File(r) \in Files /\ Body(r) \in Bodies /\ n[r] \in 1..Len(boards[r])
<1>1. boards[r] \in Seq(Board) /\ n[r] \in DOMAIN boards[r]
  BY DEF TypeOK, Board
<1>2. n[r] \in 1..Len(boards[r]) /\ boards[r][n[r]] \in Board
  BY <1>1
<1>3. QED
  BY <1>2 DEF File, Body, Board

\* Where a run goes after a board.
LEMMA AfterBoard ==
    ASSUME TypeOK, NEW r \in Runs, Active(r), NextBoard(r)
    PROVE  /\ \E to \in {"look", "list", "kept"} : pc' = [pc EXCEPT ![r] = to]
           /\ n' \in [Runs -> Nat] /\ n'[r] \in 1..Len(boards[r])
           /\ \A s \in Runs \ {r} : n'[s] = n[s]
<1>1. n[r] \in 1..Len(boards[r]) /\ Len(boards[r]) \in Nat /\ n \in [Runs -> Nat]
  BY AtBoard DEF TypeOK
<1>2. CASE n[r] < Len(boards[r])
  BY <1>1, <1>2 DEF NextBoard
<1>3. CASE ~(n[r] < Len(boards[r]))
  BY <1>1, <1>3 DEF NextBoard
<1>4. QED
  BY <1>2, <1>3

LEMMA StopTyped ==
    ASSUME TypeOK, NEW r \in Runs, NEW how \in {"ok", "dead"}, Stop(r, how)
    PROVE  TypeOK'
<1>1. boards' \in [Runs -> Seq(Board)]
  <2>1. <<>> \in Seq(Board)
    OBVIOUS
  <2>2. boards \in [Runs -> Seq(Board)]
    BY DEF TypeOK, Board
  <2>3. QED
    BY <2>1, <2>2 DEF Stop
<1>2. /\ pc' \in [Runs -> Ended \union Busy] /\ n' \in [Runs -> Nat]
      /\ fd' \in [Runs -> {"none", "tmp", "shown"}]
      /\ left' \in [Runs -> SUBSET Files] /\ victim' \in [Runs -> Files \union {"none"}]
      /\ overtaken' \in [Runs -> SUBSET Files]
  BY DEF TypeOK, Stop, Ended
<1>3. ASSUME NEW s \in Runs
      PROVE  /\ Active(s)' => n'[s] \in DOMAIN boards'[s]
             /\ fd'[s] # "none" => pc'[s] \in {"write", "rename"}
             /\ pc'[s] = "remove" => victim'[s] \in Files
  BY DEF TypeOK, Stop, Active, Ended
<1>4. UNCHANGED <<shown, tmp, started, alone, fresh, overlapped>>
  BY DEF Stop, dirVars
<1>5. QED
  BY <1>1, <1>2, <1>3, <1>4 DEF TypeOK, Board, Contents

LEMMA DiscoverTyped ==
    ASSUME TypeOK, NEW r \in Runs, NEW plan \in Plans, Discover(r, plan)
    PROVE  TypeOK'
<1>1. plan \in Seq(Board) /\ plan # <<>> /\ MaxStarts \in Nat
  BY PlansAssumption DEF Board
<1>2. 1 \in DOMAIN plan
  BY <1>1
<1>3. boards' \in [Runs -> Seq(Board)] /\ n' \in [Runs -> Nat]
  BY <1>1 DEF TypeOK, Discover, Board
<1>4. /\ pc' \in [Runs -> Ended \union Busy] /\ overtaken' \in [Runs -> SUBSET Files]
      /\ alone' \in [Runs -> BOOLEAN] /\ fresh' \in [Runs -> BOOLEAN]
  BY DEF TypeOK, Discover, Busy
<1>5. started' \in 0..MaxStarts /\ overlapped' \in BOOLEAN
  BY <1>1 DEF TypeOK, Discover
<1>6. ASSUME NEW s \in Runs
      PROVE  /\ Active(s)' => n'[s] \in DOMAIN boards'[s]
             /\ fd'[s] # "none" => pc'[s] \in {"write", "rename"}
             /\ pc'[s] = "remove" => victim'[s] \in Files
  <2>1. CASE s = r
    BY <2>1, <1>2 DEF TypeOK, Discover, Active, Ended
  <2>2. CASE s # r
    BY <2>2 DEF TypeOK, Discover, Active
  <2>3. QED
    BY <2>1, <2>2
<1>7. UNCHANGED <<shown, tmp, fd, left, victim>>
  BY DEF Discover, dirVars
<1>8. QED
  BY <1>3, <1>4, <1>5, <1>6, <1>7 DEF TypeOK, Board, Contents

LEMMA LookTyped == ASSUME TypeOK, NEW r \in Runs, Look(r) PROVE TypeOK'
<1>1. pc[r] = "look" /\ Active(r) /\ fd[r] = "none"
  BY DEF Look, Examined, TypeOK, Active, Ended
<1>2. /\ \E to \in {"open", "look", "list", "kept"} : pc' = [pc EXCEPT ![r] = to]
      /\ n' \in [Runs -> Nat] /\ n'[r] \in 1..Len(boards[r])
      /\ \A s \in Runs \ {r} : n'[s] = n[s]
  <2>1. CASE NextBoard(r)
    BY <1>1, <2>1, AfterBoard
  <2>2. CASE ~NextBoard(r)
    BY <1>1, <2>2, AtBoard DEF Look, Examined, TypeOK
  <2>3. QED
    BY <2>1, <2>2
<1>3. UNCHANGED <<started, shown, tmp, boards, fd, left, victim, alone, fresh, overlapped>>
  BY DEF Look, Examined, dirVars
<1>4. overtaken' \in [Runs -> SUBSET Files]
  BY DEF Look, Examined, TypeOK
<1>5. pc' \in [Runs -> Ended \union Busy]
  BY <1>2 DEF TypeOK, Busy, Ended
<1>6. ASSUME NEW s \in Runs
      PROVE  /\ Active(s)' => n'[s] \in DOMAIN boards'[s]
             /\ fd'[s] # "none" => pc'[s] \in {"write", "rename"}
             /\ pc'[s] = "remove" => victim'[s] \in Files
  <2>1. CASE s = r
    BY <2>1, <1>1, <1>2, <1>3 DEF TypeOK
  <2>2. CASE s # r
    BY <2>2, <1>2, <1>3 DEF TypeOK, Active
  <2>3. QED
    BY <2>1, <2>2
<1>7. QED
  BY <1>2, <1>3, <1>4, <1>5, <1>6 DEF TypeOK, Contents

LEMMA OpenTyped == ASSUME TypeOK, NEW r \in Runs, Open(r) PROVE TypeOK'
<1>1. File(r) \in Files
  BY AtBoard DEF Open, Active, Ended
<1>2. tmp' \in [Files -> Contents \ {Hand}]
  BY <1>1 DEF TypeOK, Open, Contents, Torn, Hand
<1>3. pc' \in [Runs -> Ended \union Busy] /\ fd' \in [Runs -> {"none", "tmp", "shown"}]
  BY DEF TypeOK, Open, Busy
<1>4. ASSUME NEW s \in Runs
      PROVE  /\ Active(s)' => n'[s] \in DOMAIN boards'[s]
             /\ fd'[s] # "none" => pc'[s] \in {"write", "rename"}
             /\ pc'[s] = "remove" => victim'[s] \in Files
  BY DEF TypeOK, Open, Active, Ended
<1>5. UNCHANGED <<started, shown, boards, n, left, victim, overtaken, alone, fresh, overlapped>>
  BY DEF Open, ghostVars
<1>6. QED
  BY <1>2, <1>3, <1>4, <1>5 DEF TypeOK, Contents

LEMMA WriteTyped == ASSUME TypeOK, NEW r \in Runs, Write(r) PROVE TypeOK'
<1>1. File(r) \in Files /\ Body(r) \in Bodies
  BY AtBoard DEF Write, Active, Ended
<1>2. PICK c \in {Body(r), Torn} :
          /\ tmp' = IF fd[r] = "tmp" THEN [tmp EXCEPT ![File(r)] = c] ELSE tmp
          /\ shown' = IF fd[r] = "shown" THEN [shown EXCEPT ![File(r)] = c] ELSE shown
  BY DEF Write
<1>3. c \in Contents \ {Hand} /\ c \in Contents
  BY <1>1, <1>2, PlansAssumption DEF Contents, Torn, Hand
<1>4. tmp' \in [Files -> Contents \ {Hand}] /\ shown' \in [Files -> Contents]
  BY <1>1, <1>2, <1>3 DEF TypeOK
<1>5. pc' \in [Runs -> Ended \union Busy]
  BY DEF TypeOK, Write, Busy
<1>6. ASSUME NEW s \in Runs
      PROVE  /\ Active(s)' => n'[s] \in DOMAIN boards'[s]
             /\ fd'[s] # "none" => pc'[s] \in {"write", "rename"}
             /\ pc'[s] = "remove" => victim'[s] \in Files
  BY DEF TypeOK, Write, Active, Ended
<1>7. UNCHANGED <<started, boards, n, fd, left, victim, overtaken, alone, fresh, overlapped>>
  BY DEF Write, ghostVars
<1>8. QED
  BY <1>4, <1>5, <1>6, <1>7 DEF TypeOK, Contents

LEMMA RenameTyped == ASSUME TypeOK, NEW r \in Runs, Rename(r) PROVE TypeOK'
<1>1. Active(r) /\ NextBoard(r) /\ File(r) \in Files
  BY AtBoard DEF Rename, Active, Ended
<1>2. /\ \E to \in {"look", "list", "kept"} : pc' = [pc EXCEPT ![r] = to]
      /\ n' \in [Runs -> Nat] /\ n'[r] \in 1..Len(boards[r])
      /\ \A s \in Runs \ {r} : n'[s] = n[s]
  BY <1>1, AfterBoard
<1>3. shown' \in [Files -> Contents] /\ tmp' \in [Files -> Contents \ {Hand}]
  BY <1>1 DEF TypeOK, Rename, Contents, Absent, Hand
<1>4. fd' \in [Runs -> {"none", "tmp", "shown"}]
  BY DEF TypeOK, Rename, Relinked, Unlinked
<1>5. \A s \in Runs : fd'[s] # "none" => s # r /\ fd[s] # "none"
  BY DEF TypeOK, Rename, Relinked, Unlinked
<1>6. pc' \in [Runs -> Ended \union Busy]
  BY <1>2 DEF TypeOK, Busy, Ended
<1>7. UNCHANGED <<started, boards, left, victim, overtaken, alone, fresh, overlapped>>
  BY DEF Rename, ghostVars
<1>8. ASSUME NEW s \in Runs
      PROVE  /\ Active(s)' => n'[s] \in DOMAIN boards'[s]
             /\ fd'[s] # "none" => pc'[s] \in {"write", "rename"}
             /\ pc'[s] = "remove" => victim'[s] \in Files
  <2>1. CASE s = r
    BY <2>1, <1>2, <1>5, <1>7 DEF TypeOK
  <2>2. CASE s # r
    BY <2>2, <1>2, <1>5, <1>7 DEF TypeOK, Active
  <2>3. QED
    BY <2>1, <2>2
<1>9. QED
  BY <1>2, <1>3, <1>4, <1>6, <1>7, <1>8 DEF TypeOK, Contents

LEMMA ListTyped == ASSUME TypeOK, NEW r \in Runs, List(r) PROVE TypeOK'
<1>1. left' \in [Runs -> SUBSET Files] /\ pc' \in [Runs -> Ended \union Busy]
  BY DEF TypeOK, List, Busy
<1>2. ASSUME NEW s \in Runs
      PROVE  /\ Active(s)' => n'[s] \in DOMAIN boards'[s]
             /\ fd'[s] # "none" => pc'[s] \in {"write", "rename"}
             /\ pc'[s] = "remove" => victim'[s] \in Files
  BY DEF TypeOK, List, Active, Ended
<1>3. UNCHANGED <<started, shown, tmp, boards, n, fd, victim, overtaken, alone, fresh, overlapped>>
  BY DEF List, dirVars, ghostVars
<1>4. QED
  BY <1>1, <1>2, <1>3 DEF TypeOK, Contents

LEMMA PruneLookTyped == ASSUME TypeOK, NEW r \in Runs, PruneLook(r) PROVE TypeOK'
<1>1. PICK f \in left[r] :
          /\ left' = [left EXCEPT ![r] = @ \ {f}]
          /\ overtaken' = [overtaken EXCEPT ![r] = @ \ {f}]
          /\ IF Generated(shown[f])
             THEN pc' = [pc EXCEPT ![r] = "remove"] /\ victim' = [victim EXCEPT ![r] = f]
             ELSE UNCHANGED <<pc, victim>>
  BY DEF PruneLook
<1>2. f \in Files /\ pc[r] = "prune"
  BY <1>1 DEF TypeOK, PruneLook
<1>3. left' \in [Runs -> SUBSET Files] /\ overtaken' \in [Runs -> SUBSET Files]
  BY <1>1 DEF TypeOK
<1>4. UNCHANGED <<started, shown, tmp, boards, n, fd, alone, fresh, overlapped>>
  BY DEF PruneLook, dirVars
<1>5. pc' \in [Runs -> Ended \union Busy] /\ victim' \in [Runs -> Files \union {"none"}]
  <2>1. pc \in [Runs -> Ended \union Busy] /\ victim \in [Runs -> Files \union {"none"}]
    BY DEF TypeOK
  <2>2. CASE Generated(shown[f])
    <3>1. pc' = [pc EXCEPT ![r] = "remove"] /\ victim' = [victim EXCEPT ![r] = f]
      BY <2>2, <1>1
    <3>2. QED
      BY <3>1, <2>1, <1>2 DEF Busy
  <2>3. CASE ~Generated(shown[f])
    BY <2>1, <2>3, <1>1
  <2>4. QED
    BY <2>2, <2>3
<1>6. ASSUME NEW s \in Runs
      PROVE  /\ Active(s)' => n'[s] \in DOMAIN boards'[s]
             /\ fd'[s] # "none" => pc'[s] \in {"write", "rename"}
             /\ pc'[s] = "remove" => victim'[s] \in Files
  BY <1>1, <1>2, <1>4 DEF TypeOK, Active, Ended
<1>7. QED
  BY <1>3, <1>4, <1>5, <1>6 DEF TypeOK, Contents

LEMMA PruneRemoveTyped == ASSUME TypeOK, NEW r \in Runs, PruneRemove(r) PROVE TypeOK'
<1>1. shown' \in [Files -> Contents]
  BY DEF TypeOK, PruneRemove, Contents
<1>2. fd' \in [Runs -> {"none", "tmp", "shown"}] /\ \A s \in Runs : fd'[s] # "none" => fd[s] # "none"
  BY DEF TypeOK, PruneRemove, Unlinked
<1>3. pc' \in [Runs -> Ended \union Busy] /\ victim' \in [Runs -> Files \union {"none"}]
  BY DEF TypeOK, PruneRemove, Busy
<1>4. ASSUME NEW s \in Runs
      PROVE  /\ Active(s)' => n'[s] \in DOMAIN boards'[s]
             /\ fd'[s] # "none" => pc'[s] \in {"write", "rename"}
             /\ pc'[s] = "remove" => victim'[s] \in Files
  BY <1>2 DEF TypeOK, PruneRemove, Active, Ended
<1>5. UNCHANGED <<started, tmp, boards, n, left, overtaken, alone, fresh, overlapped>>
  BY DEF PruneRemove, ghostVars
<1>6. QED
  BY <1>1, <1>2, <1>3, <1>4, <1>5 DEF TypeOK, Contents

LEMMA UserSaveTyped ==
    ASSUME TypeOK, NEW f \in UserFiles, NEW c \in {Hand, Absent}, UserSave(f, c)
    PROVE  TypeOK'
<1>1. shown' \in [Files -> Contents] /\ f \in Files
  BY PlansAssumption DEF TypeOK, UserSave, Contents
<1>2. fd' \in [Runs -> {"none", "tmp", "shown"}] /\ \A s \in Runs : fd'[s] # "none" => fd[s] # "none"
  BY DEF TypeOK, UserSave, Unlinked
<1>3. /\ overtaken' \in [Runs -> SUBSET Files]
      /\ alone' \in [Runs -> BOOLEAN] /\ fresh' \in [Runs -> BOOLEAN]
  BY <1>1 DEF TypeOK, UserSave
<1>4. UNCHANGED <<started, tmp, pc, boards, n, left, victim, overlapped>>
  BY DEF UserSave
<1>5. QED
  BY <1>1, <1>2, <1>3, <1>4 DEF TypeOK, Active, Contents

\* The actions in which a run ends or dies.
LEMMA Stops ==
    ASSUME NEW r \in Runs,
           RenameFails(r) \/ PruneFails(r) \/ Finish(r) \/ Kill(r)
    PROVE  \E how \in {"ok", "dead"} : Stop(r, how)
  BY DEF RenameFails, PruneFails, Finish, Kill

\* Whatever runs do, overlapping and dying, each has a board to write, a file open and
\* a victim where it needs one.
THEOREM TypeCorrect == Spec => []TypeOK
<1>1. Init => TypeOK
  <2> SUFFICES ASSUME Init PROVE TypeOK
    OBVIOUS
  <2>1. <<>> \in Seq(Board)
    OBVIOUS
  <2>2. boards \in [Runs -> Seq(Board)]
    BY <2>1 DEF Init
  <2>3. shown \in [Files -> Contents] /\ tmp \in [Files -> Contents \ {Hand}]
    BY DEF Init, Contents, Absent, Hand
  <2>4. started \in 0..MaxStarts
    BY PlansAssumption DEF Init
  <2>5. /\ pc \in [Runs -> Ended \union Busy] /\ n \in [Runs -> Nat]
        /\ \A r \in Runs : ~Active(r) /\ fd[r] = "none" /\ pc[r] # "remove"
    BY DEF Init, Ended, Active
  <2>6. QED
    BY <2>2, <2>3, <2>4, <2>5 DEF Init, TypeOK, Board, Contents
<1>2. TypeOK /\ [Next]_vars => TypeOK'
  <2> SUFFICES ASSUME TypeOK, [Next]_vars PROVE TypeOK'
    OBVIOUS
  <2>1. ASSUME NEW r \in Runs, RunStep(r) PROVE TypeOK'
    <3>1. CASE \E plan \in Plans : Discover(r, plan)
      BY <3>1, DiscoverTyped
    <3>2. CASE Look(r)
      BY <3>2, LookTyped
    <3>3. CASE Open(r)
      BY <3>3, OpenTyped
    <3>4. CASE Write(r)
      BY <3>4, WriteTyped
    <3>5. CASE Rename(r)
      BY <3>5, RenameTyped
    <3>6. CASE List(r)
      BY <3>6, ListTyped
    <3>7. CASE PruneLook(r)
      BY <3>7, PruneLookTyped
    <3>8. CASE PruneRemove(r)
      BY <3>8, PruneRemoveTyped
    <3>9. CASE RenameFails(r) \/ PruneFails(r) \/ Finish(r) \/ Kill(r)
      BY <3>9, Stops, StopTyped
    <3>10. QED
      BY <2>1, <3>1, <3>2, <3>3, <3>4, <3>5, <3>6, <3>7, <3>8, <3>9 DEF RunStep
  <2>2. ASSUME NEW f \in UserFiles, NEW c \in {Hand, Absent}, UserSave(f, c) PROVE TypeOK'
    BY <2>2, UserSaveTyped
  <2>3. CASE UNCHANGED vars
    BY <2>3 DEF vars, dirVars, ghostVars, TypeOK, Contents, Active
  <2>4. QED
    BY <2>1, <2>2, <2>3 DEF Next
<1>3. QED
  BY <1>1, <1>2, PTL DEF Spec
-----------------------------------------------------------------------------
(* Users' own dashboards. *)

\* A run that is about to write or delete a dashboard of a user's has had no chance to
\* see it: the user has saved it since.
Examining ==
    \A r \in Runs :
        /\ pc[r] \in {"open", "write", "rename"} /\ shown[File(r)] = Hand
              => File(r) \in overtaken[r]
        /\ pc[r] = "remove" /\ shown[victim[r]] = Hand => victim[r] \in overtaken[r]

\* What a step of one run leaves alone of another.
LEMMA Others ==
    ASSUME TypeOK, NEW r \in Runs, NEW s \in Runs, s # r, RunStep(r)
    PROVE  /\ pc'[s] = pc[s] /\ boards'[s] = boards[s] /\ n'[s] = n[s]
           /\ victim'[s] = victim[s] /\ overtaken'[s] = overtaken[s]
<1> USE DEF TypeOK
<1>1. CASE \E plan \in Plans : Discover(r, plan)
  BY <1>1 DEF Discover
<1>2. CASE Look(r)
  BY <1>2 DEF Look, Examined, NextBoard
<1>3. CASE Open(r) \/ Write(r)
  BY <1>3 DEF Open, Write, ghostVars
<1>4. CASE Rename(r)
  BY <1>4 DEF Rename, NextBoard, ghostVars
<1>5. CASE List(r)
  BY <1>5 DEF List, ghostVars
<1>6. CASE PruneLook(r)
  BY <1>6 DEF PruneLook
<1>7. CASE PruneRemove(r)
  BY <1>7 DEF PruneRemove, ghostVars
<1>8. CASE RenameFails(r) \/ PruneFails(r) \/ Finish(r) \/ Kill(r)
  <2>1. PICK how \in {"ok", "dead"} : Stop(r, how)
    BY <1>8, Stops
  <2>2. QED
    BY <2>1 DEF Stop
<1>9. QED
  BY <1>1, <1>2, <1>3, <1>4, <1>5, <1>6, <1>7, <1>8 DEF RunStep

\* Where a step of a run can change what Grafana reads, and to what.
LEMMA Changes ==
    ASSUME TypeOK, NEW r \in Runs, RunStep(r), NEW f \in Files, shown'[f] # shown[f]
    PROVE  /\ \/ pc[r] \in {"write", "rename"} /\ f = File(r)
              \/ pc[r] = "remove" /\ f = victim[r]
           /\ shown'[f] # Hand
<1> USE DEF TypeOK
<1>1. CASE \E plan \in Plans : Discover(r, plan)
  BY <1>1 DEF Discover, dirVars
<1>2. CASE Look(r)
  BY <1>2 DEF Look, Examined, dirVars
<1>3. CASE Open(r)
  BY <1>3 DEF Open
<1>4. CASE Write(r)
  <2>1. Body(r) \in Bodies
    BY <1>4, AtBoard DEF Write, Active, Ended
  <2>2. \A c \in {Body(r), Torn} : c # Hand
    BY <2>1, PlansAssumption DEF Torn, Hand
  <2>3. PICK c \in {Body(r), Torn} :
            shown' = IF fd[r] = "shown" THEN [shown EXCEPT ![File(r)] = c] ELSE shown
    BY <1>4 DEF Write
  <2>4. QED
    BY <1>4, <2>2, <2>3 DEF Write
<1>5. CASE Rename(r)
  <2>1. File(r) \in Files
    BY <1>5, AtBoard DEF Rename, Active, Ended
  <2>2. QED
    BY <1>5, <2>1 DEF Rename
<1>6. CASE List(r)
  BY <1>6 DEF List, dirVars
<1>7. CASE PruneLook(r)
  BY <1>7 DEF PruneLook, dirVars
<1>8. CASE PruneRemove(r)
  BY <1>8 DEF PruneRemove, Absent, Hand
<1>9. CASE RenameFails(r) \/ PruneFails(r) \/ Finish(r) \/ Kill(r)
  BY <1>9, Stops DEF Stop, dirVars
<1>10. QED
  BY <1>1, <1>2, <1>3, <1>4, <1>5, <1>6, <1>7, <1>8, <1>9 DEF RunStep

\* What a run has come to since it looked at its file or its victim.
LEMMA OwnStep ==
    ASSUME TypeOK, NEW r \in Runs, RunStep(r)
    PROVE  /\ pc'[r] = "open" => shown[File(r)'] # Hand
           /\ pc'[r] \in {"write", "rename"} =>
                 pc[r] \in {"open", "write"} /\ File(r)' = File(r) /\ overtaken'[r] = overtaken[r]
           /\ pc'[r] = "remove" => shown[victim'[r]] # Hand
<1> USE DEF TypeOK
<1>1. CASE \E plan \in Plans : Discover(r, plan)
  BY <1>1 DEF Discover
<1>2. CASE Look(r)
  <2>1. CASE NextBoard(r)
    BY <1>2, <2>1, AfterBoard DEF Look, Examined, Active, Ended
  <2>2. CASE ~NextBoard(r)
    BY <1>2, <2>2 DEF Look, Examined, File, Generated, Absent, Hand
  <2>3. QED
    BY <2>1, <2>2
<1>3. CASE Open(r)
  BY <1>3 DEF Open, File, ghostVars
<1>4. CASE Write(r)
  BY <1>4 DEF Write, File, ghostVars
<1>5. CASE Rename(r)
  BY <1>5, AfterBoard DEF Rename, Active, Ended
<1>6. CASE List(r)
  BY <1>6 DEF List
<1>7. CASE PruneLook(r)
  <2>1. pc[r] = "prune" /\ \E f \in left[r] :
            \/ Generated(shown[f]) /\ pc' = [pc EXCEPT ![r] = "remove"]
                                   /\ victim' = [victim EXCEPT ![r] = f]
            \/ pc' = pc
    BY <1>7 DEF PruneLook
  <2>2. QED
    BY <2>1 DEF Generated
<1>8. CASE PruneRemove(r)
  BY <1>8 DEF PruneRemove
<1>9. CASE RenameFails(r) \/ PruneFails(r) \/ Finish(r) \/ Kill(r)
  <2>1. PICK how \in {"ok", "dead"} : Stop(r, how)
    BY <1>9, Stops
  <2>2. pc'[r] \in {"ok", "dead"}
    BY <2>1 DEF Stop
  <2>3. QED
    BY <2>2
<1>10. QED
  BY <1>1, <1>2, <1>3, <1>4, <1>5, <1>6, <1>7, <1>8, <1>9 DEF RunStep

LEMMA ExaminingInductive == Spec => []Examining
<1>1. Init => Examining
  BY DEF Init, Examining
<1>2. TypeOK /\ TypeOK' /\ Examining /\ [Next]_vars => Examining'
  <2> SUFFICES ASSUME TypeOK, TypeOK', Examining, [Next]_vars, NEW s \in Runs
               PROVE  /\ pc'[s] \in {"open", "write", "rename"} /\ shown'[File(s)'] = Hand
                            => File(s)' \in overtaken'[s]
                      /\ pc'[s] = "remove" /\ shown'[victim'[s]] = Hand
                            => victim'[s] \in overtaken'[s]
    BY DEF Examining, File
  <2>1. pc'[s] \in {"open", "write", "rename"} => File(s)' \in Files
    <3>1. pc'[s] \in {"open", "write", "rename"} => Active(s)'
      BY DEF Active, Ended
    <3>2. Active(s)' => n'[s] \in DOMAIN boards'[s]
      BY DEF TypeOK, Active
    <3>3. boards'[s] \in Seq(Board)
      BY DEF TypeOK, Board
    <3>4. Active(s)' => boards'[s][n'[s]] \in Board
      BY <3>2, <3>3
    <3>5. QED
      BY <3>1, <3>4 DEF File, Board
  <2>2. pc'[s] = "remove" => victim'[s] \in Files
    BY DEF TypeOK
  <2>3. ASSUME NEW r \in Runs, RunStep(r)
        PROVE  /\ pc'[s] \in {"open", "write", "rename"} /\ shown'[File(s)'] = Hand
                     => File(s)' \in overtaken'[s]
               /\ pc'[s] = "remove" /\ shown'[victim'[s]] = Hand => victim'[s] \in overtaken'[s]
    <3>1. \A f \in Files : shown'[f] = Hand => shown[f] = Hand
      BY <2>3, Changes
    <3>2. CASE s = r
      BY <2>1, <2>2, <2>3, <3>1, <3>2, OwnStep DEF Examining
    <3>3. CASE s # r
      <4>1. File(s)' = File(s)
        BY <2>3, <3>3, Others DEF File
      <4>2. QED
        BY <2>1, <2>2, <2>3, <3>1, <3>3, <4>1, Others DEF Examining
    <3>4. QED
      BY <3>2, <3>3
  <2>4. ASSUME NEW f \in UserFiles, NEW c \in {Hand, Absent}, UserSave(f, c)
        PROVE  /\ pc'[s] \in {"open", "write", "rename"} /\ shown'[File(s)'] = Hand
                     => File(s)' \in overtaken'[s]
               /\ pc'[s] = "remove" /\ shown'[victim'[s]] = Hand => victim'[s] \in overtaken'[s]
    <3>1. pc' = pc /\ File(s)' = File(s) /\ victim' = victim
      BY <2>4 DEF UserSave, File
    <3>2. pc[s] \in {"open", "write", "rename", "remove"} =>
              overtaken'[s] = overtaken[s] \union {f}
      BY <2>4 DEF UserSave, Active, Ended
    <3>3. \A g \in Files : g # f => shown'[g] = shown[g]
      BY <2>4 DEF UserSave, TypeOK
    <3>4. QED
      BY <2>1, <2>2, <3>1, <3>2, <3>3 DEF Examining
  <2>5. CASE UNCHANGED vars
    BY <2>5 DEF vars, dirVars, ghostVars, Examining, File
  <2>6. QED
    BY <2>3, <2>4, <2>5 DEF Next
<1>3. QED
  BY <1>1, <1>2, TypeCorrect, PTL DEF Spec

\* No run ever overwrites or deletes a dashboard without the tag, however many overlap
\* and wherever they die, but for one that a user saved after the run had looked at it.
THEOREM HandMadeKept == Spec => KeepsHandMade
<1>1. TypeOK /\ Examining /\ [Next]_vars =>
          [\A r \in Runs, f \in Files :
              shown[f] = Hand /\ shown'[f] # Hand /\ f \notin overtaken[r] => ~RunStep(r)]_vars
  <2> SUFFICES ASSUME TypeOK, Examining, NEW r \in Runs, NEW f \in Files,
                      shown[f] = Hand, shown'[f] # Hand, f \notin overtaken[r], RunStep(r)
               PROVE  FALSE
    OBVIOUS
  <2>1. \/ pc[r] \in {"write", "rename"} /\ f = File(r)
        \/ pc[r] = "remove" /\ f = victim[r]
    BY Changes
  <2>2. QED
    BY <2>1 DEF Examining
<1>2. QED
  BY <1>1, ExaminingInductive, TypeCorrect, PTL DEF Spec, KeepsHandMade

-----------------------------------------------------------------------------
(* What Grafana reads. *)

\* As long as no two runs have overlapped, a run's open file is its own .tmp, empty until
\* it has written it.
Solo ==
    ~overlapped =>
        /\ \A f \in Files : shown[f] # Torn
        /\ \A r, s \in Runs : Active(r) /\ Active(s) => r = s
        /\ \A r \in Runs : /\ pc[r] \in {"write", "rename"} => fd[r] = "tmp"
                           /\ pc[r] = "write" => tmp[File(r)] = Torn
                           /\ pc[r] = "rename" => tmp[File(r)] # Torn

\* While a run is active, others are not, and have nothing open.
LEMMA Alone ==
    ASSUME TypeOK, Solo, ~overlapped, NEW r \in Runs, Active(r), NEW s \in Runs, s # r
    PROVE  ~Active(s) /\ fd[s] = "none" /\ pc[s] \notin Busy
  BY DEF TypeOK, Solo, Active, Ended, Busy

LEMMA SoloStep ==
    ASSUME TypeOK, Solo, NEW r \in Runs, RunStep(r), ~overlapped'
    PROVE  /\ \A f \in Files : shown'[f] # Torn
           /\ \A s \in Runs \ {r} : ~Active(s)'
           /\ pc'[r] \in {"write", "rename"} => fd'[r] = "tmp"
           /\ pc'[r] = "write" => tmp'[File(r)'] = Torn
           /\ pc'[r] = "rename" => tmp'[File(r)'] # Torn
<1> USE DEF TypeOK
<1>1. CASE \E plan \in Plans : Discover(r, plan)
  BY <1>1, Others DEF Discover, Solo, Active, dirVars
<1>2. Active(r) \/ \E plan \in Plans : Discover(r, plan)
  BY DEF RunStep, Look, Examined, Open, Write, Rename, RenameFails, List, PruneLook,
         PruneRemove, PruneFails, Finish, Kill, Active, Ended
<1>3. ~overlapped \/ \E plan \in Plans : Discover(r, plan)
  BY DEF RunStep, Look, Examined, Open, Write, Rename, RenameFails, List, PruneLook,
         PruneRemove, PruneFails, Finish, Kill, Stop, ghostVars
<1>4. ASSUME Active(r), ~overlapped
      PROVE  \A s \in Runs \ {r} : ~Active(s)' /\ fd[s] = "none"
  BY <1>4, Alone, Others DEF Active
<1>5. CASE Look(r)
  <2>1. pc'[r] \notin {"write", "rename"}
    BY <1>5, AfterBoard DEF Look, Examined, Active, Ended
  <2>2. QED
    BY <1>3, <1>4, <1>5, <2>1 DEF Look, Examined, Solo, dirVars, Active, Ended
<1>6. CASE Open(r)
  <2>1. File(r) \in Files /\ File(r)' = File(r)
    BY <1>6, AtBoard DEF Open, Active, Ended, File
  <2>2. QED
    BY <1>4, <1>6, <2>1 DEF Open, Solo, Active, Ended, ghostVars
<1>7. CASE Write(r)
  <2>1. Active(r) /\ ~overlapped /\ fd[r] = "tmp" /\ pc[r] = "write"
    BY <1>7 DEF Write, Solo, Active, Ended, ghostVars
  <2>2. ~Sharing(r)
    BY <2>1, <1>4 DEF Sharing, Solo
  <2>3. tmp' = [tmp EXCEPT ![File(r)] = Body(r)] /\ shown' = shown
    BY <1>7, <2>1, <2>2 DEF Write
  <2>4. File(r) \in Files /\ Body(r) # Torn /\ File(r)' = File(r)
    BY <2>1, <1>7, AtBoard, PlansAssumption DEF Write, File
  <2>5. QED
    BY <1>4, <1>7, <2>1, <2>3, <2>4 DEF Write, Solo
<1>8. CASE Rename(r)
  <2>1. Active(r) /\ ~overlapped /\ pc[r] = "rename" /\ tmp[File(r)] # Torn
    BY <1>8 DEF Rename, Solo, Active, Ended, ghostVars
  <2>2. pc'[r] \notin {"write", "rename"}
    BY <1>8, <2>1, AfterBoard DEF Rename
  <2>3. QED
    BY <1>4, <1>8, <2>1, <2>2 DEF Rename, Solo
<1>9. CASE List(r)
  BY <1>4, <1>9 DEF List, Solo, Active, Ended, dirVars, ghostVars
<1>10. CASE PruneLook(r)
  <2>1. pc[r] = "prune" /\ pc'[r] \in {"prune", "remove"} /\ UNCHANGED <<shown, overlapped>>
    BY <1>10 DEF PruneLook, dirVars
  <2>2. QED
    BY <1>4, <2>1 DEF Solo, Active, Ended
<1>11. CASE PruneRemove(r)
  BY <1>4, <1>11 DEF PruneRemove, Solo, Active, Ended, ghostVars, Absent, Torn
<1>12. CASE RenameFails(r) \/ PruneFails(r) \/ Finish(r) \/ Kill(r)
  <2>1. PICK how \in {"ok", "dead"} : Stop(r, how)
    BY <1>12, Stops
  <2>2. Active(r)
    BY <1>12 DEF RenameFails, PruneFails, Finish, Kill, Active, Ended
  <2>3. QED
    BY <1>4, <2>1, <2>2 DEF Stop, Solo, dirVars
<1>13. QED
  BY <1>1, <1>5, <1>6, <1>7, <1>8, <1>9, <1>10, <1>11, <1>12 DEF RunStep

LEMMA SoloInductive == Spec => []Solo
<1>1. Init => Solo
  BY DEF Init, Solo, Active, Ended, Absent, Torn
<1>2. TypeOK /\ Solo /\ [Next]_vars => Solo'
  <2> SUFFICES ASSUME TypeOK, Solo, [Next]_vars, ~overlapped'
               PROVE  /\ \A f \in Files : shown'[f] # Torn
                      /\ \A r, s \in Runs : Active(r)' /\ Active(s)' => r = s
                      /\ \A r \in Runs : /\ pc'[r] \in {"write", "rename"} => fd'[r] = "tmp"
                                         /\ pc'[r] = "write" => tmp'[File(r)'] = Torn
                                         /\ pc'[r] = "rename" => tmp'[File(r)'] # Torn
    BY DEF Solo, Active, File
  <2>1. CASE \E r \in Runs : RunStep(r)
    <3>1. PICK r \in Runs : RunStep(r)
      BY <2>1
    <3>2. \A s \in Runs \ {r} : pc'[s] \notin {"write", "rename"}
      BY <3>1, SoloStep DEF Active, Ended
    <3>3. QED
      BY <3>1, <3>2, SoloStep
  <2>2. CASE \E f \in UserFiles, c \in {Hand, Absent} : UserSave(f, c)
    BY <2>2 DEF UserSave, Unlinked, TypeOK, Solo, Active, File, Hand, Absent, Torn
  <2>3. CASE UNCHANGED vars
    BY <2>3 DEF vars, dirVars, ghostVars, Solo, Active, File
  <2>4. QED
    BY <2>1, <2>2, <2>3 DEF Next
<1>3. QED
  BY <1>1, <1>2, TypeCorrect, PTL DEF Spec

\* As long as no two runs overlap, no dashboard that Grafana reads is ever half written,
\* wherever runs are killed and whatever they leave behind.
THEOREM WholeDashboards == Spec => []GrafanaSeesWhole
<1>1. Solo => GrafanaSeesWhole
  BY DEF Solo, GrafanaSeesWhole
<1>2. QED
  BY <1>1, SoloInductive, PTL

-----------------------------------------------------------------------------
(* What a run that ends undisturbed leaves. *)

LEMMA LeastIn ==
    ASSUME NEW S, S \subseteq Nat, S # {}
    PROVE  \E x \in S : \A y \in S : x <= y
<1>1. IsWellFoundedOn(OpToRel(<, Nat), Nat)
  BY NatLessThanWellFounded
<1>2. PICK x \in S : \A y \in S : ~(<<y, x>> \in OpToRel(<, Nat))
  BY <1>1, WFMin
<1>3. ASSUME NEW y \in S PROVE x <= y
  <2>1. x \in Nat /\ y \in Nat
    OBVIOUS
  <2>2. ~(y < x)
    BY <1>2, <2>1 DEF OpToRel
  <2>3. QED
    BY <2>1, <2>2
<1>4. QED
  BY <1>3

LEMMA GreatestIn ==
    ASSUME NEW m \in Nat, NEW S, S \subseteq 1..m, S # {}
    PROVE  Max(S) \in S /\ \A i \in S : i <= Max(S)
<1> DEFINE below == {m - i : i \in S}
<1>1. below \subseteq Nat /\ below # {}
  <2>1. ASSUME NEW i \in S PROVE m - i \in Nat
    OBVIOUS
  <2>2. PICK i \in S : TRUE
    OBVIOUS
  <2>3. QED
    BY <2>1, <2>2
<1>2. PICK d \in below : \A e \in below : d <= e
  BY <1>1, LeastIn
<1>3. PICK g \in S : d = m - g
  OBVIOUS
<1>4. ASSUME NEW i \in S PROVE g >= i
  <2>1. m - g <= m - i
    BY <1>2, <1>3
  <2>2. QED
    BY <2>1
<1>5. QED
  BY <1>3, <1>4 DEF Max

\* Of the first k boards, each file's last is what the directory has, users' files apart.
WrittenSoFar(dir, plan, k) ==
    \A i \in 1..k :
        (\A j \in (i + 1)..k : plan[j].file # plan[i].file)
            => dir[plan[i].file] \in {Hand, plan[i].body}

\* How far a run has come with its boards, and what it then has yet to delete.
Progress(r) ==
    /\ pc[r] \in {"look", "open", "write", "rename"} => WrittenSoFar(shown, boards[r], n[r] - 1)
    /\ pc[r] \in {"list", "prune", "remove", "kept", "ok"}
          => WrittenSoFar(shown, boards[r], Len(boards[r]))
    /\ pc[r] = "rename" => tmp[File(r)] = Body(r)
    /\ pc[r] \in {"prune", "remove", "ok"} => \A f \in Files \ FilesOf(boards[r]) :
          Generated(shown[f]) => \/ pc[r] # "ok" /\ f \in left[r]
                                 \/ pc[r] = "remove" /\ f = victim[r]
    /\ pc[r] \in {"prune", "remove"} => left[r] \intersect FilesOf(boards[r]) = {}
    /\ pc[r] = "remove" => victim[r] \notin FilesOf(boards[r])

Resting(r) == \A s \in Runs \ {r} : ~Active(s)

Undisturbed == \A r \in Runs : alone[r] /\ ~overlapped => Resting(r) /\ Progress(r)

LEMMA NextWritten ==
    ASSUME NEW dir, NEW to, NEW plan, NEW k \in Nat \ {0},
           WrittenSoFar(dir, plan, k - 1),
           to[plan[k].file] \in {Hand, plan[k].body},
           \A i \in 1..k : plan[i].file # plan[k].file => to[plan[i].file] = dir[plan[i].file]
    PROVE  WrittenSoFar(to, plan, k)
<1> SUFFICES ASSUME NEW i \in 1..k, \A j \in (i + 1)..k : plan[j].file # plan[i].file
             PROVE  to[plan[i].file] \in {Hand, plan[i].body}
  BY DEF WrittenSoFar
<1>1. CASE i = k
  BY <1>1
<1>2. CASE i # k
  <2>1. k \in (i + 1)..k /\ i \in 1..(k - 1)
    BY <1>2
  <2>2. plan[k].file # plan[i].file /\ to[plan[i].file] = dir[plan[i].file]
    BY <2>1
  <2>3. \A j \in (i + 1)..(k - 1) : plan[j].file # plan[i].file
    OBVIOUS
  <2>4. QED
    BY <2>1, <2>2, <2>3 DEF WrittenSoFar
<1>3. QED
  BY <1>1, <1>2

\* The step that takes a run past a board, from a directory that has it.
LEMMA PastBoard ==
    ASSUME TypeOK, TypeOK', NEW r \in Runs, Active(r), NextBoard(r), boards' = boards,
           WrittenSoFar(shown, boards[r], n[r] - 1),
           shown'[File(r)] \in {Hand, Body(r)},
           \A f \in Files : f # File(r) => shown'[f] = shown[f]
    PROVE  Progress(r)'
<1>1. n[r] \in 1..Len(boards[r]) /\ Len(boards[r]) \in Nat /\ n \in [Runs -> Nat]
  BY AtBoard DEF TypeOK
<1>2. \A i \in 1..n[r] : boards[r][i].file \in Files
  <2>1. boards[r] \in Seq(Board)
    BY DEF TypeOK, Board
  <2>2. \A i \in 1..n[r] : boards[r][i] \in Board
    BY <1>1, <2>1
  <2>3. QED
    BY <2>2 DEF Board
<1>3. WrittenSoFar(shown', boards[r], n[r])
  <2>1. n[r] \in Nat \ {0} /\ shown'[boards[r][n[r]].file] \in {Hand, boards[r][n[r]].body}
    BY <1>1 DEF File, Body
  <2>2. \A i \in 1..n[r] : boards[r][i].file # boards[r][n[r]].file =>
            shown'[boards[r][i].file] = shown[boards[r][i].file]
    BY <1>2 DEF File
  <2>3. QED
    BY <2>1, <2>2, NextWritten
<1>4. CASE n[r] < Len(boards[r])
  <2>1. pc'[r] = "look" /\ n'[r] = n[r] + 1
    BY <1>1, <1>4 DEF NextBoard, TypeOK
  <2>2. n'[r] - 1 = n[r]
    BY <1>1, <2>1
  <2>3. QED
    BY <1>3, <2>1, <2>2 DEF Progress
<1>5. CASE ~(n[r] < Len(boards[r]))
  <2>1. pc'[r] \in {"list", "kept"} /\ n[r] = Len(boards[r])
    BY <1>1, <1>5 DEF NextBoard, TypeOK
  <2>2. QED
    BY <1>3, <2>1 DEF Progress
<1>6. QED
  BY <1>4, <1>5

LEMMA LookProgress ==
    ASSUME TypeOK, TypeOK', Solo, ~overlapped, NEW r \in Runs, Progress(r), Look(r)
    PROVE  Progress(r)'
<1>1. /\ pc[r] = "look" /\ Active(r) /\ boards' = boards /\ shown' = shown
      /\ WrittenSoFar(shown, boards[r], n[r] - 1)
  BY DEF Look, Examined, Active, Ended, Progress, dirVars
<1>2. CASE shown[File(r)] = Absent \/ (Generated(shown[File(r)]) /\ shown[File(r)] # Body(r))
  <2>1. pc'[r] = "open" /\ n' = n
    BY <1>2 DEF Look, Examined, TypeOK
  <2>2. QED
    BY <1>1, <2>1 DEF Progress
<1>3. CASE ~(shown[File(r)] = Absent \/ (Generated(shown[File(r)]) /\ shown[File(r)] # Body(r)))
  <2>1. NextBoard(r)
    BY <1>3 DEF Look, Examined
  <2>2. File(r) \in Files /\ shown[File(r)] # Torn
    BY <1>1, AtBoard DEF Solo
  <2>3. shown'[File(r)] \in {Hand, Body(r)}
    BY <1>1, <1>3, <2>2 DEF Generated
  <2>4. QED
    BY <1>1, <2>1, <2>3, PastBoard
<1>4. QED
  BY <1>2, <1>3

LEMMA OpenProgress ==
    ASSUME TypeOK, NEW r \in Runs, Progress(r), Open(r)
    PROVE  Progress(r)'
<1>1. pc[r] = "open" /\ pc'[r] = "write" /\ UNCHANGED <<shown, boards, n>>
  BY DEF Open, TypeOK
<1>2. QED
  BY <1>1 DEF Progress

LEMMA WriteProgress ==
    ASSUME TypeOK, Solo, ~overlapped, NEW r \in Runs, Resting(r), Progress(r), Write(r)
    PROVE  Progress(r)'
<1>1. pc[r] = "write" /\ pc'[r] = "rename" /\ UNCHANGED <<boards, n>> /\ Active(r)
  BY DEF Write, TypeOK, Active, Ended
<1>2. fd[r] = "tmp" /\ ~Sharing(r)
  BY <1>1 DEF Solo, Resting, Sharing, TypeOK, Active, Ended
<1>3. tmp' = [tmp EXCEPT ![File(r)] = Body(r)] /\ shown' = shown
  BY <1>2 DEF Write
<1>4. File(r) \in Files /\ File(r)' = File(r) /\ Body(r)' = Body(r)
  BY <1>1, AtBoard DEF File, Body
<1>5. tmp'[File(r)'] = Body(r)'
  BY <1>3, <1>4 DEF TypeOK
<1>6. QED
  BY <1>1, <1>3, <1>5 DEF Progress

LEMMA RenameProgress ==
    ASSUME TypeOK, TypeOK', NEW r \in Runs, Progress(r), Rename(r)
    PROVE  Progress(r)'
<1>1. /\ pc[r] = "rename" /\ Active(r) /\ NextBoard(r) /\ boards' = boards
      /\ shown' = [shown EXCEPT ![File(r)] = tmp[File(r)]]
  BY DEF Rename, Active, Ended
<1>2. File(r) \in Files /\ tmp[File(r)] = Body(r)
  BY <1>1, AtBoard DEF Progress
<1>3. WrittenSoFar(shown, boards[r], n[r] - 1)
  BY <1>1 DEF Progress
<1>4. shown'[File(r)] \in {Hand, Body(r)} /\ \A f \in Files : f # File(r) => shown'[f] = shown[f]
  BY <1>1, <1>2 DEF TypeOK
<1>5. QED
  BY <1>1, <1>3, <1>4, PastBoard

LEMMA ListProgress ==
    ASSUME TypeOK, NEW r \in Runs, Progress(r), List(r)
    PROVE  Progress(r)'
<1>1. /\ pc[r] = "list" /\ pc'[r] = "prune" /\ UNCHANGED <<shown, boards>>
      /\ left'[r] = {f \in Files \ FilesOf(boards[r]) : shown[f] # Absent}
  BY DEF List, TypeOK, dirVars
<1>2. \A f \in Files \ FilesOf(boards[r]) : Generated(shown[f]) => f \in left'[r]
  BY <1>1 DEF Generated
<1>3. QED
  BY <1>1, <1>2 DEF Progress, Generated

LEMMA PruneLookProgress ==
    ASSUME TypeOK, NEW r \in Runs, Progress(r), PruneLook(r)
    PROVE  Progress(r)'
<1>1. PICK f \in left[r] :
          /\ left' = [left EXCEPT ![r] = @ \ {f}]
          /\ IF Generated(shown[f])
             THEN pc' = [pc EXCEPT ![r] = "remove"] /\ victim' = [victim EXCEPT ![r] = f]
             ELSE UNCHANGED <<pc, victim>>
  BY DEF PruneLook
<1>2. pc[r] = "prune" /\ UNCHANGED <<shown, boards>> /\ left'[r] = left[r] \ {f}
  BY <1>1 DEF PruneLook, TypeOK, dirVars
<1>3. CASE Generated(shown[f])
  <2>1. pc'[r] = "remove" /\ victim'[r] = f
    BY <1>1, <1>3 DEF TypeOK
  <2>2. QED
    BY <1>2, <2>1 DEF Progress, Generated
<1>4. CASE ~Generated(shown[f])
  <2>1. pc'[r] = "prune"
    BY <1>1, <1>2, <1>4
  <2>2. QED
    BY <1>2, <1>4, <2>1 DEF Progress, Generated
<1>5. QED
  BY <1>3, <1>4

\* Deleting what is not among its boards leaves a run's boards as they are.
LEMMA PruneRemoveProgress ==
    ASSUME TypeOK, NEW r \in Runs, Progress(r), PruneRemove(r)
    PROVE  Progress(r)'
<1>1. /\ pc[r] = "remove" /\ pc'[r] = "prune" /\ UNCHANGED <<boards, left>>
      /\ shown' = [shown EXCEPT ![victim[r]] = Absent]
  BY DEF PruneRemove, TypeOK
<1>2. victim[r] \in Files \ FilesOf(boards[r])
  BY <1>1 DEF Progress, TypeOK
<1>3. \A f \in Files : shown'[f] = IF f = victim[r] THEN Absent ELSE shown[f]
  BY <1>1 DEF TypeOK
<1>4. WrittenSoFar(shown', boards[r], Len(boards[r]))
  <2>1. WrittenSoFar(shown, boards[r], Len(boards[r])) /\ boards[r] \in Seq(Board)
    BY <1>1 DEF Progress, TypeOK, Board
  <2>2. \A i \in 1..Len(boards[r]) : boards[r][i].file \in Files \ {victim[r]}
    <3>1. DOMAIN boards[r] = 1..Len(boards[r]) /\ \A i \in 1..Len(boards[r]) : boards[r][i] \in Board
      BY <2>1
    <3>2. QED
      BY <1>2, <3>1 DEF FilesOf, Board
  <2>3. \A i \in 1..Len(boards[r]) : shown'[boards[r][i].file] = shown[boards[r][i].file]
    BY <1>3, <2>2
  <2>4. QED
    BY <2>1, <2>3 DEF WrittenSoFar
<1>5. \A f \in Files \ FilesOf(boards[r]) : Generated(shown'[f]) => f \in left[r]
  <2>1. ~Generated(Absent)
    BY DEF Generated
  <2>2. QED
    BY <1>1, <1>3, <2>1 DEF Progress
<1>6. QED
  BY <1>1, <1>4, <1>5 DEF Progress, Generated

LEMMA StopProgress ==
    ASSUME TypeOK, NEW r \in Runs, Progress(r),
           RenameFails(r) \/ PruneFails(r) \/ Finish(r) \/ Kill(r)
    PROVE  Progress(r)'
<1>1. CASE Finish(r)
  <2>1. pc[r] = "prune" /\ left[r] = {} /\ Stop(r, "ok")
    BY <1>1 DEF Finish
  <2>2. pc'[r] = "ok" /\ boards'[r] = boards[r] /\ shown' = shown
    BY <2>1 DEF Stop, TypeOK, dirVars
  <2>3. QED
    BY <2>1, <2>2 DEF Progress, Generated
<1>2. CASE RenameFails(r) \/ PruneFails(r) \/ Kill(r)
  <2>1. pc'[r] = "dead"
    BY <1>2 DEF RenameFails, PruneFails, Kill, Stop, TypeOK
  <2>2. QED
    BY <2>1 DEF Progress
<1>3. QED
  BY <1>1, <1>2

LEMMA DiscoverProgress ==
    ASSUME TypeOK, NEW r \in Runs, NEW plan \in Plans, Discover(r, plan)
    PROVE  Progress(r)'
<1>1. pc'[r] = "look" /\ n'[r] = 1
  BY DEF Discover, TypeOK
<1>2. WrittenSoFar(shown', boards'[r], n'[r] - 1)
  BY <1>1 DEF WrittenSoFar
<1>3. QED
  BY <1>1, <1>2 DEF Progress

\* Which run an undisturbed one is after a step: the one that took it.
LEMMA WhoActs ==
    ASSUME TypeOK, Undisturbed, NEW r \in Runs, alone'[r], ~overlapped',
           NEW s \in Runs, RunStep(s)
    PROVE  /\ s = r /\ Resting(r)
           /\ (\E plan \in Plans : Discover(r, plan)) \/ (alone[r] /\ ~overlapped)
<1>1. CASE \E plan \in Plans : Discover(s, plan)
  <2>1. PICK plan \in Plans : Discover(s, plan)
    BY <1>1
  <2>2. alone' = [q \in Runs |-> q = s /\ {p \in Runs \ {s} : Active(p)} = {}]
    BY <2>1 DEF Discover
  <2>3. r = s /\ {p \in Runs \ {s} : Active(p)} = {}
    BY <2>2
  <2>4. QED
    BY <2>1, <2>3 DEF Resting
<1>2. CASE ~\E plan \in Plans : Discover(s, plan)
  <2>1. alone' = alone /\ overlapped' = overlapped /\ Active(s)
    BY <1>2 DEF RunStep, Look, Examined, Open, Write, Rename, RenameFails, List, PruneLook,
                PruneRemove, PruneFails, Finish, Kill, Stop, Active, Ended, ghostVars
  <2>2. Resting(r)
    BY <2>1 DEF Undisturbed
  <2>3. s = r
    BY <2>1, <2>2 DEF Resting
  <2>4. QED
    BY <2>1, <2>2, <2>3
<1>3. QED
  BY <1>1, <1>2

LEMMA UndisturbedInductive == Spec => []Undisturbed
<1>1. Init => Undisturbed
  BY DEF Init, Undisturbed
<1>2. TypeOK /\ TypeOK' /\ Solo /\ Undisturbed /\ [Next]_vars => Undisturbed'
  <2> SUFFICES ASSUME TypeOK, TypeOK', Solo, Undisturbed, [Next]_vars,
                      NEW r \in Runs, alone'[r], ~overlapped'
               PROVE  Resting(r)' /\ Progress(r)'
    BY DEF Undisturbed
  <2>1. CASE \E s \in Runs : RunStep(s)
    <3>1. RunStep(r) /\ Resting(r)
      BY <2>1, WhoActs
    <3>2. Resting(r)'
      BY <3>1, Others DEF Resting, Active
    <3>3. CASE \E plan \in Plans : Discover(r, plan)
      BY <3>2, <3>3, DiscoverProgress
    <3>4. CASE ~\E plan \in Plans : Discover(r, plan)
      <4>1. alone[r] /\ ~overlapped /\ Progress(r)
        BY <2>1, <3>4, WhoActs DEF Undisturbed
      <4>2. QED
        BY <3>1, <3>2, <3>4, <4>1, LookProgress, OpenProgress, WriteProgress, RenameProgress,
           ListProgress, PruneLookProgress, PruneRemoveProgress, StopProgress DEF RunStep
    <3>5. QED
      BY <3>3, <3>4
  <2>2. CASE \E f \in UserFiles, c \in {Hand, Absent} : UserSave(f, c)
    BY <2>2 DEF UserSave
  <2>3. CASE UNCHANGED vars
    BY <2>3 DEF vars, dirVars, ghostVars, Undisturbed, Resting, Progress, Active, File, Body,
                Generated
  <2>4. QED
    BY <2>1, <2>2, <2>3 DEF Next
<1>3. QED
  BY <1>1, <1>2, TypeCorrect, SoloInductive, PTL DEF Spec

\* The last board for a file, and what is left there once all have been written.
LEMMA LastBoard ==
    ASSUME NEW plan \in Seq(Board), NEW f \in FilesOf(plan)
    PROVE  \E m \in DOMAIN plan :
              /\ plan[m].file = f /\ Final(plan, f) = plan[m].body
              /\ \A j \in (m + 1)..Len(plan) : plan[j].file # f
<1> DEFINE at == {i \in DOMAIN plan : plan[i].file = f}
<1>1. Len(plan) \in Nat /\ at \subseteq 1..Len(plan) /\ at # {}
  BY DEF FilesOf
<1>2. Max(at) \in at /\ \A i \in at : i <= Max(at)
  <2> HIDE DEF at
  <2>1. QED
    BY <1>1, GreatestIn
<1>3. ASSUME NEW j \in (Max(at) + 1)..Len(plan) PROVE plan[j].file # f
  <2>1. j \in DOMAIN plan /\ ~(j <= Max(at))
    BY <1>1, <1>2
  <2>2. QED
    BY <1>2, <2>1
<1>4. Final(plan, f) = plan[Max(at)].body
  BY DEF Final
<1>5. QED
  BY <1>2, <1>3, <1>4

LEMMA AllWritten ==
    ASSUME NEW plan \in Seq(Board), WrittenSoFar(shown, plan, Len(plan))
    PROVE  Written(plan)
<1> SUFFICES ASSUME NEW f \in FilesOf(plan) PROVE shown[f] \in {Hand, Final(plan, f)}
  BY DEF Written
<1>1. PICK m \in DOMAIN plan : /\ plan[m].file = f /\ Final(plan, f) = plan[m].body
                               /\ \A j \in (m + 1)..Len(plan) : plan[j].file # f
  BY LastBoard
<1>2. m \in 1..Len(plan)
  BY <1>1
<1>3. QED
  BY <1>1, <1>2 DEF WrittenSoFar

\* A run that nobody disturbs and that ends well leaves every file as the last of its
\* boards has it, users' files apart, and no other generated one; whatever runs there
\* were before, overlapping none, and wherever they died.
THEOREM DoneIsCurrent == Spec => []DoneMeansCurrent
<1>1. TypeOK /\ Undisturbed => DoneMeansCurrent
  <2> SUFFICES ASSUME TypeOK, Undisturbed, NEW r \in Runs, alone[r], ~overlapped
               PROVE  /\ pc[r] \in {"ok", "kept"} => Written(boards[r])
                      /\ pc[r] = "ok" => Pruned(boards[r])
    BY DEF DoneMeansCurrent
  <2>1. Progress(r) /\ boards[r] \in Seq(Board)
    BY DEF Undisturbed, TypeOK, Board
  <2>2. ASSUME pc[r] \in {"ok", "kept"} PROVE Written(boards[r])
    BY <2>1, <2>2, AllWritten DEF Progress
  <2>3. ASSUME pc[r] = "ok" PROVE Pruned(boards[r])
    BY <2>1, <2>3 DEF Progress, Pruned
  <2>4. QED
    BY <2>2, <2>3
<1>2. QED
  BY <1>1, TypeCorrect, UndisturbedInductive, PTL

-----------------------------------------------------------------------------
(* A run that has nothing to do. *)

\* While a run that found all as it should be is at work, it stays so.
Distinct(plan) == Cardinality(FilesOf(plan)) = Len(plan)

Idle(r) ==
    /\ Resting(r)
    /\ Active(r) /\ Distinct(boards[r]) =>
          /\ Written(boards[r]) /\ Pruned(boards[r])
          /\ pc[r] \in {"look", "list", "prune"}
          /\ pc[r] = "prune" => left[r] \subseteq Files \ FilesOf(boards[r])

Quiet == \A r \in Runs : fresh[r] => Idle(r)

\* Where there are as many files as boards, no two boards are for one file.
LEMMA OneEach ==
    ASSUME NEW plan \in Seq(Board), Distinct(plan), NEW i \in DOMAIN plan
    PROVE  Final(plan, plan[i].file) = plan[i].body
<1> DEFINE fileAt == [j \in 1..Len(plan) |-> plan[j].file]
<1>1. Len(plan) \in Nat /\ DOMAIN plan = 1..Len(plan)
  OBVIOUS
<1>2. IsFiniteSet(1..Len(plan)) /\ Cardinality(1..Len(plan)) = Len(plan)
  <2>1. 1 \in Int /\ Len(plan) \in Int
    BY <1>1
  <2>2. /\ IsFiniteSet(1..Len(plan))
        /\ Cardinality(1..Len(plan)) = IF 1 > Len(plan) THEN 0 ELSE Len(plan) - 1 + 1
    BY <2>1, FS_Interval, Zenon
  <2>3. (IF 1 > Len(plan) THEN 0 ELSE Len(plan) - 1 + 1) = Len(plan)
    BY <1>1
  <2>4. QED
    BY <2>2, <2>3
<1>3. fileAt \in Surjection(1..Len(plan), FilesOf(plan))
  BY <1>1 DEF Surjection, FilesOf
<1>4. fileAt \in Injection(1..Len(plan), FilesOf(plan))
  BY <1>2, <1>3, FS_Surjection DEF Distinct
<1>5. \A j, k \in 1..Len(plan) : plan[j].file = plan[k].file => j = k
  BY <1>4 DEF Injection, IsInjective
<1>6. plan[i].file \in FilesOf(plan)
  BY DEF FilesOf
<1>7. PICK m \in DOMAIN plan : plan[m].file = plan[i].file /\ Final(plan, plan[i].file) = plan[m].body
  BY <1>6, LastBoard
<1>8. QED
  BY <1>1, <1>5, <1>7

\* An idle run's steps leave the directory alone, and it stays idle.
LEMMA IdleStep ==
    ASSUME TypeOK, NEW r \in Runs, Active(r), Distinct(boards[r]), Idle(r), RunStep(r)
    PROVE  /\ shown' = shown
           /\ Active(r)' => /\ boards'[r] = boards[r] /\ pc'[r] \in {"look", "list", "prune"}
                            /\ pc'[r] = "prune" => left'[r] \subseteq Files \ FilesOf(boards[r])
<1>1. Written(boards[r]) /\ Pruned(boards[r]) /\ pc[r] \in {"look", "list", "prune"}
  BY DEF Idle
<1>2. ~\E plan \in Plans : Discover(r, plan)
  BY DEF Discover
<1>3. CASE Look(r)
  <2>1. n[r] \in DOMAIN boards[r] /\ boards[r] \in Seq(Board)
    BY DEF TypeOK, Board
  <2>2. shown[File(r)] \in {Hand, Body(r)}
    <3>1. File(r) \in FilesOf(boards[r]) /\ Final(boards[r], File(r)) = Body(r)
      BY <2>1, OneEach DEF File, Body, FilesOf
    <3>2. QED
      BY <1>1, <3>1 DEF Written
  <2>3. Body(r) # Absent /\ Hand # Absent
    BY AtBoard, PlansAssumption DEF Hand, Absent
  <2>4. NextBoard(r) /\ shown' = shown /\ boards' = boards
    BY <1>3, <2>2, <2>3 DEF Look, Examined, Generated, dirVars
  <2>5. pc'[r] \in {"look", "list", "kept"}
    BY <2>4, AfterBoard DEF TypeOK
  <2>6. QED
    BY <2>4, <2>5 DEF Active, Ended
<1>4. CASE List(r)
  BY <1>4 DEF List, TypeOK, dirVars
<1>5. CASE PruneLook(r)
  <2>1. PICK f \in left[r] :
            /\ left' = [left EXCEPT ![r] = @ \ {f}]
            /\ IF Generated(shown[f])
               THEN pc' = [pc EXCEPT ![r] = "remove"] /\ victim' = [victim EXCEPT ![r] = f]
               ELSE UNCHANGED <<pc, victim>>
    BY <1>5 DEF PruneLook
  <2>2. pc[r] = "prune" /\ UNCHANGED <<shown, boards>> /\ left'[r] = left[r] \ {f}
    BY <1>5, <2>1 DEF PruneLook, TypeOK, dirVars
  <2>3. left[r] \subseteq Files \ FilesOf(boards[r])
    BY <2>2 DEF Idle
  <2>4. ~Generated(shown[f])
    BY <1>1, <2>3 DEF Pruned
  <2>5. QED
    BY <2>1, <2>2, <2>3, <2>4
<1>6. CASE RenameFails(r) \/ PruneFails(r) \/ Finish(r) \/ Kill(r)
  <2>1. PICK how \in {"ok", "dead"} : Stop(r, how)
    BY <1>6, Stops
  <2>2. QED
    BY <2>1 DEF Stop, TypeOK, Active, Ended, dirVars
<1>7. ~(Open(r) \/ Write(r) \/ Rename(r) \/ PruneRemove(r))
  BY <1>1 DEF Open, Write, Rename, PruneRemove
<1>8. QED
  BY <1>2, <1>3, <1>4, <1>5, <1>6, <1>7 DEF RunStep

\* A run that starts alone and finds all as it should be.
LEMMA DiscoverIdle ==
    ASSUME TypeOK, NEW r \in Runs, NEW plan \in Plans, Discover(r, plan), fresh'[r]
    PROVE  /\ shown' = shown /\ boards'[r] = plan /\ pc'[r] = "look"
           /\ Written(plan) /\ Pruned(plan)
  BY DEF Discover, TypeOK, dirVars

LEMMA QuietInductive == Spec => []Quiet
<1>1. Init => Quiet
  BY DEF Init, Quiet
<1>2. TypeOK /\ Quiet /\ [Next]_vars => Quiet'
  <2> SUFFICES ASSUME TypeOK, Quiet, [Next]_vars, NEW r \in Runs, fresh'[r]
               PROVE  Idle(r)'
    BY DEF Quiet
  <2>1. ASSUME NEW s \in Runs, RunStep(s) PROVE Idle(r)'
    <3>1. CASE \E plan \in Plans : Discover(s, plan)
      <4>1. PICK plan \in Plans : Discover(s, plan)
        BY <3>1
      <4>2. r = s /\ {p \in Runs \ {s} : Active(p)} = {}
        BY <4>1 DEF Discover
      <4>3. Resting(r)'
        BY <2>1, <4>2, Others DEF Resting, Active
      <4>4. shown' = shown /\ boards'[r] = plan /\ pc'[r] = "look" /\ Written(plan) /\ Pruned(plan)
        BY <4>1, <4>2, DiscoverIdle
      <4>5. QED
        BY <4>3, <4>4 DEF Idle, Written, Pruned
    <3>2. CASE ~\E plan \in Plans : Discover(s, plan)
      <4>1. fresh' = fresh /\ Active(s)
        BY <2>1, <3>2 DEF RunStep, Look, Examined, Open, Write, Rename, RenameFails, List,
                PruneLook, PruneRemove, PruneFails, Finish, Kill, Stop, Active, Ended, ghostVars
      <4>2. Idle(r) /\ s = r
        BY <4>1 DEF Quiet, Idle, Resting
      <4>3. Resting(r)'
        BY <2>1, <4>2, Others DEF Idle, Resting, Active
      <4>4. ASSUME Active(r)', Distinct(boards'[r])
            PROVE  /\ Written(boards[r])' /\ Pruned(boards[r])'
                   /\ pc'[r] \in {"look", "list", "prune"}
                   /\ pc'[r] = "prune" => left'[r] \subseteq Files \ FilesOf(boards'[r])
        <5>1. boards'[r] = boards[r]
          BY <2>1, <3>2, <4>1, <4>2, <4>4 DEF RunStep, Look, Examined, Open, Write, Rename,
             RenameFails, List, PruneLook, PruneRemove, PruneFails, Finish, Kill, Stop, TypeOK,
             Active, Ended, ghostVars, dirVars
        <5>2. shown' = shown /\ pc'[r] \in {"look", "list", "prune"}
              /\ (pc'[r] = "prune" => left'[r] \subseteq Files \ FilesOf(boards[r]))
          BY <2>1, <4>1, <4>2, <4>4, <5>1, IdleStep
        <5>3. Written(boards[r]) /\ Pruned(boards[r])
          BY <4>1, <4>2, <4>4, <5>1 DEF Idle
        <5>4. QED
          BY <5>1, <5>2, <5>3 DEF Written, Pruned
      <4>5. QED
        BY <4>3, <4>4 DEF Idle
    <3>3. QED
      BY <3>1, <3>2
  <2>2. CASE \E f \in UserFiles, c \in {Hand, Absent} : UserSave(f, c)
    BY <2>2 DEF UserSave
  <2>3. CASE UNCHANGED vars
    BY <2>3 DEF vars, dirVars, ghostVars, Quiet, Idle, Resting, Active, Written, Pruned
  <2>4. QED
    BY <2>1, <2>2, <2>3 DEF Next
<1>3. QED
  BY <1>1, <1>2, TypeCorrect, PTL DEF Spec

\* A run that nobody disturbs, and that finds every file as its boards have it and no
\* generated one besides, opens, renames and deletes nothing, as long as each of its
\* boards has a file of its own.
THEOREM NothingToDo == Spec => []QuietRerun
<1>1. Quiet => QuietRerun
  BY DEF Quiet, Idle, Distinct, QuietRerun, Active, Ended
<1>2. QED
  BY <1>1, QuietInductive, PTL

-----------------------------------------------------------------------------
(* The names of hosts, and what files their dashboards have. *)

\* The minimum of a set of numbers is in it.
LEMMA Smallest ==
    ASSUME NEW S, S \subseteq Nat, S # {}
    PROVE  Min(S) \in S /\ \A i \in S : Min(S) <= i
<1>1. PICK x \in S : \A y \in S : x <= y
  BY LeastIn
<1>2. QED
  BY <1>1 DEF Min

\* What is known of a sequence over T.
LEMMA EachTyped ==
    ASSUME NEW T, NEW s \in Seq(T)
    PROVE  /\ Len(s) \in Nat /\ DOMAIN s = 1..Len(s) /\ DOMAIN s \subseteq Nat
           /\ \A i \in DOMAIN s : s[i] \in T
OBVIOUS

\* A function on 1..l into T is a sequence over T.
LEMMA Enumerated ==
    ASSUME NEW T, NEW l \in Nat, NEW f, f = [i \in 1..l |-> f[i]], \A i \in 1..l : f[i] \in T
    PROVE  f \in Seq(T) /\ Len(f) = l
OBVIOUS

LEMMA Products == ASSUME NEW a \in Nat, NEW b \in Nat PROVE a * b \in Nat
OBVIOUS

\* Numbers of two digits, of which the second goes to N, compare by the first.
LEMMA Multiples ==
    ASSUME NEW a \in Nat, NEW b \in Nat, NEW N \in Nat, NEW i \in 1..N, NEW j \in 1..N, a < b
    PROVE  a * (N + 1) + j < b * (N + 1) + i
<1>1. PICK d \in Nat : b = a + 1 + d
  <2>1. b - a - 1 \in Nat /\ b = a + 1 + (b - a - 1)
    OBVIOUS
  <2>2. QED
    BY <2>1
<1>2. b * (N + 1) = a * (N + 1) + (N + 1) + d * (N + 1)
  BY <1>1
<1>3. d * (N + 1) \in Nat /\ a * (N + 1) \in Nat
  OBVIOUS
<1>4. QED
  BY <1>2, <1>3

\* The stem of the i-th name, from those of the names before it.
StemAt(g, names, i) ==
    IF \E j \in DOMAIN names :
          /\ Before(names[j], names[i]) \/ (names[j] = names[i] /\ j < i)
          /\ g[j] = Slug[names[i]]
    THEN Tagged[names[i]] ELSE Slug[names[i]]

\* The equation that defines Stems(names).
StemsAre(g, names) == g = [i \in DOMAIN names |-> StemAt(g, names, i)]

\* Stems(names) is a solution of its equation if there is one.
LEMMA StemsChosen ==
    ASSUME NEW names, \E g : StemsAre(g, names)
    PROVE  StemsAre(Stems(names), names)
BY Zenon DEF Stems, StemsAre, StemAt

\* Before is the order of the positions in NameOrder.
LEMMA BeforeOrders ==
    \E pos \in [Names -> 1..Len(NameOrder)] :
        /\ \A m, p \in Names : Before(m, p) <=> pos[m] < pos[p]
        /\ \A m, p \in Names : pos[m] = pos[p] => m = p
<1> DEFINE at == [m \in Names |-> CHOOSE k \in 1..Len(NameOrder) : NameOrder[k] = m]
<1>1. Len(NameOrder) \in Nat /\ DOMAIN NameOrder = 1..Len(NameOrder)
  BY NameAssumption
<1>2. ASSUME NEW m \in Names PROVE at[m] \in 1..Len(NameOrder) /\ NameOrder[at[m]] = m
  BY <1>1 DEF Names, ToSet
<1>3. at \in [Names -> 1..Len(NameOrder)]
  BY <1>1, <1>2
<1>4. ASSUME NEW k \in 1..Len(NameOrder) PROVE NameOrder[k] \in Names /\ at[NameOrder[k]] = k
  <2>1. NameOrder[k] \in Names
    BY <1>1 DEF Names, ToSet
  <2>2. QED
    BY <2>1, <1>1, <1>2, NameAssumption
<1> HIDE DEF at
<1>5. ASSUME NEW m \in Names, NEW p \in Names PROVE Before(m, p) <=> at[m] < at[p]
  BY <1>2, <1>4 DEF Before
<1>6. ASSUME NEW m \in Names, NEW p \in Names, at[m] = at[p] PROVE m = p
  BY <1>2, <1>6
<1>7. QED
  BY <1>3, <1>5, <1>6

\* Whether it has the stem of a name is decided by the names before it: on the number of
\* the position in NameOrder and in the list, the equation has a solution up to any number,
\* as there is no least one to which it has none.
LEMMA StemsExist ==
    ASSUME NEW names \in Seq(Names)
    PROVE  \E g : StemsAre(g, names)
<1> DEFINE D == DOMAIN names
           N == Len(names)
<1>1. N \in Nat /\ D = 1..N /\ \A i \in D : names[i] \in Names
  OBVIOUS
<1>2. PICK pos \in [Names -> 1..Len(NameOrder)] :
          /\ \A m, p \in Names : Before(m, p) <=> pos[m] < pos[p]
          /\ \A m, p \in Names : pos[m] = pos[p] => m = p
  BY BeforeOrders
<1> DEFINE rank == [i \in D |-> pos[names[i]] * (N + 1) + i]
<1>3. ASSUME NEW i \in D PROVE rank[i] \in Nat
  <2>1. pos[names[i]] \in Nat
    BY <1>1, <1>2
  <2>2. pos[names[i]] * (N + 1) \in Nat
    BY <1>1, <2>1
  <2>3. QED
    BY <1>1, <2>2
<1>4. ASSUME NEW j \in D, NEW i \in D,
             Before(names[j], names[i]) \/ (names[j] = names[i] /\ j < i)
      PROVE  rank[j] < rank[i]
  <2>1. pos[names[i]] \in Nat /\ pos[names[j]] \in Nat /\ i \in 1..N /\ j \in 1..N
    BY <1>1, <1>2
  <2>2. CASE Before(names[j], names[i])
    <3>1. pos[names[j]] < pos[names[i]]
      BY <1>1, <1>2, <2>2
    <3>2. pos[names[j]] * (N + 1) + j < pos[names[i]] * (N + 1) + i
      BY <1>1, <2>1, <3>1, Multiples
    <3>3. QED
      BY <3>2
  <2>3. CASE names[j] = names[i] /\ j < i
    <3>1. pos[names[j]] * (N + 1) \in Nat
      BY <1>1, <2>1
    <3>2. QED
      BY <2>1, <2>3, <3>1
  <2>4. QED
    BY <1>4, <2>2, <2>3
<1> DEFINE UpTo(g, k) == \A i \in D : rank[i] <= k => g[i] = StemAt(g, names, i)
           bad == {k \in Nat : ~\E g : UpTo(g, k)}
<1> HIDE DEF rank, D, N
<1>5. ASSUME NEW g, NEW h, NEW i \in D, \A j \in D : rank[j] < rank[i] => g[j] = h[j]
      PROVE  StemAt(g, names, i) = StemAt(h, names, i)
  BY <1>4, <1>5, Zenon DEF StemAt, D
<1>6. bad = {}
  <2>1. SUFFICES ASSUME bad # {} PROVE FALSE
    OBVIOUS
  <2>2. PICK k \in bad : \A l \in bad : k <= l
    BY <2>1, LeastIn
  <2>3. k \in Nat /\ ~\E g : UpTo(g, k)
    BY <2>2
  <2>4. \E g : \A i \in D : rank[i] < k => g[i] = StemAt(g, names, i)
    <3>1. CASE k = 0
      BY <1>3, <3>1
    <3>2. CASE k # 0
      <4>1. k - 1 \in Nat /\ ~(k <= k - 1)
        BY <2>3, <3>2
      <4>2. k - 1 \notin bad
        BY <2>2, <4>1
      <4>3. PICK g : UpTo(g, k - 1)
        BY <4>1, <4>2
      <4>4. ASSUME NEW i \in D, rank[i] < k PROVE g[i] = StemAt(g, names, i)
        BY <1>3, <2>3, <4>3, <4>4
      <4>5. QED
        BY <4>4
    <3>3. QED
      BY <3>1, <3>2
  <2>5. PICK g : \A i \in D : rank[i] < k => g[i] = StemAt(g, names, i)
    BY <2>4
  <2> DEFINE h == [i \in D |-> IF rank[i] < k THEN g[i] ELSE StemAt(g, names, i)]
  <2>6. ASSUME NEW i \in D, rank[i] <= k PROVE h[i] = StemAt(h, names, i)
    <3>1. \A j \in D : rank[j] < rank[i] => g[j] = h[j]
      BY <1>3, <2>3, <2>6
    <3>2. StemAt(g, names, i) = StemAt(h, names, i)
      BY <1>5, <3>1
    <3>3. h[i] = StemAt(g, names, i)
      BY <2>5
    <3>4. QED
      BY <3>2, <3>3
  <2> HIDE DEF h
  <2>7. UpTo(h, k)
    BY <2>6
  <2>8. QED
    BY <2>3, <2>7
<1>7. PICK top \in Nat : \A i \in D : rank[i] <= top
  <2> DEFINE L == Len(NameOrder)
             top == (L + 1) * (N + 1) + 1
  <2>1. N \in Nat /\ L \in Nat /\ pos \in [Names -> 1..L]
    BY <1>1, <1>2, NameAssumption
  <2> HIDE DEF L
  <2>2. top \in Nat
    <3>1. (L + 1) * (N + 1) \in Nat
      <4>1. L + 1 \in Nat /\ N + 1 \in Nat
        BY <2>1
      <4>2. QED
        BY <4>1, Products
    <3>2. QED
      BY <3>1
  <2>3. ASSUME NEW i \in D PROVE rank[i] <= top
    <3>1. i \in 1..N /\ 1 \in 1..N
      BY <1>1
    <3>2. pos[names[i]] \in Nat /\ L + 1 \in Nat /\ pos[names[i]] < L + 1
      BY <1>1, <2>1
    <3>3. pos[names[i]] * (N + 1) + i < top
      BY <2>1, <3>1, <3>2, Multiples
    <3>4. pos[names[i]] * (N + 1) + i \in Nat
      BY <1>3 DEF rank
    <3>5. QED
      BY <2>2, <3>3, <3>4 DEF rank
  <2> HIDE DEF top
  <2>4. QED
    BY <2>2, <2>3
<1>8. PICK g : \A i \in D : g[i] = StemAt(g, names, i)
  BY <1>6, <1>7
<1> DEFINE h == [i \in D |-> g[i]]
<1>9. ASSUME NEW i \in D PROVE h[i] = StemAt(h, names, i)
  <2>1. \A j \in D : rank[j] < rank[i] => g[j] = h[j]
    OBVIOUS
  <2>2. StemAt(g, names, i) = StemAt(h, names, i)
    BY <1>5, <2>1
  <2>3. QED
    BY <1>8, <2>2
<1>10. h = [i \in D |-> StemAt(h, names, i)]
  BY <1>9
<1> HIDE DEF h
<1>11. StemsAre(h, names)
  BY <1>10 DEF StemsAre, D
<1>12. QED
  BY <1>11

\* The equation, name by name.
LEMMA StemOfEach ==
    ASSUME NEW names \in Seq(Names)
    PROVE  \A i \in DOMAIN names : Stems(names)[i] = StemAt(Stems(names), names, i)
<1>1. StemsAre(Stems(names), names)
  BY StemsExist, StemsChosen
<1>2. Stems(names) = [i \in DOMAIN names |-> StemAt(Stems(names), names, i)]
  BY <1>1 DEF StemsAre
<1>3. QED
  BY <1>2

\* A name's stem is that of its last place in the list.
LEMMA SlugOf ==
    ASSUME NEW names \in Seq(Names), NEW m \in ToSet(names)
    PROVE  \E i \in DOMAIN names :
              /\ names[i] = m /\ m \in Names
              /\ UniqueSlugs(names)[m] = Stems(names)[i]
              /\ Stems(names)[i] = StemAt(Stems(names), names, i)
              /\ Stems(names)[i] \in {Slug[m], Tagged[m]}
<1> DEFINE places == {i \in DOMAIN names : names[i] = m}
<1>1. /\ Len(names) \in Nat /\ DOMAIN names = 1..Len(names)
      /\ \A i \in DOMAIN names : names[i] \in Names
  BY EachTyped
<1>2. places # {} /\ places \subseteq DOMAIN names
  BY DEF ToSet
<1>3. Max(places) \in places
  <2> HIDE DEF places
  <2>1. QED
    BY <1>1, <1>2, GreatestIn
<1>4. UniqueSlugs(names)[m] = Stems(names)[Max(places)]
  BY DEF UniqueSlugs
<1>5. Max(places) \in DOMAIN names /\ names[Max(places)] = m /\ m \in Names
  BY <1>1, <1>3
<1> HIDE DEF places
<1>6. Stems(names)[Max(places)] = StemAt(Stems(names), names, Max(places))
  BY <1>5, StemOfEach
<1>7. StemAt(Stems(names), names, Max(places)) \in {Slug[m], Tagged[m]}
  BY <1>5 DEF StemAt
<1>8. QED
  BY <1>4, <1>5, <1>6, <1>7

\* unique_slugs() gives no stem to two names.
LEMMA SlugsUnique ==
    ASSUME TagsTellApart, NEW names \in Seq(Names),
           NEW m \in ToSet(names), NEW p \in ToSet(names),
           UniqueSlugs(names)[m] = UniqueSlugs(names)[p]
    PROVE  m = p
<1> DEFINE stem == Stems(names)
<1>1. PICK i \in DOMAIN names :
          /\ names[i] = m /\ m \in Names /\ UniqueSlugs(names)[m] = stem[i]
          /\ stem[i] = StemAt(stem, names, i) /\ stem[i] \in {Slug[m], Tagged[m]}
  BY SlugOf
<1>2. PICK j \in DOMAIN names :
          /\ names[j] = p /\ p \in Names /\ UniqueSlugs(names)[p] = stem[j]
          /\ stem[j] = StemAt(stem, names, j) /\ stem[j] \in {Slug[p], Tagged[p]}
  BY SlugOf
<1> HIDE DEF stem
<1>3. stem[i] = stem[j]
  BY <1>1, <1>2
<1>4. ASSUME Before(m, p) PROVE m = p
  <2>1. stem[j] # Slug[p] \/ stem[j] = Tagged[p]
    BY <1>1, <1>2, <1>3, <1>4 DEF StemAt
  <2>2. QED
    BY <1>1, <1>2, <1>3, <2>1 DEF TagsTellApart
<1>5. ASSUME Before(p, m) PROVE m = p
  <2>1. stem[i] # Slug[m] \/ stem[i] = Tagged[m]
    BY <1>1, <1>2, <1>3, <1>5 DEF StemAt
  <2>2. QED
    BY <1>1, <1>2, <1>3, <2>1 DEF TagsTellApart
<1>6. m = p \/ Before(m, p) \/ Before(p, m)
  <2>1. PICK pos \in [Names -> 1..Len(NameOrder)] :
            /\ \A a, b \in Names : Before(a, b) <=> pos[a] < pos[b]
            /\ \A a, b \in Names : pos[a] = pos[b] => a = b
    BY BeforeOrders
  <2>2. pos[m] \in Nat /\ pos[p] \in Nat
    BY <1>1, <1>2, <2>1, NameAssumption
  <2>3. QED
    BY <1>1, <1>2, <2>1, <2>2
<1>7. QED
  BY <1>4, <1>5, <1>6

\* InOrder lists members of the set, each of them.
LEMMA Ordered ==
    ASSUME NEW bound \in Nat, NEW S, S \subseteq 1..bound
    PROVE  /\ Cardinality(S) \in Nat /\ DOMAIN InOrder(S) = 1..Cardinality(S)
           /\ \A i \in DOMAIN InOrder(S) : InOrder(S)[i] \in S
           /\ \A k \in S : \E i \in DOMAIN InOrder(S) : InOrder(S)[i] = k
<1> DEFINE upTo(k) == S \intersect 1..k
<1>1. /\ IsFiniteSet(S) /\ Cardinality(S) \in Nat
      /\ \A k \in Nat : IsFiniteSet(upTo(k)) /\ Cardinality(upTo(k)) \in Nat
  <2>1. IsFiniteSet(1..bound)
    BY FS_Interval
  <2>2. IsFiniteSet(S)
    BY <2>1, FS_Subset
  <2>3. ASSUME NEW k \in Nat PROVE IsFiniteSet(upTo(k))
    <3>1. upTo(k) \subseteq S
      OBVIOUS
    <3>2. QED
      BY <2>2, <3>1, FS_Subset
  <2>4. QED
    BY <2>2, <2>3, FS_CardinalityType
<1>2. ASSUME NEW i \in 1..Cardinality(S)
      PROVE  \E k \in S : Cardinality(S \intersect 1..k) = i
  <2> DEFINE T == {k \in Nat : Cardinality(upTo(k)) >= i}
  <2>1. bound \in T
    <3>1. upTo(bound) = S
      OBVIOUS
    <3>2. QED
      BY <1>1, <3>1
  <2>2. PICK k \in T : \A l \in T : k <= l
    BY <2>1, LeastIn
  <2>3. k # 0
    <3>1. upTo(0) = {}
      OBVIOUS
    <3>2. Cardinality(upTo(0)) = 0
      BY <3>1, FS_EmptySet
    <3>3. QED
      BY <3>2, <1>1
  <2>4. k - 1 \in Nat /\ k - 1 \notin T
    BY <2>2, <2>3
  <2>5. Cardinality(upTo(k - 1)) < i /\ Cardinality(upTo(k)) >= i
    BY <1>1, <2>2, <2>4
  <2>6. k \in S
    <3>1. SUFFICES ASSUME k \notin S PROVE FALSE
      OBVIOUS
    <3>2. upTo(k) = upTo(k - 1)
      BY <2>4, <3>1
    <3>3. QED
      BY <1>1, <2>4, <2>5, <3>2
  <2>7. Cardinality(upTo(k)) = Cardinality(upTo(k - 1)) + 1
    <3>1. upTo(k) = upTo(k - 1) \union {k} /\ k \notin upTo(k - 1)
      BY <2>4, <2>6
    <3>2. QED
      BY <1>1, <2>4, <3>1, FS_AddElement
  <2>8. Cardinality(upTo(k)) = i
    <3> HIDE DEF upTo, T
    <3>1. Cardinality(upTo(k - 1)) \in Nat /\ i \in Nat
      BY <1>1, <2>4
    <3>2. QED
      BY <2>5, <2>7, <3>1
  <2>9. QED
    BY <2>6, <2>8
<1>3. DOMAIN InOrder(S) = 1..Cardinality(S)
  BY DEF InOrder
<1>4. ASSUME NEW i \in DOMAIN InOrder(S)
      PROVE  InOrder(S)[i] \in S /\ Cardinality(upTo(InOrder(S)[i])) = i
  <2>1. InOrder(S)[i] = CHOOSE k \in S : Cardinality(S \intersect 1..k) = i
    BY <1>3 DEF InOrder
  <2>2. \E k \in S : Cardinality(S \intersect 1..k) = i
    BY <1>2, <1>3
  <2>3. QED
    BY <2>1, <2>2
<1>5. ASSUME NEW k \in S, NEW l \in S, k < l
      PROVE  Cardinality(upTo(k)) # Cardinality(upTo(l))
  <2>1. k \in Nat /\ l \in Nat /\ l \in 1..l /\ l \notin 1..k
    BY <1>5
  <2>2. upTo(k) \subseteq upTo(l) /\ upTo(k) # upTo(l)
    BY <2>1
  <2>3. Cardinality(upTo(k)) < Cardinality(upTo(l))
    BY <1>1, <2>1, <2>2, FS_Subset
  <2>4. QED
    BY <1>1, <2>1, <2>3
<1>6. ASSUME NEW k \in S PROVE \E i \in DOMAIN InOrder(S) : InOrder(S)[i] = k
  <2> DEFINE i == Cardinality(upTo(k))
  <2>1. k \in Nat /\ k \in upTo(k) /\ upTo(k) \subseteq S
    OBVIOUS
  <2>2. i \in Nat /\ i <= Cardinality(S) /\ i # 0
    BY <1>1, <2>1, FS_Subset, FS_EmptySet
  <2>3. i \in DOMAIN InOrder(S)
    BY <1>1, <1>3, <2>2
  <2>4. InOrder(S)[i] \in S /\ Cardinality(upTo(InOrder(S)[i])) = i
    BY <1>4, <2>3
  <2>5. PICK l \in S : l = InOrder(S)[i] /\ Cardinality(upTo(l)) = Cardinality(upTo(k))
    BY <2>4
  <2> HIDE DEF upTo
  <2>6. l \in Nat /\ ~(k < l) /\ ~(l < k)
    BY <1>5, <2>5
  <2>7. l = k
    BY <2>1, <2>6
  <2>8. QED
    BY <2>3, <2>5, <2>7
<1>7. QED
  BY <1>1, <1>3, <1>4, <1>6

Agents == [hostname : Names, unenrolled : BOOLEAN]

\* fleet_agents() lists agents of Fleet's answer.
LEMMA AgentsTyped ==
    ASSUME NEW items \in Seq(Agents)
    PROVE  FleetAgents(items) \in Seq(Agents)
<1> DEFINE Called(k) == {i \in DOMAIN items :
                            Listed(items[i]) /\ Lower[items[i].hostname] = NameOrder[k]}
           S == {k \in DOMAIN NameOrder : Called(k) # {}}
           agents == [i \in DOMAIN InOrder(S) |-> items[Min(Called(InOrder(S)[i]))]]
<1>1. FleetAgents(items) = agents
  BY Zenon DEF FleetAgents
<1>2. \A k : Called(k) \subseteq DOMAIN items
  BY Zenon
<1> HIDE DEF Called
<1>3. \A k \in S : Called(k) # {}
  OBVIOUS
<1>4. /\ Cardinality(S) \in Nat /\ DOMAIN InOrder(S) = 1..Cardinality(S)
      /\ \A i \in DOMAIN InOrder(S) : InOrder(S)[i] \in S
  <2>1. Len(NameOrder) \in Nat /\ DOMAIN NameOrder = 1..Len(NameOrder)
    BY NameAssumption, EachTyped
  <2>2. S \subseteq 1..Len(NameOrder)
    BY <2>1
  <2> HIDE DEF S
  <2>3. QED
    BY <2>1, <2>2, Ordered
<1> HIDE DEF S
<1>5. ASSUME NEW k \in S PROVE items[Min(Called(k))] \in Agents
  <2>1. Called(k) \subseteq DOMAIN items /\ Called(k) # {} /\ DOMAIN items \subseteq Nat
    BY <1>2, <1>3, EachTyped
  <2>2. Min(Called(k)) \in Called(k)
    <3>1. Called(k) \subseteq Nat
      BY <2>1
    <3>2. QED
      BY <2>1, <3>1, Smallest
  <2>3. QED
    BY <2>1, <2>2, EachTyped
<1>6. /\ agents = [i \in 1..Cardinality(S) |-> agents[i]]
      /\ \A i \in 1..Cardinality(S) : agents[i] \in Agents
  BY <1>4, <1>5, Zenon
<1> HIDE DEF agents
<1>7. agents \in Seq(Agents)
  BY <1>4, <1>6, Enumerated
<1>8. QED
  BY <1>1, <1>7

\* "Every enrolled agent, online or not" (gen-dashboards.py:103): of each agent in Fleet's
\* answer that is not unenrolled and has a hostname, that hostname, but for its case, is
\* among those fleet_agents() returns; dropping one of two that share it drops no host.
THEOREM NoHostDropped ==
    ASSUME NEW items \in Seq(Agents), NEW i \in DOMAIN items,
           Listed(items[i])
    PROVE  \E j \in DOMAIN FleetAgents(items) :
              Lower[FleetAgents(items)[j].hostname] = Lower[items[i].hostname]
<1> DEFINE Called(k) == {m \in DOMAIN items :
                            Listed(items[m]) /\ Lower[items[m].hostname] = NameOrder[k]}
           S == {k \in DOMAIN NameOrder : Called(k) # {}}
           agents == [m \in DOMAIN InOrder(S) |-> items[Min(Called(InOrder(S)[m]))]]
<1>1. FleetAgents(items) = agents
  BY Zenon DEF FleetAgents
<1>2. PICK k \in DOMAIN NameOrder : NameOrder[k] = Lower[items[i].hostname]
  <2>1. items[i] \in Agents
    BY EachTyped
  <2>2. Lower[items[i].hostname] \in Names
    BY <2>1, NameAssumption DEF Agents
  <2>3. QED
    BY <2>2 DEF Names, ToSet
<1>3. i \in Called(k)
  BY <1>2, Zenon
<1>4. \A m \in Called(k) : m \in DOMAIN items /\ Lower[items[m].hostname] = NameOrder[k]
  BY Zenon
<1> HIDE DEF Called
<1>5. Min(Called(k)) \in Called(k)
  <2>1. DOMAIN items \subseteq Nat
    BY EachTyped
  <2>2. Called(k) \subseteq Nat /\ Called(k) # {}
    BY <1>3, <1>4, <2>1
  <2>3. QED
    BY <2>2, Smallest
<1>6. k \in S
  BY <1>3
<1>7. PICK j \in DOMAIN InOrder(S) : InOrder(S)[j] = k
  <2>1. Len(NameOrder) \in Nat /\ DOMAIN NameOrder = 1..Len(NameOrder)
    BY NameAssumption, EachTyped
  <2>2. S \subseteq 1..Len(NameOrder)
    BY <2>1
  <2> HIDE DEF S
  <2>3. \A m \in S : \E j \in DOMAIN InOrder(S) : InOrder(S)[j] = m
    BY <2>1, <2>2, Ordered
  <2>4. QED
    BY <1>6, <2>3
<1> HIDE DEF S
<1>8. j \in DOMAIN agents /\ agents[j] = items[Min(Called(k))]
  BY <1>7
<1>9. Lower[agents[j].hostname] = Lower[items[i].hostname]
  BY <1>2, <1>4, <1>5, <1>8
<1>10. QED
  BY <1>1, <1>8, <1>9

\* A host name is resolved to itself or to one that documents have.
LEMMA NameResolved ==
    ASSUME NEW h \in Names, NEW seen \in Seq(Names)
    PROVE  ResolveHostName(h, seen) \in Names
<1> DEFINE same == {j \in DOMAIN seen : Lower[seen[j]] = Lower[h]}
           like == {j \in DOMAIN seen : Short[seen[j]] = Short[h]}
<1>1. /\ Len(seen) \in Nat /\ DOMAIN seen = 1..Len(seen) /\ DOMAIN seen \subseteq Nat
      /\ \A i \in DOMAIN seen : seen[i] \in Names
  BY EachTyped
<1>2. same \subseteq DOMAIN seen /\ like \subseteq DOMAIN seen
  OBVIOUS
<1>3. ResolveHostName(h, seen) = IF h \in ToSet(seen) THEN h
                                 ELSE IF same # {} THEN seen[Max(same)]
                                 ELSE IF like # {} THEN seen[Min(like)]
                                 ELSE h
  BY Zenon DEF ResolveHostName
<1> HIDE DEF same, like
<1>4. same # {} => seen[Max(same)] \in Names
  <2>1. same # {} => Max(same) \in same
    BY <1>1, <1>2, GreatestIn
  <2>2. QED
    BY <1>1, <1>2, <2>1
<1>5. like # {} => seen[Min(like)] \in Names
  <2>1. like # {} => Min(like) \in like
    BY <1>1, <1>2, Smallest
  <2>2. QED
    BY <1>1, <1>2, <2>1
<1>6. QED
  BY <1>3, <1>4, <1>5

\* main() comes to one name for each agent.
LEMMA NamesOfAgents ==
    ASSUME NEW w \in Worlds
    PROVE  /\ HostNames(w) \in Seq(Names) /\ FleetAgents(w.items) \in Seq(Agents)
           /\ Len(HostNames(w)) = Len(FleetAgents(w.items))
<1> DEFINE agents == FleetAgents(w.items)
           names == [i \in DOMAIN agents |-> ResolveHostName(agents[i].hostname, w.seen)]
<1>1. w.items \in Seq(Agents) /\ w.seen \in Seq(Names)
  BY WorldsAssumption DEF Agents
<1>2. agents \in Seq(Agents)
  BY <1>1, AgentsTyped
<1>3. HostNames(w) = names
  BY Zenon DEF HostNames
<1>4. DOMAIN agents = 1..Len(agents) /\ Len(agents) \in Nat
  BY <1>2, EachTyped
<1>5. \A i \in DOMAIN agents : agents[i].hostname \in Names
  <2> HIDE DEF agents
  <2>1. \A i \in DOMAIN agents : agents[i] \in Agents
    BY <1>2, EachTyped
  <2>2. QED
    BY <2>1 DEF Agents
<1>6. /\ names = [i \in 1..Len(agents) |-> names[i]]
      /\ \A i \in 1..Len(agents) : names[i] \in Names
  BY <1>1, <1>4, <1>5, NameResolved, Zenon
<1> HIDE DEF names, agents
<1>7. names \in Seq(Names) /\ Len(names) = Len(agents)
  BY <1>4, <1>6, Enumerated
<1>8. QED
  BY <1>2, <1>3, <1>7 DEF agents

\* What is where in two lists, one after the other.
LEMMA Joined ==
    ASSUME NEW a, NEW b, NEW l \in Nat, NEW k \in Nat,
           a = [i \in 1..l |-> a[i]], b = [i \in 1..k |-> b[i]]
    PROVE  /\ DOMAIN (a \o b) = 1..(l + k)
           /\ \A i \in 1..l : (a \o b)[i] = a[i]
           /\ \A i \in (l + 1)..(l + k) : i - l \in 1..k /\ (a \o b)[i] = b[i - l]
<1> DEFINE T == {a[i] : i \in 1..l} \union {b[i] : i \in 1..k}
<1>1. a \in Seq(T) /\ Len(a) = l /\ b \in Seq(T) /\ Len(b) = k
  <2>1. (\A i \in 1..l : a[i] \in T) /\ (\A i \in 1..k : b[i] \in T)
    OBVIOUS
  <2> HIDE DEF T
  <2>2. QED
    BY <2>1, Enumerated
<1> HIDE DEF T
<1>2. QED
  BY <1>1

\* The file of a host's dashboard.
FileOf(w, h) == "host-" \o UniqueSlugs(HostNames(w))[h]

\* Among the boards of an answer there is one in each host's file, and none of another.
LEMMA BoardOfName ==
    ASSUME TagsTellApart, NEW w \in Worlds, NEW h \in ToSet(HostNames(w))
    PROVE  /\ FileOf(w, h) \in FilesOf(BoardsFor(w))
           /\ \A i \in DOMAIN BoardsFor(w) :
                 BoardsFor(w)[i].file = FileOf(w, h) => BoardsFor(w)[i].body.name = h
<1> DEFINE f == FileOf(w, h)
           agents == FleetAgents(w.items)
           names == HostNames(w)
           stems == UniqueSlugs(names)
           S == {k \in DOMAIN NetworkFiles :
                    NetworkFiles[k].board \in NetworkDashboards(w.receivers)}
           order == InOrder(S)
           hosts == [i \in DOMAIN agents |->
                        [file |-> "host-" \o stems[names[i]],
                         body |-> [agent |-> agents[i], name |-> names[i]]]]
           others == [i \in DOMAIN order |->
                         [file |-> NetworkFiles[order[i]].file,
                          body |-> [receivers |-> w.receivers]]]
           l == Len(agents)
           k == Cardinality(S)
           plan == BoardsFor(w)
<1>1. plan = hosts \o others
  BY Zenon DEF BoardsFor
<1>2. names \in Seq(Names) /\ l \in Nat /\ DOMAIN agents = 1..l /\ DOMAIN names = 1..l
  <2>1. /\ names \in Seq(Names) /\ agents \in Seq(Agents) /\ Len(names) = Len(agents)
    BY NamesOfAgents
  <2> HIDE DEF names, agents
  <2>2. QED
    BY <2>1, EachTyped
<1>3. k \in Nat /\ DOMAIN order = 1..k /\ \A i \in 1..k : order[i] \in DOMAIN NetworkFiles
  <2>1. DOMAIN NetworkFiles = 1..6 /\ S \subseteq DOMAIN NetworkFiles
    BY DEF NetworkFiles
  <2> HIDE DEF S
  <2>2. /\ Cardinality(S) \in Nat /\ DOMAIN InOrder(S) = 1..Cardinality(S)
        /\ \A i \in DOMAIN InOrder(S) : InOrder(S)[i] \in S
    BY <2>1, Ordered
  <2>3. QED
    BY <2>1, <2>2
<1>4. /\ \A i \in 1..l : /\ hosts[i].file = "host-" \o stems[names[i]]
                          /\ hosts[i].body.name = names[i]
      /\ \A i \in 1..k : others[i].file = NetworkFiles[order[i]].file
      /\ hosts = [i \in 1..l |-> hosts[i]] /\ others = [i \in 1..k |-> others[i]]
  <2> HIDE DEF agents, order, l, k, stems, names
  <2>1. QED
    BY <1>2, <1>3
<1> HIDE DEF hosts, others, S, order, l, k, agents, plan
<1>5. /\ DOMAIN plan = 1..(l + k)
      /\ \A i \in 1..l : plan[i] = hosts[i]
      /\ \A i \in (l + 1)..(l + k) : i - l \in 1..k /\ plan[i] = others[i - l]
  BY <1>1, <1>2, <1>3, <1>4, Joined
<1>6. ASSUME NEW m \in ToSet(names)
      PROVE  stems[m] \in {Slug[q] : q \in Names} \union {Tagged[q] : q \in Names}
  <2>1. m \in Names /\ stems[m] \in {Slug[m], Tagged[m]}
    BY <1>2, SlugOf
  <2> HIDE DEF stems
  <2>2. QED
    BY <2>1
<1>7. \A m \in ToSet(names) : stems[m] = stems[h] => m = h
  BY <1>2, SlugsUnique
<1> HIDE DEF names, stems
<1>8. h \in ToSet(names) /\ f = "host-" \o stems[h] /\ \A i \in 1..l : names[i] \in ToSet(names)
  BY <1>2 DEF names, stems, ToSet, FileOf
<1> HIDE DEF f
<1>9. f \in FilesOf(plan)
  <2>1. PICK i \in 1..l : names[i] = h
    BY <1>2, <1>8 DEF ToSet
  <2>2. i \in DOMAIN plan
    BY <1>2, <1>3, <1>5, <2>1
  <2>3. plan[i].file = f
    <3>1. plan[i] = hosts[i] /\ hosts[i].file = "host-" \o stems[names[i]]
      BY <1>4, <1>5, <2>1
    <3>2. QED
      BY <1>8, <2>1, <3>1
  <2>4. QED
    BY <2>2, <2>3 DEF FilesOf
<1>10. ASSUME NEW i \in DOMAIN plan, plan[i].file = f PROVE plan[i].body.name = h
  <2>1. CASE i \in 1..l
    <3>1. "host-" \o stems[names[i]] = "host-" \o stems[h]
      BY <1>4, <1>5, <1>8, <1>10, <2>1
    <3>2. stems[names[i]] = stems[h]
      BY <1>6, <1>8, <2>1, <3>1, NameAssumption
    <3>3. QED
      BY <1>4, <1>5, <1>7, <1>8, <2>1, <3>2
  <2>2. CASE i \in (l + 1)..(l + k)
    <3>1. plan[i].file = NetworkFiles[order[i - l]].file /\ order[i - l] \in DOMAIN NetworkFiles
      BY <1>3, <1>4, <1>5, <2>2
    <3>2. QED
      BY <1>6, <1>8, <1>10, <3>1, NameAssumption
  <2>3. QED
    BY <1>2, <1>3, <1>5, <2>1, <2>2
<1>11. QED
  BY <1>9, <1>10 DEF plan, f

\* However host names collide in file names, every host that Fleet lists has a dashboard
\* of its own under the name its documents carry once a run has ended undisturbed, unless
\* a user's own file has its name: gen-dashboards.py:1320-1333. All that is asked of the
\* hash is that its digits tell names apart.
THEOREM HostsShown == ASSUME TagsTellApart PROVE Spec => []EveryHostShown
<1>1. ASSUME TypeOK, DoneMeansCurrent PROVE EveryHostShown
  <2> DEFINE Shown(f, h) == shown[f] = Hand \/ (Generated(shown[f]) /\ shown[f].name = h)
  <2> SUFFICES ASSUME NEW r \in Runs, NEW w \in Worlds, alone[r], ~overlapped,
                      pc[r] \in {"ok", "kept"}, boards[r] = BoardsFor(w),
                      NEW h \in ToSet(HostNames(w))
               PROVE  Shown(FileOf(w, h), h)
    <3>1. \A w \in Worlds : DOMAIN UniqueSlugs(HostNames(w)) = ToSet(HostNames(w))
      BY DEF UniqueSlugs
    <3> HIDE DEF Shown
    <3>2. QED
      BY <3>1, Zenon DEF EveryHostShown, Shown, FileOf
  <2> DEFINE f == FileOf(w, h)
             plan == boards[r]
             places == {i \in DOMAIN plan : plan[i].file = f}
  <2>1. plan \in Seq(Board) /\ Written(plan)
    BY <1>1 DEF TypeOK, DoneMeansCurrent, Board
  <2>2. /\ f \in FilesOf(plan)
        /\ \A i \in DOMAIN plan : plan[i].file = f => plan[i].body.name = h
    BY BoardOfName
  <2> HIDE DEF f
  <2> HIDE DEF plan
  <2>3. Len(plan) \in Nat /\ DOMAIN plan = 1..Len(plan) /\ \A i \in DOMAIN plan : plan[i] \in Board
    BY <2>1, EachTyped
  <2>4. Max(places) \in places
    <3>1. places \subseteq 1..Len(plan) /\ places # {}
      BY <2>2, <2>3 DEF FilesOf
    <3> HIDE DEF places
    <3>2. QED
      BY <2>3, <3>1, GreatestIn
  <2>5. Final(plan, f) = plan[Max(places)].body
    BY DEF Final
  <2> DEFINE last == Max(places)
  <2> HIDE DEF last
  <2>6. last \in DOMAIN plan /\ plan[last].file = f
    BY <2>4 DEF last
  <2>7. Final(plan, f) \in Bodies /\ Final(plan, f).name = h
    BY <2>2, <2>3, <2>5, <2>6 DEF last, Board
  <2>8. shown[f] \in {Hand, Final(plan, f)}
    BY <2>1, <2>2 DEF Written
  <2>9. QED
    BY <2>7, <2>8, PlansAssumption DEF Generated, f
<1>2. QED
  BY <1>1, TypeCorrect, DoneIsCurrent, PTL
=============================================================================
