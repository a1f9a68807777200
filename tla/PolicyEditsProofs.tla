------------------------- MODULE PolicyEditsProofs -------------------------
(***************************************************************************)
(* Proofs about PolicyEdits, for any number of clients that run any jobs   *)
(* over any policies, and any edits of users.                              *)
(***************************************************************************)
EXTENDS PolicyEdits, TLAPS

Shape == DOMAIN job = Clients /\ DOMAIN copy = Clients /\ DOMAIN queue = Clients

\* What a client is still to PUT needs it, as of the GET, and is as it was then unless
\* others have changed it.
PlannedAt(c) ==
    pc[c] = "put" =>
        /\ job[c] \in MayRun[c]
        /\ \A d \in At(queue[c]) :
              /\ copy[c][d] \in DocOf(d) /\ Needs(job[c], d, copy[c][d])
              /\ d \notin overtaken[c] => docs[d] = copy[c][d]
Planned == \A c \in Clients : PlannedAt(c)

Migrating(c) == job[c].script \in Migrations /\ ~job[c].check

\* Nothing else needs a migration that is under way or done.
CoveredAt(c) ==
    (pc[c] \in {"put", "ok"} /\ Migrating(c)) =>
        \A d \in Live : d \in overtaken[c] \union At(queue[c]) \/ ~Needs(job[c], d, docs[d])
Covered == \A c \in Clients : CoveredAt(c)

IndInv == TypeOK /\ Shape /\ Planned /\ Covered

\* What IndInv says of one client.
TypedAt(c) ==
    /\ job[c] \in MayRun[c] \union {NotAsked}
    /\ queue[c] \subseteq DOMAIN DocOrder
    /\ pc[c] = "put" <=> queue[c] # {}
    /\ DOMAIN copy[c] = At(queue[c])

ClientInv(c) == TypedAt(c) /\ PlannedAt(c) /\ CoveredAt(c)

\* And of everything else.
Rest ==
    /\ Shape /\ DOMAIN docs = Docs /\ \A d \in Docs : docs[d] \in DocOf(d) \union {Gone}
    /\ pc \in [Clients -> {"idle", "put", "ok", "failed"}]
    /\ overtaken \in [Clients -> SUBSET Docs]

-----------------------------------------------------------------------------
(* The plans. *)

LEMMA Scripts ==
    ASSUME NEW j \in Jobs
    PROVE  \/ j.script \in Migrations /\ j.check \in BOOLEAN
           \/ j.script = "toggle-stream" /\ j.doc \in Docs /\ j.want \in BOOLEAN
  BY DEF Jobs

\* A change keeps a policy one of its package.
LEMMA ChangedTyped ==
    ASSUME NEW j \in Jobs, NEW d \in Docs, NEW x \in DocOf(d), Needs(j, d, x)
    PROVE  Changed(j, d, x) \in DocOf(d)
<1>1. x \in Doc
  BY DEF DocOf
<1>2. CASE j.script = "custom-logs"
  <2>1. Package[d] = "log" /\ Changed(j, d, x) = [x EXCEPT !.custom = "flat"]
    BY <1>2 DEF Needs, NeedsCustomLogs, Changed
  <2>2. QED
    BY <1>1, <2>1 DEF DocOf, Doc
<1>3. CASE j.script = "media-paths"
  <2>1. d \in MediaDocs /\ Changed(j, d, x) = [x EXCEPT !.paths = "stock", !.custom = "stock"]
    BY <1>3 DEF Needs, NeedsMediaPaths, Changed
  <2>2. QED
    BY <1>1, <2>1 DEF DocOf, Doc
<1>4. CASE j.script = "filesystem-types"
  <2>1. Changed(j, d, x) = [x EXCEPT !.fsTypes = "stock"]
    BY <1>4 DEF Changed
  <2>2. QED
    BY <1>1, <2>1 DEF DocOf, Doc
<1>5. CASE j.script = "unifi-inputs"
  <2>1. Package[d] \in {"cef", "iptables"} /\ Changed(j, d, x) = PlanUnifi(d, x)
    BY <1>5 DEF Needs, NeedsUnifiInputs, Changed
  <2>2. QED
    BY <1>1, <2>1 DEF DocOf, Doc, PlanUnifi
<1>6. CASE j.script = "toggle-stream"
  <2>1. j.want \in BOOLEAN /\ Changed(j, d, x) = [x EXCEPT !.enabled = j.want]
    BY <1>6, Scripts DEF Changed, Migrations
  <2>2. QED
    BY <1>1, <2>1 DEF DocOf, Doc
<1>7. QED
  BY <1>2, <1>3, <1>4, <1>5, <1>6, Scripts DEF Migrations

\* A migration has nothing left to do where it has been.
LEMMA ChangedDone ==
    ASSUME NEW j \in Jobs, j.script \in Migrations, NEW d \in Docs, NEW x \in DocOf(d)
    PROVE  ~Needs(j, d, Changed(j, d, x))
<1>1. x \in Doc
  BY DEF DocOf
<1>2. CASE j.script = "custom-logs"
  BY <1>1, <1>2 DEF Needs, NeedsCustomLogs, Changed, Doc
<1>3. CASE j.script = "media-paths"
  BY <1>1, <1>3 DEF Needs, NeedsMediaPaths, Changed, Doc
<1>4. CASE j.script = "filesystem-types"
  BY <1>1, <1>4 DEF Needs, NeedsFilesystemTypes, Changed, Doc
<1>5. CASE j.script = "unifi-inputs"
  BY <1>1, <1>5 DEF Needs, NeedsUnifiInputs, Changed, PlanUnifi, Doc
<1>6. QED
  BY <1>2, <1>3, <1>4, <1>5 DEF Migrations

LEMMA Settings ==
    Vars = {"enabled", "paths", "custom", "fsTypes", "udp", "preserve", "ignoreEmpty"}
<1>1. [enabled |-> TRUE, paths |-> "old", custom |-> "stock", fsTypes |-> "old",
       udp |-> "default", preserve |-> TRUE, ignoreEmpty |-> TRUE] \in Doc
  BY DEF Doc
<1>2. (CHOOSE x \in Doc : TRUE) \in Doc
  BY <1>1
<1>3. QED
  BY <1>2 DEF Vars, Doc

\* A change leaves what the script does not own.
LEMMA ChangedKeeps ==
    ASSUME NEW j \in Jobs, NEW d \in Docs, NEW x \in DocOf(d), Needs(j, d, x),
           NEW v \in Vars \ Own(j, x)
    PROVE  Changed(j, d, x)[v] = x[v]
<1>1. x \in Doc
  BY DEF DocOf
<1>2. CASE j.script = "custom-logs"
  BY <1>1, <1>2, Settings DEF Needs, NeedsCustomLogs, Changed, Own, Doc
<1>3. CASE j.script = "media-paths"
  BY <1>1, <1>3, Settings DEF Changed, Own, Doc
<1>4. CASE j.script = "filesystem-types"
  BY <1>1, <1>4, Settings DEF Needs, NeedsFilesystemTypes, Changed, Own, Doc
<1>5. CASE j.script = "unifi-inputs"
  <2>1. x.enabled /\ Changed(j, d, x) = PlanUnifi(d, x)
    BY <1>5 DEF Needs, NeedsUnifiInputs, Changed
  <2>2. QED
    BY <1>1, <1>5, <2>1, Settings DEF PlanUnifi, Own, Doc
<1>6. CASE j.script = "toggle-stream"
  BY <1>1, <1>6, Settings DEF Changed, Own, Doc
<1>7. QED
  BY <1>2, <1>3, <1>4, <1>5, <1>6, Scripts DEF Migrations
-----------------------------------------------------------------------------
(* The invariant. *)

LEMMA Parts == IndInv <=> Rest /\ \A c \in Clients : ClientInv(c)
  BY DEF IndInv, Rest, ClientInv, TypeOK, TypedAt, Planned, Covered

LEMMA PartsNext == Rest' /\ (\A c \in Clients : ClientInv(c)') => IndInv'
  BY DEF IndInv, Rest, ClientInv, TypeOK, TypedAt, Planned, Covered

\* A client whose own state stays as it is, while policy d changes and it is told so.
LEMMA Bystander ==
    ASSUME Rest, NEW c \in Clients, ClientInv(c), NEW d \in Docs,
           \A e \in Docs : e # d => docs'[e] = docs[e],
           job'[c] = job[c], copy'[c] = copy[c], queue'[c] = queue[c], pc'[c] = pc[c],
           overtaken'[c] = IF pc[c] \in {"put", "ok"} THEN overtaken[c] \union {d}
                                                     ELSE overtaken[c]
    PROVE  ClientInv(c)'
<1>1. TypedAt(c)'
  BY DEF ClientInv, TypedAt, At
<1>2. At(queue[c]) \subseteq Docs
  BY EditsAssumption DEF ClientInv, TypedAt, At
<1>3. PlannedAt(c)'
  BY <1>2 DEF ClientInv, PlannedAt, At
<1>4. CoveredAt(c)'
  BY DEF ClientInv, CoveredAt, Migrating, Live, At
<1>5. QED
  BY <1>1, <1>3, <1>4 DEF ClientInv

\* One whose state stays as it is while nothing else changes.
LEMMA Unmoved ==
    ASSUME NEW c \in Clients, ClientInv(c), docs' = docs,
           job'[c] = job[c], copy'[c] = copy[c], queue'[c] = queue[c], pc'[c] = pc[c],
           overtaken'[c] = overtaken[c]
    PROVE  ClientInv(c)'
  BY DEF ClientInv, TypedAt, PlannedAt, CoveredAt, Migrating, Live, At

LEMMA FetchKeeps ==
    ASSUME IndInv, NEW c \in Clients, NEW j \in MayRun[c], Fetch(c, j)
    PROVE  IndInv'
<1> DEFINE planned == IF j.script # "toggle-stream" /\ j.check THEN {} ELSE Todo(j)
           missing == j.script = "toggle-stream" /\ j.doc \notin Live
<1>1. Rest /\ \A k \in Clients : ClientInv(k)
  BY Parts
<1>2. /\ docs' = docs
      /\ job' = [job EXCEPT ![c] = IF missing THEN NotAsked ELSE j]
      /\ queue' = [queue EXCEPT ![c] = planned]
      /\ copy' = [copy EXCEPT ![c] = [d \in At(planned) |-> docs[d]]]
      /\ pc' = [pc EXCEPT ![c] = IF missing THEN "failed"
                                ELSE IF planned = {} THEN "ok" ELSE "put"]
      /\ overtaken' = [overtaken EXCEPT ![c] = {}]
  BY DEF Fetch
<1>3. planned \subseteq DOMAIN DocOrder
  BY DEF Todo
<1>4. \A d \in At(planned) : d \in Live /\ Needs(j, d, docs[d])
  BY DEF Todo, At
<1>5. missing => planned = {}
  BY DEF Todo, Needs, Live
<1>6. Rest'
  BY <1>1, <1>2 DEF Rest, Shape
<1>7. \A k \in Clients \ {c} : ClientInv(k)'
  BY <1>1, <1>2, Unmoved DEF Rest, Shape
<1>8. ClientInv(c)'
  <2> HIDE DEF planned, missing
  <2>1. /\ job'[c] = IF missing THEN NotAsked ELSE j
        /\ queue'[c] = planned /\ copy'[c] = [d \in At(planned) |-> docs[d]]
        /\ pc'[c] = IF missing THEN "failed" ELSE IF planned = {} THEN "ok" ELSE "put"
        /\ overtaken'[c] = {}
    BY <1>1, <1>2 DEF Rest, Shape
  <2>2. TypedAt(c)'
    BY <2>1, <1>3, <1>5 DEF TypedAt, At
  <2>3. \A d \in At(planned) : d \in Docs /\ docs[d] \in DocOf(d)
    BY <1>1, <1>4 DEF Rest, Live
  <2>4. PlannedAt(c)'
    BY <1>2, <1>4, <2>1, <2>3 DEF PlannedAt
  <2>5. ASSUME Migrating(c)', ~missing
        PROVE  \A d \in Live : d \in At(planned) \/ ~Needs(j, d, docs[d])
    <3>1. planned = Todo(j)
      BY <2>1, <2>5 DEF planned, Migrating, Migrations
    <3>2. \A d \in Docs : \E i \in DOMAIN DocOrder : DocOrder[i] = d
      BY EditsAssumption
    <3>3. QED
      BY <3>1, <3>2 DEF Todo, At, Live
  <2>6. CoveredAt(c)'
    BY <1>2, <2>1, <2>5 DEF CoveredAt, Live
  <2>7. QED
    BY <2>2, <2>4, <2>6 DEF ClientInv
<1>9. QED
  BY <1>6, <1>7, <1>8, PartsNext

\* The policy a client PUTs, and what Fleet has of it then.
LEMMA Writes ==
    ASSUME Rest, NEW c \in Clients, ClientInv(c), pc[c] = "put", NEW i \in Turn(c),
           Overwrite(c, DocOrder[i])
    PROVE  LET d == DocOrder[i] IN
           /\ d \in Live /\ d \in At(queue[c]) /\ job[c] \in Jobs
           /\ docs' = [docs EXCEPT ![d] = Changed(job[c], d, copy[c][d])]
           /\ copy[c][d] \in DocOf(d) /\ Needs(job[c], d, copy[c][d])
           /\ docs'[d] \in DocOf(d)
           /\ d \notin overtaken[c] => docs[d] = copy[c][d]
<1> DEFINE d == DocOrder[i]
<1>1. d \in At(queue[c]) /\ d \in Live /\ d \in Docs
  BY DEF Turn, At, Overwrite, Live
<1>2. /\ copy[c][d] \in DocOf(d) /\ Needs(job[c], d, copy[c][d])
      /\ d \notin overtaken[c] => docs[d] = copy[c][d]
  BY <1>1 DEF ClientInv, PlannedAt
<1>3. job[c] \in Jobs
  BY EditsAssumption DEF ClientInv, PlannedAt
<1>4. docs' = [docs EXCEPT ![d] = Changed(job[c], d, copy[c][d])]
  BY DEF Overwrite
<1>5. docs'[d] \in DocOf(d)
  BY <1>1, <1>2, <1>3, <1>4, ChangedTyped DEF Rest
<1>6. QED
  BY <1>1, <1>2, <1>3, <1>4, <1>5

\* What a PUT leaves as it was, of Fleet's and of other clients.
LEMMA OverwriteKeeps ==
    ASSUME Rest, \A k \in Clients : ClientInv(k), NEW c \in Clients, pc[c] = "put",
           NEW i \in Turn(c), Overwrite(c, DocOrder[i]),
           \A k \in Clients \ {c} : /\ job'[k] = job[k] /\ copy'[k] = copy[k]
                                     /\ queue'[k] = queue[k] /\ pc'[k] = pc[k]
    PROVE  /\ DOMAIN docs' = Docs /\ \A d \in Docs : docs'[d] \in DocOf(d) \union {Gone}
           /\ overtaken' \in [Clients -> SUBSET Docs] /\ overtaken'[c] = overtaken[c]
           /\ \A k \in Clients \ {c} : ClientInv(k)'
<1> DEFINE d == DocOrder[i]
<1>1. /\ d \in Docs /\ docs'[d] \in DocOf(d)
      /\ docs' = [docs EXCEPT ![d] = Changed(job[c], d, copy[c][d])]
  BY Writes DEF Live
<1>2. DOMAIN docs' = Docs /\ \A e \in Docs : e # d => docs'[e] = docs[e]
  BY <1>1 DEF Rest
<1>3. overtaken' = [k \in Clients |->
                      IF k \in Clients \ {c} /\ pc[k] \in {"put", "ok"}
                      THEN overtaken[k] \union {d} ELSE overtaken[k]]
  BY DEF Overwrite, Overtake
<1>4. ASSUME NEW k \in Clients \ {c} PROVE ClientInv(k)'
  BY <1>1, <1>2, <1>3, Bystander
<1>5. QED
  BY <1>1, <1>2, <1>3, <1>4 DEF Rest

LEMMA PutKeeps ==
    ASSUME IndInv, NEW c \in Clients, Put(c)
    PROVE  IndInv'
<1>1. Rest /\ \A k \in Clients : ClientInv(k)
  BY Parts
<1>2. PICK i \in Turn(c) :
          pc[c] = "put" /\ Overwrite(c, DocOrder[i]) /\ Advance(c, i) /\ UNCHANGED job
  BY DEF Put
<1> DEFINE d == DocOrder[i]
           rest == queue[c] \ {i}
<1>3. /\ queue' = [queue EXCEPT ![c] = rest]
      /\ copy' = [copy EXCEPT ![c] = [e \in At(rest) |-> copy[c][e]]]
      /\ pc' = [pc EXCEPT ![c] = IF rest = {} THEN "ok" ELSE "put"]
  BY <1>2 DEF Advance
<1>4. /\ DOMAIN docs' = Docs /\ \A e \in Docs : docs'[e] \in DocOf(e) \union {Gone}
      /\ overtaken' \in [Clients -> SUBSET Docs] /\ overtaken'[c] = overtaken[c]
      /\ \A k \in Clients \ {c} : ClientInv(k)'
  <2>1. \A k \in Clients \ {c} : /\ job'[k] = job[k] /\ copy'[k] = copy[k]
                                  /\ queue'[k] = queue[k] /\ pc'[k] = pc[k]
    BY <1>1, <1>2, <1>3 DEF Rest, Shape
  <2>2. QED
    BY <1>1, <1>2, <2>1, OverwriteKeeps
<1>5. Rest'
  BY <1>1, <1>2, <1>3, <1>4 DEF Rest, Shape
<1>6. /\ d \in Live /\ job[c] \in Jobs
      /\ docs' = [docs EXCEPT ![d] = Changed(job[c], d, copy[c][d])]
      /\ copy[c][d] \in DocOf(d) /\ Needs(job[c], d, copy[c][d])
  BY <1>1, <1>2, Writes
<1>7. ClientInv(c)'
  <2>1. /\ queue'[c] = rest /\ copy'[c] = [e \in At(rest) |-> copy[c][e]]
        /\ pc'[c] = IF rest = {} THEN "ok" ELSE "put"
        /\ job'[c] = job[c] /\ overtaken'[c] = overtaken[c]
    BY <1>1, <1>2, <1>3, <1>4 DEF Rest, Shape
  <2>2. TypedAt(c)
    BY <1>1 DEF ClientInv
  <2>3. TypedAt(c)'
    BY <2>1, <2>2 DEF TypedAt, At
  <2>4. i \in queue[c] /\ At(rest) = At(queue[c]) \ {d} /\ At(rest) \subseteq Docs
    <3>1. DOMAIN DocOrder = 1..Len(DocOrder) /\ \A k \in DOMAIN DocOrder : DocOrder[k] \in Docs
      BY EditsAssumption
    <3>2. i \in queue[c] /\ queue[c] \subseteq DOMAIN DocOrder
      BY <1>2, <2>2 DEF Turn, TypedAt
    <3>3. \A k \in DOMAIN DocOrder : DocOrder[k] = DocOrder[i] => k = i
      BY <3>1, <3>2, EditsAssumption
    <3>4. QED
      BY <3>1, <3>2, <3>3 DEF At
  <2>5. \A e \in Docs : e # d => docs'[e] = docs[e]
    BY <1>1, <1>6 DEF Rest
  <2>6. PlannedAt(c)
    BY <1>1 DEF ClientInv
  <2>7. PlannedAt(c)'
    BY <1>2, <2>1, <2>4, <2>5, <2>6 DEF PlannedAt
  <2>8. Migrating(c) => ~Needs(job[c], d, docs'[d])
    <3>1. docs'[d] = Changed(job[c], d, copy[c][d])
      BY <1>1, <1>6 DEF Rest, Live
    <3>2. QED
      BY <1>6, <3>1, ChangedDone DEF Migrating, Live
  <2>9. CoveredAt(c)
    BY <1>1 DEF ClientInv
  <2>10. Live' \subseteq Live
    BY <1>6, <2>5 DEF Live
  <2>11. CoveredAt(c)'
    <3>1. SUFFICES ASSUME Migrating(c), NEW e \in Live'
                   PROVE  e \in overtaken[c] \union At(rest) \/ ~Needs(job[c], e, docs'[e])
      BY <2>1 DEF CoveredAt, Migrating
    <3>2. CASE e = d
      BY <2>8, <3>1, <3>2
    <3>3. CASE e # d
      BY <1>2, <2>4, <2>5, <2>9, <2>10, <3>1, <3>3 DEF CoveredAt, Live
    <3>4. QED
      BY <3>2, <3>3
  <2>12. QED
    BY <2>3, <2>7, <2>11 DEF ClientInv
<1>8. QED
  BY <1>4, <1>5, <1>7, PartsNext

\* One that has given up holds nothing.
LEMMA Abandoned ==
    ASSUME Rest, NEW c \in Clients, Abandon(c)
    PROVE  ClientInv(c)'
<1>1. job'[c] = NotAsked /\ queue'[c] = {} /\ copy'[c] = <<>> /\ pc'[c] = "failed"
  BY DEF Abandon, Rest, Shape
<1>2. QED
  BY <1>1 DEF ClientInv, TypedAt, PlannedAt, CoveredAt, At

LEMMA AbandonLeaves ==
    ASSUME Rest, NEW c \in Clients, Abandon(c)
    PROVE  /\ Shape' /\ pc' \in [Clients -> {"idle", "put", "ok", "failed"}]
           /\ \A k \in Clients \ {c} : /\ job'[k] = job[k] /\ copy'[k] = copy[k]
                                        /\ queue'[k] = queue[k] /\ pc'[k] = pc[k]
  BY DEF Abandon, Rest, Shape

LEMMA FailKeeps ==
    ASSUME IndInv, NEW c \in Clients, Fail(c) \/ FailAfterPut(c)
    PROVE  IndInv'
<1>1. Rest /\ \A k \in Clients : ClientInv(k)
  BY Parts
<1>2. Abandon(c)
  BY DEF Fail, FailAfterPut
<1>3. CASE Fail(c)
  <2>1. docs' = docs /\ overtaken' = overtaken
    BY <1>3 DEF Fail
  <2>2. Rest'
    BY <1>1, <1>2, <2>1, AbandonLeaves DEF Rest
  <2>3. \A k \in Clients \ {c} : ClientInv(k)'
    BY <1>1, <1>2, <2>1, AbandonLeaves, Unmoved
  <2>4. QED
    BY <1>1, <1>2, <2>2, <2>3, Abandoned, PartsNext
<1>4. CASE FailAfterPut(c)
  <2>1. PICK i \in Turn(c) : pc[c] = "put" /\ Overwrite(c, DocOrder[i])
    BY <1>4 DEF FailAfterPut
  <2>2. /\ DOMAIN docs' = Docs /\ \A e \in Docs : docs'[e] \in DocOf(e) \union {Gone}
        /\ overtaken' \in [Clients -> SUBSET Docs]
        /\ \A k \in Clients \ {c} : ClientInv(k)'
    BY <1>1, <1>2, <2>1, AbandonLeaves, OverwriteKeeps
  <2>3. Rest'
    BY <1>1, <1>2, <2>2, AbandonLeaves DEF Rest
  <2>4. QED
    BY <1>1, <1>2, <2>2, <2>3, Abandoned, PartsNext
<1>5. QED
  BY <1>3, <1>4

LEMMA UserKeeps ==
    ASSUME IndInv, NEW d \in Docs, UserEdit(d) \/ UserDelete(d)
    PROVE  IndInv'
<1>1. Rest /\ \A k \in Clients : ClientInv(k)
  BY Parts
<1>2. PICK x \in DocOf(d) \union {Gone} : docs' = [docs EXCEPT ![d] = x]
  BY DEF UserEdit, UserDelete
<1>3. /\ UNCHANGED <<pc, job, copy, queue>>
      /\ overtaken' = [k \in Clients |-> IF k \in Clients /\ pc[k] \in {"put", "ok"}
                                         THEN overtaken[k] \union {d} ELSE overtaken[k]]
  BY DEF UserEdit, UserDelete, Overtake
<1>4. Rest'
  BY <1>1, <1>2, <1>3 DEF Rest, Shape
<1>5. \A e \in Docs : e # d => docs'[e] = docs[e]
  BY <1>1, <1>2 DEF Rest
<1>6. ASSUME NEW k \in Clients PROVE ClientInv(k)'
  BY <1>1, <1>3, <1>5, Bystander
<1>7. QED
  BY <1>4, <1>6, PartsNext

LEMMA IndInvHolds == Spec => []IndInv
<1>1. Init => IndInv
  <2> SUFFICES ASSUME Init PROVE IndInv
    OBVIOUS
  <2>1. DOMAIN docs = Docs /\ \A d \in Docs : docs[d] \in DocOf(d) \union {Gone}
    BY DEF Init
  <2>2. Rest
    BY <2>1 DEF Init, Rest, Shape
  <2>3. \A c \in Clients : ClientInv(c)
    <3>1. ASSUME NEW c \in Clients
          PROVE  pc[c] = "idle" /\ job[c] = NotAsked /\ queue[c] = {} /\ copy[c] = <<>>
      BY DEF Init
    <3>2. ASSUME NEW c \in Clients PROVE TypedAt(c)
      BY <3>1 DEF TypedAt, At
    <3>3. ASSUME NEW c \in Clients PROVE PlannedAt(c) /\ CoveredAt(c)
      BY <3>1 DEF PlannedAt, CoveredAt
    <3>4. QED
      BY <3>2, <3>3 DEF ClientInv
  <2>4. QED
    BY <2>2, <2>3, Parts
<1>2. IndInv /\ [Next]_vars => IndInv'
  <2> SUFFICES ASSUME IndInv, [Next]_vars PROVE IndInv'
    OBVIOUS
  <2>1. CASE \E c \in Clients : ClientStep(c)
    BY <2>1, FetchKeeps, PutKeeps, FailKeeps DEF ClientStep
  <2>2. CASE \E d \in Docs : UserEdit(d) \/ UserDelete(d)
    BY <2>2, UserKeeps
  <2>3. CASE UNCHANGED vars
    BY <2>3, Parts, PartsNext, Unmoved DEF vars, Rest, Shape
  <2>4. QED
    BY <2>1, <2>2, <2>3 DEF Next
<1>3. QED
  BY <1>1, <1>2, PTL DEF Spec

\* Whatever scripts overlap and fail, and whatever users edit meanwhile, each policy stays
\* one of its package, and each client has a copy of exactly what it has yet to write.
THEOREM TypeCorrect == Spec => []TypeOK
  BY IndInvHolds, PTL DEF IndInv

\* A migration that exits 0 has left nothing to do, but for what others changed since its
\* GET, however many policies it wrote and whoever else was at work.
THEOREM DoneIsMigrated == Spec => []DoneMeansMigrated
<1>1. IndInv => DoneMeansMigrated
  <2> SUFFICES ASSUME IndInv, NEW c \in Clients, pc[c] = "ok", Migrating(c),
                      NEW d \in Live \ overtaken[c]
               PROVE  ~Needs(job[c], d, docs[d])
    BY DEF DoneMeansMigrated, Migrating
  <2>1. At(queue[c]) = {}
    BY DEF IndInv, TypeOK, At
  <2>2. QED
    BY <2>1 DEF IndInv, Covered, CoveredAt
<1>2. QED
  BY <1>1, IndInvHolds, PTL

\* No PUT changes any setting that its script does not own in a policy nobody has changed
\* since the GET, though it writes the whole policy.
THEOREM SettingsKept == Spec => KeepsOthersSettings
<1>1. IndInv /\ [Next]_vars =>
        [\A c \in Clients, d \in Docs :
            (Put(c) \/ FailAfterPut(c)) /\ d \notin overtaken[c] => KeepsTheRest(c, d)]_vars
  <2> SUFFICES ASSUME IndInv, NEW c \in Clients, NEW d \in Docs, Put(c) \/ FailAfterPut(c),
                      d \notin overtaken[c], docs[d] # docs'[d],
                      NEW v \in Vars \ Own(job[c], docs[d])
               PROVE  docs'[d][v] = docs[d][v]
    BY DEF KeepsTheRest
  <2>1. Rest /\ ClientInv(c)
    BY Parts
  <2>2. PICK i \in Turn(c) : pc[c] = "put" /\ Overwrite(c, DocOrder[i])
    BY DEF Put, FailAfterPut
  <2>3. d = DocOrder[i]
    BY <2>1, <2>2 DEF Overwrite, Rest
  <2>4. /\ job[c] \in Jobs /\ docs[d] \in DocOf(d) /\ Needs(job[c], d, docs[d])
        /\ docs'[d] = Changed(job[c], d, docs[d])
    BY <2>1, <2>2, <2>3, Writes DEF Rest
  <2>5. QED
    BY <2>4, ChangedKeeps
<1>2. QED
  BY <1>1, IndInvHolds, PTL DEF Spec, KeepsOthersSettings
=============================================================================
