-------------------------- MODULE CefRescueProofs --------------------------
(***************************************************************************)
(* Proofs about CefRescue, for any lines, any number of overlapping runs   *)
(* and any number of rollovers.                                            *)
(***************************************************************************)
EXTENDS CefRescue, TLAPS

LEMMA InitType == Init => TypeOK
BY RescueAssumption DEF Init, TypeOK, Modes

LEMMA NextType == TypeOK /\ [Next]_vars => TypeOK'
<1> SUFFICES ASSUME TypeOK, [Next]_vars
             PROVE  TypeOK'
  OBVIOUS
<1> USE RescueAssumption DEF TypeOK
<1>1. ASSUME NEW r \in Runs, ScriptStep(r)
      PROVE  TypeOK'
  <2>1. ASSUME NEW m \in Modes, Start(r, m)
        PROVE  TypeOK'
    BY <2>1 DEF Start
  <2>2. CASE BeginReindex(r)
    BY <2>2 DEF BeginReindex
  <2>3. CASE ReindexEnds(r)
    BY <2>3 DEF ReindexEnds, End
  <2>4. CASE ReindexFails(r)
    BY <2>4 DEF ReindexFails, End
  <2>5. CASE BeginPurge(r)
    BY <2>5 DEF BeginPurge
  <2>6. CASE PurgeEnds(r) \/ PurgeFails(r)
    BY <2>6 DEF PurgeEnds, PurgeFails, End
  <2>7. CASE Kill(r)
    BY <2>7 DEF Kill, End
  <2>8. ASSUME NEW e \in Events, ReindexOne(r, e)
        PROVE  TypeOK'
    <3>1. CASE UNCHANGED <<copies, inWrite>>
      BY <2>8, <3>1 DEF ReindexOne
    <3>2. CASE /\ copies' = [copies EXCEPT ![e] = @ + 1]
               /\ inWrite' = [inWrite EXCEPT ![e] = TRUE]
      <4>1. copies' \in [Events -> Nat] /\ inWrite' \in [Events -> BOOLEAN]
        BY <3>2
      <4> QED
        BY <2>8, <4>1 DEF ReindexOne
    <3> QED
      BY <2>8, <3>1, <3>2 DEF ReindexOne
  <2>9. ASSUME NEW e \in Events, PurgeOne(r, e)
        PROVE  TypeOK'
    BY <2>9 DEF PurgeOne
  <2> QED
    BY <1>1, <2>1, <2>2, <2>3, <2>4, <2>5, <2>6, <2>7, <2>8, <2>9 DEF ScriptStep
<1>2. ASSUME NEW e \in Events, Arrive(e)
      PROVE  TypeOK'
  BY <1>2 DEF Arrive
<1>3. CASE Rollover
  BY <1>3 DEF Rollover
<1>4. CASE UNCHANGED vars
  BY <1>4 DEF vars
<1> QED
  BY <1>1, <1>2, <1>3, <1>4 DEF Next

\* Every variable keeps its type, and a run that has ended has no work of its own left
\* in Elasticsearch.
THEOREM TypeCorrect == Spec => []TypeOK
BY InitType, NextType, PTL DEF Spec

-----------------------------------------------------------------------------
(* Copies and rollovers. *)

\* The present write index accounts for one copy of a line, if it has it, and each
\* index before it for one.
CopiesCounted ==
    \A e \in Events : /\ copies[e] <= rollovers + 1
                      /\ ~inWrite[e] => copies[e] <= rollovers

LEMMA NextCopies == TypeOK /\ CopiesCounted /\ [Next]_vars => CopiesCounted'
<1> SUFFICES ASSUME TypeOK, CopiesCounted, [Next]_vars
             PROVE  CopiesCounted'
  OBVIOUS
<1>1. CASE UNCHANGED <<copies, inWrite, rollovers>>
  BY <1>1 DEF CopiesCounted
<1>2. ASSUME NEW r \in Runs, NEW e \in Events, ReindexOne(r, e)
      PROVE  CopiesCounted'
  BY <1>2 DEF ReindexOne, TypeOK, CopiesCounted
<1>3. CASE Rollover
  BY <1>3 DEF Rollover, TypeOK, CopiesCounted
<1> QED
  BY <1>1, <1>2, <1>3
  DEF Next, ScriptStep, Start, BeginReindex, ReindexEnds, ReindexFails, BeginPurge,
      PurgeEnds, PurgeFails, Kill, PurgeOne, Arrive, vars

\* op_type=create makes re-running safe within one write index: overlapping runs, runs
\* cut short and runs repeated leave at most one copy of a line in each.
THEOREM CopiesBounded == Spec => []OneCopyPerIndex
<1>1. Init => CopiesCounted
  <2> SUFFICES ASSUME Init, NEW e \in Events
               PROVE  copies[e] <= rollovers + 1 /\ copies[e] <= rollovers
    BY DEF CopiesCounted
  <2>1. copies[e] = 0 /\ rollovers = 0
    BY DEF Init
  <2> QED
    BY <2>1
<1>2. TypeOK /\ CopiesCounted => OneCopyPerIndex
  BY DEF CopiesCounted, OneCopyPerIndex
<1> QED
  BY <1>1, <1>2, InitType, NextType, NextCopies, PTL DEF Spec

-----------------------------------------------------------------------------
(* Nothing is lost where nothing arrives while a run purges. *)

\* What a purging run has read, rescued and not yet deleted: every document there is,
\* is still to be reindexed or rescued, until the run knows that all are rescued.
PurgeCovered ==
    \A r \in Runs :
        /\ pc[r] = "reindexed" => mode[r] = "purge" /\ misfiled \subseteq Rescued
        /\ pc[r] = "reindex" /\ mode[r] = "purge" =>
              misfiled \subseteq todo[r] \union Rescued
        /\ pc[r] = "purge" => todo[r] \subseteq Rescued

\* What collides on its _id has been rescued.
CollidesRescued == \A e \in Events : inWrite[e] => e \in Rescued

Safe == TypeOK /\ CollidesRescued /\ PurgeCovered /\ NothingLost

LEMMA NextCollides == TypeOK /\ CollidesRescued /\ [Next]_vars => CollidesRescued'
<1> SUFFICES ASSUME TypeOK, CollidesRescued, [Next]_vars
             PROVE  CollidesRescued'
  OBVIOUS
<1>1. CASE UNCHANGED <<copies, inWrite>>
  BY <1>1 DEF CollidesRescued, Rescued
<1>2. ASSUME NEW r \in Runs, NEW e \in Events, ReindexOne(r, e)
      PROVE  CollidesRescued'
  BY <1>2 DEF ReindexOne, TypeOK, CollidesRescued, Rescued
<1>3. CASE Rollover
  BY <1>3 DEF Rollover, CollidesRescued
<1> QED
  BY <1>1, <1>2, <1>3
  DEF Next, ScriptStep, Start, BeginReindex, ReindexEnds, ReindexFails, BeginPurge,
      PurgeEnds, PurgeFails, Kill, PurgeOne, Arrive, vars

LEMMA NextSafe == Safe /\ [Next /\ Quiet]_vars => Safe'
<1> SUFFICES ASSUME Safe, [Next /\ Quiet]_vars
             PROVE  PurgeCovered' /\ NothingLost'
  BY NextType, NextCollides DEF Safe
<1> USE DEF Safe
<1>1. ASSUME NEW r \in Runs, ScriptStep(r)
      PROVE  PurgeCovered' /\ NothingLost'
  <2>1. CASE (\E m \in Modes : Start(r, m)) \/ BeginReindex(r)
    <3>1. UNCHANGED <<wire, misfiled, copies>>
      BY <2>1 DEF Start, BeginReindex
    <3> QED
      BY <2>1, <3>1
      DEF Start, BeginReindex, TypeOK, PurgeCovered, NothingLost, Rescued
  <2>2. CASE ReindexEnds(r)
    BY <2>2 DEF ReindexEnds, End, TypeOK, PurgeCovered, NothingLost, Rescued
  <2>3. CASE ReindexFails(r) \/ PurgeEnds(r) \/ PurgeFails(r) \/ Kill(r)
    BY <2>3 DEF ReindexFails, PurgeEnds, PurgeFails, Kill, End, TypeOK, PurgeCovered, NothingLost, Rescued
  <2>4. CASE BeginPurge(r)
    BY <2>4 DEF BeginPurge, TypeOK, PurgeCovered, NothingLost, Rescued
  <2>5. ASSUME NEW e \in Events, ReindexOne(r, e)
        PROVE  PurgeCovered' /\ NothingLost'
    <3>1. Rescued \subseteq Rescued' /\ e \in Rescued'
      BY <2>5 DEF ReindexOne, TypeOK, CollidesRescued, Rescued
    <3> QED
      BY <2>5, <3>1 DEF ReindexOne, TypeOK, PurgeCovered, NothingLost
  <2>6. ASSUME NEW e \in Events, PurgeOne(r, e)
        PROVE  PurgeCovered' /\ NothingLost'
    BY <2>6 DEF PurgeOne, TypeOK, PurgeCovered, NothingLost, Rescued
  <2> QED
    BY <1>1, <2>1, <2>2, <2>3, <2>4, <2>5, <2>6 DEF ScriptStep
<1>2. ASSUME NEW e \in Events, Arrive(e), Quiet
      PROVE  PurgeCovered' /\ NothingLost'
  BY <1>2 DEF Arrive, Quiet, TypeOK, PurgeCovered, NothingLost, Rescued
<1>3. CASE Rollover
  BY <1>3 DEF Rollover, PurgeCovered, NothingLost, Rescued
<1>4. CASE UNCHANGED vars
  BY <1>4 DEF vars, PurgeCovered, NothingLost, Rescued
<1> QED
  BY <1>1, <1>2, <1>3, <1>4 DEF Next

\* A line that was received is never gone: no interleaving of overlapping, failing and
\* dying runs deletes an original before it is rescued, if nothing arrives between the
\* two readings of the query by a run that purges.
THEOREM NoLineLost == QuietSpec => []NothingLost
<1>1. Init => Safe
  BY InitType DEF Init, Safe, CollidesRescued, PurgeCovered, NothingLost
<1>2. Safe => NothingLost
  BY DEF Safe
<1> QED
  BY <1>1, <1>2, NextSafe, PTL DEF QuietSpec
=============================================================================
