----------------------------- MODULE CefRescue -----------------------------
(***************************************************************************)
(* pipelines/migrate-unifi-cef.sh: UniFi CEF events that were sent to the  *)
(* iptables port lie unparsed in logs-iptables.log-*.  The script counts   *)
(* them, has Elasticsearch reindex them into the data stream logs-cef.log  *)
(* and, with --purge, has it delete the originals.                         *)
(*                                                                         *)
(* _reindex and _delete_by_query each work on what their query matches     *)
(* when they begin, one document after the other, and go on in             *)
(* Elasticsearch when the script that waits for them is killed.  Events    *)
(* may go on arriving at the wrong port all the while.                     *)
(***************************************************************************)
EXTENDS Naturals

CONSTANTS
    Events,       \* the CEF lines that may be sent to the iptables port
    Runs,         \* invocations of the script that can overlap
    MaxRollovers  \* bound: how often logs-cef.log rolls over to a new index

ASSUME RescueAssumption == MaxRollovers \in Nat

VARIABLES
    wire,       \* the lines not received yet
    misfiled,   \* documents of logs-iptables.log-* the script's query matches
    copies,     \* how many rescued copies of each line logs-cef.log holds
    inWrite,    \* whether its present write index holds one, under the same _id
    rollovers,  \* how often logs-cef.log has rolled over
    pc,         \* where each run is
    mode,       \* what each was asked to do
    waiting,    \* whether its script is still there
    todo        \* the documents its _reindex or _delete_by_query has left

vars == <<wire, misfiled, copies, inWrite, rollovers, pc, mode, waiting, todo>>

Modes == {"rescue", "purge"}

TypeOK ==
    /\ wire \subseteq Events
    /\ misfiled \subseteq Events
    /\ copies \in [Events -> Nat]
    /\ inWrite \in [Events -> BOOLEAN]
    /\ rollovers \in 0..MaxRollovers
    /\ pc \in [Runs -> {"ended", "counted", "reindex", "reindexed", "purge"}]
    /\ mode \in [Runs -> Modes]
    /\ waiting \in [Runs -> BOOLEAN]
    /\ todo \in [Runs -> SUBSET Events]
    /\ \A r \in Runs : pc[r] = "ended" => todo[r] = {} /\ ~waiting[r]

Init ==
    /\ wire = Events
    /\ misfiled = {}
    /\ copies = [e \in Events |-> 0]
    /\ inWrite = [e \in Events |-> FALSE]
    /\ rollovers = 0
    /\ pc = [r \in Runs |-> "ended"]
    /\ mode = [r \in Runs |-> "rescue"]
    /\ waiting = [r \in Runs |-> FALSE]
    /\ todo = [r \in Runs |-> {}]

Rescued == {e \in Events : copies[e] > 0}

-----------------------------------------------------------------------------
(* The script. *)

End_KeepsTodo(r) ==
    /\ pc' = [pc EXCEPT ![r] = "ended"]
    /\ waiting' = [waiting EXCEPT ![r] = FALSE]
    /\ UNCHANGED todo

End(r) ==
    /\ pc' = [pc EXCEPT ![r] = "ended"]
    /\ todo' = [todo EXCEPT ![r] = {}]
    /\ waiting' = [waiting EXCEPT ![r] = FALSE]

\* The count.  With nothing to do, or with --check, the script ends here instead.
Start(r, m) ==
    /\ pc[r] = "ended"
    /\ misfiled # {}
    /\ pc' = [pc EXCEPT ![r] = "counted"]
    /\ mode' = [mode EXCEPT ![r] = m]
    /\ waiting' = [waiting EXCEPT ![r] = TRUE]
    /\ UNCHANGED <<wire, misfiled, copies, inWrite, rollovers, todo>>

\* POST _reindex, with its own reading of the query.
BeginReindex(r) ==
    /\ pc[r] = "counted"
    /\ pc' = [pc EXCEPT ![r] = "reindex"]
    /\ todo' = [todo EXCEPT ![r] = misfiled]
    /\ UNCHANGED <<wire, misfiled, copies, inWrite, rollovers, mode, waiting>>

ReindexOne_Overwrite(r, e) ==
    /\ pc[r] = "reindex" /\ e \in todo[r]
    /\ copies' = [copies EXCEPT ![e] = @ + 1]
    /\ inWrite' = [inWrite EXCEPT ![e] = TRUE]
    /\ todo' = [todo EXCEPT ![r] = @ \ {e}]
    /\ UNCHANGED <<wire, misfiled, rollovers, pc, mode, waiting>>

ReindexOne_AbortOnConflict(r, e) ==
    /\ pc[r] = "reindex" /\ e \in todo[r]
    /\ ~inWrite[e]
    /\ copies' = [copies EXCEPT ![e] = @ + 1]
    /\ inWrite' = [inWrite EXCEPT ![e] = TRUE]
    /\ todo' = [todo EXCEPT ![r] = @ \ {e}]
    /\ UNCHANGED <<wire, misfiled, rollovers, pc, mode, waiting>>

\* op_type=create refuses a document whose _id the write index of the data stream
\* already has, and conflicts=proceed goes on past it.
ReindexOne(r, e) ==
    /\ pc[r] = "reindex" /\ e \in todo[r]
    /\ \/ inWrite[e] /\ UNCHANGED <<copies, inWrite>>
       \/ /\ ~inWrite[e]
          /\ copies' = [copies EXCEPT ![e] = @ + 1]
          /\ inWrite' = [inWrite EXCEPT ![e] = TRUE]
    /\ todo' = [todo EXCEPT ![r] = @ \ {e}]
    /\ UNCHANGED <<wire, misfiled, rollovers, pc, mode, waiting>>

ReindexFails_GoesOn(r) ==
    /\ pc[r] = "reindex"
    /\ pc' = [pc EXCEPT ![r] = "reindexed"]
    /\ todo' = [todo EXCEPT ![r] = {}]
    /\ UNCHANGED <<wire, misfiled, copies, inWrite, rollovers, mode, waiting>>

\* A document is rejected, or Elasticsearch fails: the reindex stops part-way, and the
\* script exits 1 and leaves the originals in place.
ReindexFails(r) ==
    /\ pc[r] = "reindex"
    /\ End(r)
    /\ UNCHANGED <<wire, misfiled, copies, inWrite, rollovers, mode>>

\* The answer to _reindex; only a script that is still there acts on it.
ReindexEnds(r) ==
    /\ pc[r] = "reindex" /\ todo[r] = {}
    /\ \/ /\ waiting[r] /\ mode[r] = "purge"
          /\ pc' = [pc EXCEPT ![r] = "reindexed"]
          /\ UNCHANGED <<todo, waiting>>
       \/ ~(waiting[r] /\ mode[r] = "purge") /\ End(r)
    /\ UNCHANGED <<wire, misfiled, copies, inWrite, rollovers, mode>>

\* POST _delete_by_query, which reads the query again.
BeginPurge(r) ==
    /\ pc[r] = "reindexed"
    /\ pc' = [pc EXCEPT ![r] = "purge"]
    /\ todo' = [todo EXCEPT ![r] = misfiled]
    /\ UNCHANGED <<wire, misfiled, copies, inWrite, rollovers, mode, waiting>>

PurgeOne(r, e) ==
    /\ pc[r] = "purge" /\ e \in todo[r]
    /\ misfiled' = misfiled \ {e}
    /\ todo' = [todo EXCEPT ![r] = @ \ {e}]
    /\ UNCHANGED <<wire, copies, inWrite, rollovers, pc, mode, waiting>>

\* The answer to _delete_by_query, or its end where nobody waits for it.
PurgeEnds(r) ==
    /\ pc[r] = "purge" /\ todo[r] = {}
    /\ End(r)
    /\ UNCHANGED <<wire, misfiled, copies, inWrite, rollovers, mode>>

\* It stops part-way.
PurgeFails(r) ==
    /\ pc[r] = "purge" /\ todo[r] # {}
    /\ End(r)
    /\ UNCHANGED <<wire, misfiled, copies, inWrite, rollovers, mode>>

\* The script is killed. What Elasticsearch is doing for it goes on.
Kill(r) ==
    /\ waiting[r]
    /\ \/ pc[r] \in {"counted", "reindexed"} /\ End(r)
       \/ /\ pc[r] \in {"reindex", "purge"}
          /\ waiting' = [waiting EXCEPT ![r] = FALSE]
          /\ UNCHANGED <<pc, todo>>
    /\ UNCHANGED <<wire, misfiled, copies, inWrite, rollovers, mode>>

-----------------------------------------------------------------------------
(* What goes on around it. *)

\* A CEF line reaches the iptables port: it fails the iptables grok, and the package
\* indexes it with event.kind pipeline_error and the raw line.
Arrive(e) ==
    /\ e \in wire
    /\ wire' = wire \ {e}
    /\ misfiled' = misfiled \union {e}
    /\ UNCHANGED <<copies, inWrite, rollovers, pc, mode, waiting, todo>>

\* ILM gives logs-cef.log a new write index.
Rollover ==
    /\ rollovers < MaxRollovers
    /\ rollovers' = rollovers + 1
    /\ inWrite' = [e \in Events |-> FALSE]
    /\ UNCHANGED <<wire, misfiled, copies, pc, mode, waiting, todo>>

ScriptStep(r) ==
    \/ \E m \in Modes : Start(r, m)
    \/ BeginReindex(r) \/ ReindexEnds(r) \/ ReindexFails(r)
    \/ BeginPurge(r) \/ PurgeEnds(r) \/ PurgeFails(r) \/ Kill(r)
    \/ \E e \in Events : ReindexOne(r, e) \/ PurgeOne(r, e)

Next ==
    \/ \E r \in Runs : ScriptStep(r)
    \/ \E e \in Events : Arrive(e)
    \/ Rollover

Spec == Init /\ [][Next]_vars

\* Nothing arrives at the wrong port between the two readings of the query by a run
\* that purges: "Fix the port in the UniFi UI first" (migrate-unifi-cef.sh:19), and
\* let what the agent still holds in its queue drain.
Quiet ==
    misfiled' \subseteq misfiled
        \/ \A r \in Runs : mode[r] = "purge" => pc[r] \notin {"reindex", "reindexed"}

QuietSpec == Init /\ [][Next /\ Quiet]_vars

\* Each run goes on while it can, or the script is started again with --purge when it
\* has something to do, and from some time on nothing fails.
Progress(r) ==
    \/ Start(r, "purge") \/ BeginReindex(r) \/ ReindexEnds(r) \/ BeginPurge(r) \/ PurgeEnds(r)
    \/ \E e \in Events : ReindexOne(r, e) \/ PurgeOne(r, e)

FairSpec ==
    /\ QuietSpec
    /\ \A r \in Runs : WF_vars(Progress(r))
    /\ <>[][\A r \in Runs : ~(ReindexFails(r) \/ PurgeFails(r) \/ Kill(r) \/ Start(r, "rescue"))]_vars

-----------------------------------------------------------------------------
(* Properties. *)

\* "Nothing is lost" (migrate-unifi-cef.sh:11) and "--purge: rescue, then delete the
\* originals" (line 17): every line that was received is there, as it arrived or
\* rescued, however runs overlap, fail and die.  It takes that nothing arrives while
\* a run purges: QuietSpec.
NothingLost == Events \ wire \subseteq misfiled \union Rescued

\* Re-running never gives one index of the data stream two copies of a line, though
\* runs overlap: "op_type=create means the documents already moved will not be
\* duplicated" (migrate-unifi-cef.sh:126).  A rollover between two runs lets in one
\* more copy, which is all that the option can promise.
OneCopyPerIndex == \A e \in Events : copies[e] <= rollovers + 1

\* Runs that are repeated until there is nothing to do rescue every line in the end,
\* also where earlier runs were cut short and have moved some of the lines already.
EveryLineRescued == \A e \in Events : e \in misfiled ~> e \in Rescued /\ e \notin misfiled
=============================================================================
