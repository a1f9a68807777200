----------------------------- MODULE Dashboards -----------------------------
(***************************************************************************)
(* Runs of stack/gen-dashboards.py over the directory that Grafana         *)
(* rescans, by bootstrap.sh and by hand: each asks Fleet and Elasticsearch *)
(* once, then writes file after file, then prunes.  Runs may overlap and   *)
(* be killed; users save and delete files of their own.                    *)
(***************************************************************************)
EXTENDS Integers, Sequences, FiniteSets, FiniteSetsExt

CONSTANTS
    Runs,      \* invocations, each of which may be repeated
    Files,     \* the names of dashboards in the directory, without .json
    UserFiles, \* those that users save and delete
    Bodies,    \* what generated dashboards hold
    Plans,     \* the lists of boards main() may come to
    MaxStarts  \* a bound on how often runs are started

Absent == [is |-> "absent"]
Torn   == [is |-> "torn"]   \* empty, or half written: no JSON
Hand   == [is |-> "hand"]   \* a dashboard without the tag "generated"

\* The network overview is always among the boards.
ASSUME PlansAssumption ==
    /\ Plans \subseteq Seq([file : Files, body : Bodies]) \ {<<>>}
    /\ {Absent, Torn, Hand} \intersect Bodies = {}
    /\ UserFiles \subseteq Files /\ MaxStarts \in Nat

FilesOf(plan) == {plan[i].file : i \in DOMAIN plan}

VARIABLES
    shown,      \* <file>.json, which Grafana reads: a body, Absent, Torn or Hand
    tmp,        \* <file>.json.tmp
    pc,         \* where each run is
    boards,     \* what it has come to write
    n,          \* the board it is at
    fd,         \* the name by which the file it has opened goes now
    left,       \* the files prune() has yet to look at
    victim,     \* the one it is about to delete
    started,    \* how often runs have been started
    overtaken,  \* ghost: files a user has saved since the run looked at them
    alone,      \* ghost: no user or other run has come between since it began
    fresh,      \* ghost: so far, and the directory was as the run wants it from the start
    overlapped  \* ghost: two runs have been active at once

dirVars   == <<shown, tmp>>
ghostVars == <<overtaken, alone, fresh, overlapped>>
vars == <<dirVars, pc, boards, n, fd, left, victim, started, ghostVars>>

Ended == {"idle", "ok", "kept", "dead"}
Busy  == {"look", "open", "write", "rename", "list", "prune", "remove"}
Active(r) == pc[r] \notin Ended

\* is_generated(), of what a file holds.
Generated(c) == c \notin {Absent, Torn, Hand}

File(r) == boards[r][n[r]].file
Body(r) == boards[r][n[r]].body

\* What is to be in f in the end: the last board there is for it.
Final(plan, f) == plan[Max({i \in DOMAIN plan : plan[i].file = f})].body

Written(plan) == \A f \in FilesOf(plan) : shown[f] \in {Hand, Final(plan, f)}
Pruned(plan)  == \A f \in Files \ FilesOf(plan) : ~Generated(shown[f])

Init ==
    /\ shown = [f \in Files |-> Absent] /\ tmp = [f \in Files |-> Absent]
    /\ pc = [r \in Runs |-> "idle"]
    /\ boards = [r \in Runs |-> <<>>] /\ n = [r \in Runs |-> 1]
    /\ fd = [r \in Runs |-> "none"]
    /\ left = [r \in Runs |-> {}] /\ victim = [r \in Runs |-> "none"]
    /\ overtaken = [r \in Runs |-> {}] /\ alone = [r \in Runs |-> FALSE]
    /\ fresh = [r \in Runs |-> FALSE] /\ started = 0 /\ overlapped = FALSE

\* main() up to the list of boards.
Discover(r, plan) ==
    LET others == {s \in Runs \ {r} : Active(s)} IN
    /\ ~Active(r) /\ started < MaxStarts /\ started' = started + 1
    /\ pc' = [pc EXCEPT ![r] = "look"]
    /\ boards' = [boards EXCEPT ![r] = plan]
    /\ n' = [n EXCEPT ![r] = 1]
    /\ overtaken' = [overtaken EXCEPT ![r] = {}]
    /\ alone' = [s \in Runs |-> s = r /\ others = {}]
    /\ fresh' = [s \in Runs |-> s = r /\ others = {} /\ Written(plan) /\ Pruned(plan)]
    /\ overlapped' = (overlapped \/ others # {})
    /\ UNCHANGED <<dirVars, fd, left, victim>>

NextBoard_OffByOne(r) ==
    IF n[r] <= Len(boards[r])
    THEN pc' = [pc EXCEPT ![r] = "look"] /\ n' = [n EXCEPT ![r] = n[r] + 1]
    ELSE pc' = [pc EXCEPT ![r] = "list"] /\ n' = n

\* On to the next board, or to prune(), which --no-prune leaves out.
NextBoard(r) ==
    IF n[r] < Len(boards[r])
    THEN /\ pc' = [pc EXCEPT ![r] = "look"]
         /\ n' = [n EXCEPT ![r] = n[r] + 1]
    ELSE /\ \E to \in {"list", "kept"} : pc' = [pc EXCEPT ![r] = to]
         /\ n' = n

Examined(r, writes) ==
    /\ pc[r] = "look"
    /\ IF writes THEN pc' = [pc EXCEPT ![r] = "open"] /\ n' = n ELSE NextBoard(r)
    /\ overtaken' = [overtaken EXCEPT ![r] = @ \ {File(r)}]
    /\ UNCHANGED <<started, dirVars, boards, fd, left, victim, alone, fresh, overlapped>>

Look_AnyFile(r)     == Examined(r, shown[File(r)] # Body(r))
Look_OnlyMissing(r) == Examined(r, shown[File(r)] = Absent)
Look_Rewrites(r)    == Examined(r, shown[File(r)] = Absent \/ Generated(shown[File(r)]))

\* write_dashboard() up to where it writes: what is not generated, or is as it should
\* be, stays as it is.  It asks whether the file is there, and reads it twice (1353-1358):
\* what vanishes in between, or is JSON but no object, ends the run, just as Kill does.
Look(r) ==
    Examined(r, \/ shown[File(r)] = Absent
                \/ Generated(shown[File(r)]) /\ shown[File(r)] # Body(r))

Open_InPlace(r) ==
    /\ pc[r] = "open"
    /\ pc' = [pc EXCEPT ![r] = "write"]
    /\ shown' = [shown EXCEPT ![File(r)] = Torn]
    /\ fd' = [fd EXCEPT ![r] = "shown"]
    /\ UNCHANGED <<started, tmp, boards, n, left, victim, ghostVars>>

\* open(tmp, "w"): what a killed run has left there, or another run is writing, is cut
\* to nothing and is from now on this run's file as well.
Open(r) ==
    /\ pc[r] = "open"
    /\ pc' = [pc EXCEPT ![r] = "write"]
    /\ tmp' = [tmp EXCEPT ![File(r)] = Torn]
    /\ fd' = [fd EXCEPT ![r] = "tmp"]
    /\ UNCHANGED <<started, shown, boards, n, left, victim, ghostVars>>

\* Others have the same file open, or have left in it what this run does not cut off.
Sharing(r) ==
    \/ fd[r] # "none" /\ \E s \in Runs \ {r} : fd[s] = fd[r] /\ File(s) = File(r)
    \/ fd[r] = "tmp" /\ tmp[File(r)] # Torn
    \/ fd[r] = "shown" /\ shown[File(r)] # Torn

\* The body goes to whatever the open file is called by now, from its beginning (1366-1367);
\* what two have written to, one of them perhaps gone by now, is whole or not.
Write(r) ==
    /\ pc[r] = "write"
    /\ pc' = [pc EXCEPT ![r] = "rename"]
    /\ \E c \in {Body(r)} \union (IF Sharing(r) THEN {Torn} ELSE {}) :
          /\ tmp' = IF fd[r] = "tmp" THEN [tmp EXCEPT ![File(r)] = c] ELSE tmp
          /\ shown' = IF fd[r] = "shown" THEN [shown EXCEPT ![File(r)] = c] ELSE shown
    /\ UNCHANGED <<started, boards, n, fd, left, victim, ghostVars>>

\* The names that open files go by once f is deleted, or another file is renamed to it.
Unlinked(f) ==
    [s \in Runs |-> IF fd[s] = "shown" /\ File(s) = f THEN "none" ELSE fd[s]]

\* Once its .tmp is renamed to f.
Relinked(f) ==
    [s \in Runs |-> IF fd[s] = "tmp" /\ File(s) = f THEN "shown" ELSE Unlinked(f)[s]]

\* A run ends, or dies and is forgotten.
Stop(r, how) ==
    /\ pc' = [pc EXCEPT ![r] = how]
    /\ boards' = [boards EXCEPT ![r] = IF how = "dead" THEN <<>> ELSE @]
    /\ n' = [n EXCEPT ![r] = 1]
    /\ fd' = [fd EXCEPT ![r] = "none"]
    /\ left' = [left EXCEPT ![r] = {}]
    /\ victim' = [victim EXCEPT ![r] = "none"]
    /\ overtaken' = [overtaken EXCEPT ![r] = {}]
    /\ UNCHANGED <<started, dirVars, alone, fresh, overlapped>>

\* os.replace(tmp, path).
Rename(r) ==
    /\ pc[r] = "rename" /\ tmp[File(r)] # Absent
    /\ shown' = [shown EXCEPT ![File(r)] = tmp[File(r)]]
    /\ tmp' = [tmp EXCEPT ![File(r)] = Absent]
    /\ fd' = [Relinked(File(r)) EXCEPT ![r] = "none"]
    /\ NextBoard(r)
    /\ UNCHANGED <<started, boards, left, victim, ghostVars>>

\* Another run has renamed it first.
RenameFails(r) ==
    /\ pc[r] = "rename" /\ tmp[File(r)] = Absent
    /\ Stop(r, "dead")

\* prune(): the files that are there, but for those of this run.
List(r) ==
    /\ pc[r] = "list"
    /\ pc' = [pc EXCEPT ![r] = "prune"]
    /\ left' = [left EXCEPT ![r] = {f \in Files \ FilesOf(boards[r]) : shown[f] # Absent}]
    /\ UNCHANGED <<started, dirVars, boards, n, fd, victim, ghostVars>>

PruneLook(r) ==
    /\ pc[r] = "prune" /\ left[r] # {}
    /\ \E f \in left[r] :
          /\ left' = [left EXCEPT ![r] = @ \ {f}]
          /\ overtaken' = [overtaken EXCEPT ![r] = @ \ {f}]
          /\ IF Generated(shown[f])
             THEN pc' = [pc EXCEPT ![r] = "remove"] /\ victim' = [victim EXCEPT ![r] = f]
             ELSE UNCHANGED <<pc, victim>>
    /\ UNCHANGED <<started, dirVars, boards, n, fd, alone, fresh, overlapped>>

PruneRemove(r) ==
    /\ pc[r] = "remove" /\ shown[victim[r]] # Absent
    /\ pc' = [pc EXCEPT ![r] = "prune"]
    /\ shown' = [shown EXCEPT ![victim[r]] = Absent]
    /\ fd' = Unlinked(victim[r])
    /\ victim' = [victim EXCEPT ![r] = "none"]
    /\ UNCHANGED <<started, tmp, boards, n, left, ghostVars>>

\* It was deleted meanwhile.
PruneFails(r) ==
    /\ pc[r] = "remove" /\ shown[victim[r]] = Absent
    /\ Stop(r, "dead")

Finish(r) ==
    /\ pc[r] = "prune" /\ left[r] = {}
    /\ Stop(r, "ok")

Kill(r) ==
    /\ Active(r)
    /\ Stop(r, "dead")

\* A user saves a dashboard of their own, in place or as a new file, or deletes what is
\* there.
UserSave(f, c) ==
    /\ shown[f] # c
    /\ shown' = [shown EXCEPT ![f] = c]
    /\ fd' = Unlinked(f) \/ (c = Hand /\ fd' = fd)
    /\ overtaken' = [r \in Runs |-> IF Active(r) THEN overtaken[r] \union {f} ELSE {}]
    /\ alone' = [r \in Runs |-> FALSE] /\ fresh' = [r \in Runs |-> FALSE]
    /\ UNCHANGED <<started, tmp, pc, boards, n, left, victim, overlapped>>

RunStep(r) ==
    \/ \E plan \in Plans : Discover(r, plan)
    \/ Look(r) \/ Open(r) \/ Write(r) \/ Rename(r) \/ RenameFails(r)
    \/ List(r) \/ PruneLook(r) \/ PruneRemove(r) \/ PruneFails(r) \/ Finish(r) \/ Kill(r)

Next ==
    \/ \E r \in Runs : RunStep(r)
    \/ \E f \in UserFiles, c \in {Hand, Absent} : UserSave(f, c)

Spec == Init /\ [][Next]_vars

-----------------------------------------------------------------------------
(* Properties. *)

Contents == {Absent, Torn, Hand} \union Bodies

\* Each run has a board to write until it lists the directory, has a file open only
\* while it writes one, and a victim before it deletes one.
TypeOK ==
    /\ shown \in [Files -> Contents] /\ tmp \in [Files -> Contents \ {Hand}]
    /\ pc \in [Runs -> Ended \union Busy]
    /\ boards \in [Runs -> Seq([file : Files, body : Bodies])] /\ n \in [Runs -> Nat]
    /\ fd \in [Runs -> {"none", "tmp", "shown"}]
    /\ left \in [Runs -> SUBSET Files] /\ victim \in [Runs -> Files \union {"none"}]
    /\ overtaken \in [Runs -> SUBSET Files]
    /\ alone \in [Runs -> BOOLEAN] /\ fresh \in [Runs -> BOOLEAN]
    /\ started \in 0..MaxStarts /\ overlapped \in BOOLEAN
    /\ \A r \in Runs :
          /\ Active(r) => n[r] \in DOMAIN boards[r]
          /\ fd[r] # "none" => pc[r] \in {"write", "rename"}
          /\ pc[r] = "remove" => victim[r] \in Files

\* "Only files carrying the generated tag are ever written or deleted" (gen-dashboards.py
\* :24-26): no run changes a dashboard a user has made, however runs overlap and die,
\* unless the user saved it after the run had looked.
KeepsHandMade ==
    [][\A r \in Runs, f \in Files :
          shown[f] = Hand /\ shown'[f] # Hand /\ f \notin overtaken[r] => ~RunStep(r)]_vars

\* "The rename has to be the only thing it sees" (gen-dashboards.py:1364-1365): while
\* runs do not overlap, Grafana never finds a half-written dashboard, wherever a run is
\* killed and whatever .tmp it leaves to the next. Overlapping runs break this.
GrafanaSeesWhole == ~overlapped => \A f \in Files : shown[f] # Torn

\* A run that ends undisturbed leaves each dashboard as Fleet's answer has it, users'
\* own files apart, and no generated one besides, unless it was told not to prune;
\* whatever an earlier run left when it died. Runs that overlapped may have left a torn
\* file, which no run takes for generated, nor repairs.
DoneMeansCurrent ==
    \A r \in Runs : alone[r] /\ ~overlapped =>
        /\ pc[r] \in {"ok", "kept"} => Written(boards[r])
        /\ pc[r] = "ok" => Pruned(boards[r])

\* "Files are rewritten only when their content actually changes" (gen-dashboards.py
\* :22-23): a run, undisturbed, writes nothing and deletes nothing when it finds all as
\* it should be, except where two agents go by one host name, whose file each rewrites.
QuietRerun ==
    \A r \in Runs :
        (fresh[r] /\ Cardinality(FilesOf(boards[r])) = Len(boards[r])) =>
            pc[r] \notin {"open", "write", "rename", "remove"}
=============================================================================
