---------------------------- MODULE PolicyEdits ----------------------------
(***************************************************************************)
(* The scripts that change integration policies which already exist:       *)
(* fleet/migrate-custom-logs.py, migrate-media-paths.py,                   *)
(* migrate-filesystem-types.py, migrate-unifi-inputs.py, toggle-stream.py. *)
(*                                                                         *)
(* All five work alike: one GET of every integration policy, a plan made   *)
(* on that copy, then one PUT of the whole policy for each one to change.  *)
(* The copy's `revision' is dropped before the PUT, so Fleet cannot tell   *)
(* that a policy has changed since the GET, by another script or by a user.*)
(***************************************************************************)
EXTENDS Naturals, Sequences

CONSTANTS
    Clients,      \* invocations of the scripts that can overlap
    Docs,         \* integration policies
    DocOrder,     \* the same, sorted by name
    Package,      \* the package of each: "log", "system", "cef" or "iptables"
    MediaDocs,    \* the "log" ones whose dataset is in MEDIA_APPS
    Stacks,       \* the sets of policies that a stack may have
    MayRun        \* which jobs each client runs

Migrations == {"custom-logs", "media-paths", "filesystem-types", "unifi-inputs"}

\* A command line: a migration, with --check or not, or a toggle of one stream.
Jobs == [script : Migrations, check : BOOLEAN]
          \union [script : {"toggle-stream"}, doc : Docs, want : BOOLEAN]

ASSUME EditsAssumption ==
    /\ DocOrder \in Seq(Docs) /\ \A d \in Docs : \E i \in 1..Len(DocOrder) : DocOrder[i] = d
    /\ \A i, k \in 1..Len(DocOrder) : DocOrder[i] = DocOrder[k] => i = k
    /\ Package \in [Docs -> {"log", "system", "cef", "iptables"}]
    /\ MediaDocs \subseteq {d \in Docs : Package[d] = "log"}
    /\ Stacks \subseteq SUBSET Docs
    /\ MayRun \in [Clients -> SUBSET Jobs]

VARIABLES
    docs,      \* Fleet: the integration policies, by name
    pc,        \* where each client is
    job,       \* what it was asked to do
    copy,      \* its copy of the policies, as of its GET
    queue,     \* the policies it still has to PUT: positions in DocOrder
    overtaken  \* history: policies others have changed since its GET

vars == <<docs, pc, job, copy, queue, overtaken>>

(***************************************************************************)
(* What the scripts tell apart in a policy.  `custom' is the free-form     *)
(* Custom Logs block: "stock" is what setup-policies.py writes today,      *)
(* "flat" another block of json.* / multiline.* keys, "parsers" a          *)
(* filestream block convert() knows, "odd" one it refuses to convert.      *)
(* `udp' is udp_options: still the package's comments, the stock value, or *)
(* written by hand.                                                        *)
(***************************************************************************)
Doc == [enabled : BOOLEAN, paths : {"old", "stock"},
        custom : {"stock", "flat", "parsers", "odd"}, fsTypes : {"old", "stock"},
        udp : {"default", "stock", "hand"}, preserve : BOOLEAN, ignoreEmpty : BOOLEAN]

Vars == DOMAIN (CHOOSE x \in Doc : TRUE)

\* The contents a policy of each package can have; what it lacks is constant.
DocOf(d) ==
    {x \in Doc :
        /\ Package[d] # "log" => x.custom = "stock"
        /\ d \notin MediaDocs => x.paths = "stock"
        /\ Package[d] # "system" => x.fsTypes = "stock"
        /\ Package[d] \notin {"cef", "iptables"} => x.udp = "stock"
        /\ Package[d] # "cef" => x.preserve /\ x.ignoreEmpty}

Gone == [gone |-> TRUE]
Live == {d \in Docs : docs[d] # Gone}

NotAsked == [script |-> "none"]

\* The policies at some positions.
At(positions) == {DocOrder[i] : i \in positions}

TypeOK ==
    /\ DOMAIN docs = Docs /\ \A d \in Docs : docs[d] \in DocOf(d) \union {Gone}
    /\ pc \in [Clients -> {"idle", "put", "ok", "failed"}]
    /\ \A c \in Clients : /\ job[c] \in MayRun[c] \union {NotAsked}
                          /\ queue[c] \subseteq DOMAIN DocOrder
                          /\ pc[c] = "put" <=> queue[c] # {}
                          /\ DOMAIN copy[c] = At(queue[c])
    /\ overtaken \in [Clients -> SUBSET Docs]

Init ==
    /\ \E S \in Stacks :
          \E f \in [S -> UNION {DocOf(d) : d \in S}] :
             /\ \A d \in S : f[d] \in DocOf(d)
             /\ docs = [d \in Docs |-> IF d \in S THEN f[d] ELSE Gone]
    /\ pc = [c \in Clients |-> "idle"]
    /\ job = [c \in Clients |-> NotAsked]
    /\ copy = [c \in Clients |-> <<>>]
    /\ queue = [c \in Clients |-> {}]
    /\ overtaken = [c \in Clients |-> {}]

-----------------------------------------------------------------------------
(* The plans: whether a script would change a policy, and into what. *)

NeedsCustomLogs_AnyBlock(d, x) == Package[d] = "log" /\ x.custom # "flat"

\* convert() takes a recognised parsers: block and nothing else.
NeedsCustomLogs(d, x) == Package[d] = "log" /\ x.custom = "parsers"

NeedsMediaPaths(d, x) ==
    d \in MediaDocs /\ (x.paths # "stock" \/ x.custom # "stock")

NeedsFilesystemTypes(d, x) ==
    Package[d] = "system" /\ x.enabled /\ x.fsTypes # "stock"

NeedsUnifiInputs(d, x) ==
    /\ Package[d] \in {"cef", "iptables"}
    /\ x.enabled
    /\ \/ x.udp = "default"
       \/ Package[d] = "cef" /\ ~(x.preserve /\ x.ignoreEmpty)

\* toggle-stream goes through the streams of all inputs and ends at the first of its
\* dataset that is already as wanted (97-104); here a policy has one such stream, `enabled'.
Needs(j, d, x) ==
    CASE j.script = "custom-logs"      -> NeedsCustomLogs(d, x)
      [] j.script = "media-paths"      -> NeedsMediaPaths(d, x)
      [] j.script = "filesystem-types" -> NeedsFilesystemTypes(d, x)
      [] j.script = "unifi-inputs"     -> NeedsUnifiInputs(d, x)
      [] j.script = "toggle-stream"    -> d = j.doc /\ x.enabled # j.want

PlanUnifi_StompsHandEdits(d, x) ==
    [x EXCEPT !.udp = "stock",
              !.preserve = (Package[d] = "cef") \/ @, !.ignoreEmpty = (Package[d] = "cef") \/ @]

\* plan_stream(): each var on its own, and hand-written udp_options left alone.
PlanUnifi(d, x) ==
    [x EXCEPT !.udp = IF @ = "default" THEN "stock" ELSE @,
              !.preserve = (Package[d] = "cef") \/ @, !.ignoreEmpty = (Package[d] = "cef") \/ @]

Changed(j, d, x) ==
    CASE j.script = "custom-logs"      -> [x EXCEPT !.custom = "flat"]
      [] j.script = "media-paths"      -> [x EXCEPT !.paths = "stock", !.custom = "stock"]
      [] j.script = "filesystem-types" -> [x EXCEPT !.fsTypes = "stock"]
      [] j.script = "unifi-inputs"     -> PlanUnifi(d, x)
      [] j.script = "toggle-stream"    -> [x EXCEPT !.enabled = j.want]

Todo(j) ==
    {i \in DOMAIN DocOrder :
        DocOrder[i] \in Live /\ Needs(j, DocOrder[i], docs[DocOrder[i]])}

-----------------------------------------------------------------------------
(* One invocation. *)

\* Policy d changes while the clients in `others' are at work or have just ended well.
Overtake(others, d) ==
    overtaken' = [c \in Clients |-> IF c \in others /\ pc[c] \in {"put", "ok"}
                                   THEN overtaken[c] \union {d} ELSE overtaken[c]]

\* The GET and the plan.  A check reports and ends, and so does an empty plan.
\* toggle-stream exits 1 when the policy it is to change does not exist.
Fetch(c, j) ==
    LET planned == IF j.script # "toggle-stream" /\ j.check THEN {} ELSE Todo(j)
        missing == j.script = "toggle-stream" /\ j.doc \notin Live IN
    /\ pc[c] # "put"
    /\ j \in MayRun[c]
    /\ job' = [job EXCEPT ![c] = IF missing THEN NotAsked ELSE j]
    /\ queue' = [queue EXCEPT ![c] = planned]
    /\ copy' = [copy EXCEPT ![c] = [d \in At(planned) |-> docs[d]]]
    /\ pc' = [pc EXCEPT ![c] = IF missing THEN "failed"
                               ELSE IF planned = {} THEN "ok" ELSE "put"]
    /\ overtaken' = [overtaken EXCEPT ![c] = {}]
    /\ UNCHANGED docs

\* The policy it PUTs next.
Turn(c) == {i \in queue[c] : \A k \in queue[c] : i <= k}

Advance_DropsCopy(c, i) ==
    /\ queue' = [queue EXCEPT ![c] = @ \ {i}]
    /\ copy' = [copy EXCEPT ![c] = <<>>]
    /\ pc' = [pc EXCEPT ![c] = "put"]

\* What the script does with its own state once the policy at i is dealt with.
Advance(c, i) ==
    LET rest == queue[c] \ {i} IN
    /\ queue' = [queue EXCEPT ![c] = rest]
    /\ copy' = [copy EXCEPT ![c] = [d \in At(rest) |-> copy[c][d]]]
    /\ pc' = [pc EXCEPT ![c] = IF rest = {} THEN "ok" ELSE "put"]

\* Policy d becomes as it was at the GET, with the planned change, whatever it is now.
Overwrite(c, d) ==
    /\ d \in Live
    /\ docs' = [docs EXCEPT ![d] = Changed(job[c], d, copy[c][d])]
    /\ Overtake(Clients \ {c}, d)

Put_FirstOnly(c) ==
    \E i \in Turn(c) :
        /\ pc[c] = "put"
        /\ Overwrite(c, DocOrder[i])
        /\ queue' = [queue EXCEPT ![c] = {}]
        /\ copy' = [copy EXCEPT ![c] = <<>>]
        /\ pc' = [pc EXCEPT ![c] = "ok"]
        /\ UNCHANGED job

\* One PUT of a whole policy.
Put(c) ==
    \E i \in Turn(c) :
        /\ pc[c] = "put"
        /\ Overwrite(c, DocOrder[i])
        /\ Advance(c, i)
        /\ UNCHANGED job

\* The script exits 1; what it was asked to do no longer matters.
Abandon(c) ==
    /\ job' = [job EXCEPT ![c] = NotAsked]
    /\ queue' = [queue EXCEPT ![c] = {}]
    /\ copy' = [copy EXCEPT ![c] = <<>>]
    /\ pc' = [pc EXCEPT ![c] = "failed"]

\* The PUT is refused (the policy is gone, say) or the process is killed: the
\* policies not yet written keep their old contents.
Fail(c) ==
    /\ pc[c] = "put"
    /\ Abandon(c)
    /\ UNCHANGED <<docs, overtaken>>

\* As Fail, but Fleet carried out the PUT whose answer was lost.
FailAfterPut(c) ==
    \E i \in Turn(c) :
        /\ pc[c] = "put"
        /\ Overwrite(c, DocOrder[i])
        /\ Abandon(c)

-----------------------------------------------------------------------------
(* The user, in the Fleet UI: saves a policy with one setting changed, or  *)
(* deletes it.                                                             *)

UserEdit(d) ==
    /\ d \in Live
    /\ \E x \in DocOf(d) :
          /\ \E v \in Vars : x # docs[d] /\ x = [docs[d] EXCEPT ![v] = x[v]]
          /\ docs' = [docs EXCEPT ![d] = x]
    /\ Overtake(Clients, d)
    /\ UNCHANGED <<pc, job, copy, queue>>

UserDelete(d) ==
    /\ d \in Live
    /\ docs' = [docs EXCEPT ![d] = Gone]
    /\ Overtake(Clients, d)
    /\ UNCHANGED <<pc, job, copy, queue>>

ClientStep(c) ==
    (\E j \in MayRun[c] : Fetch(c, j)) \/ Put(c) \/ Fail(c) \/ FailAfterPut(c)

Next ==
    \/ \E c \in Clients : ClientStep(c)
    \/ \E d \in Docs : UserEdit(d) \/ UserDelete(d)

Spec == Init /\ [][Next]_vars

(***************************************************************************)
(* The operator runs each migration again and again, Fleet answers, and    *)
(* nobody edits anything by hand.  The initial contents being arbitrary,   *)
(* they include whatever an earlier failed run or edit left behind.        *)
(* Fetch needs strong fairness: a client starts one script at a time, so a *)
(* particular script can be started only between two others.               *)
(***************************************************************************)
FairSpec ==
    /\ Init
    /\ [][\E c \in Clients : Put(c) \/ \E j \in MayRun[c] : Fetch(c, j)]_vars
    /\ \A c \in Clients : WF_vars(Put(c)) /\ \A j \in MayRun[c] : SF_vars(Fetch(c, j))

-----------------------------------------------------------------------------
(* Properties. *)

\* What each script owns in a policy x.
Own(j, x) ==
    CASE j.script = "custom-logs"      -> IF x.custom = "parsers" THEN {"custom"} ELSE {}
      [] j.script = "media-paths"      -> {"paths", "custom"}
      [] j.script = "filesystem-types" -> IF x.enabled THEN {"fsTypes"} ELSE {}
      [] j.script = "unifi-inputs"     -> IF x.enabled
                                          THEN {"preserve", "ignoreEmpty"} \union
                                               (IF x.udp = "hand" THEN {} ELSE {"udp"})
                                          ELSE {}
      [] j.script = "toggle-stream"    -> {"enabled"}

\* What client c must leave as it is when it writes policy d.
KeepsTheRest(c, d) ==
    docs[d] # docs'[d] =>
        \A v \in Vars \ Own(job[c], docs[d]) : docs'[d][v] = docs[d][v]

\* A script writes back a policy that nobody has changed since its GET with every
\* setting but its own as the user left it: hand-written udp_options, a disabled
\* stream, a parsers: block convert() refuses (migrate-unifi-inputs.py:94,
\* migrate-filesystem-types.py:125, migrate-custom-logs.py:72).  One that was saved
\* since the GET is put back as it was then: see the README.
KeepsOthersSettings ==
    [][\A c \in Clients, d \in Docs :
          (Put(c) \/ FailAfterPut(c)) /\ d \notin overtaken[c] => KeepsTheRest(c, d)]_vars

\* A migration that exits 0 and was not a check has left none of the policies it is
\* for in need of it, several policies or one, but for those others have changed or
\* deleted since its GET: a second run right after it reports "Nothing to do".
DoneMeansMigrated ==
    \A c \in Clients :
        (pc[c] = "ok" /\ job[c].script \in Migrations /\ ~job[c].check) =>
            \A d \in Live \ overtaken[c] : ~Needs(job[c], d, docs[d])

\* Scripts that overlap can undo each other's work, but not for ever: running each
\* again and again brings every policy to where no script has anything left to do.
Converges ==
    <>[](\A c \in Clients : \A j \in MayRun[c] : \A d \in Live : ~Needs(j, d, docs[d]))
=============================================================================
