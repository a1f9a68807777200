---------------------------- MODULE Certificates ----------------------------
(***************************************************************************)
(* The certificates of the stack, and who works with which: setup-certs.sh *)
(* makes them, migrate-cert-chain.sh repairs those that lack the CA,       *)
(* bootstrap.sh starts the containers that read them, and agents trust     *)
(* Elasticsearch when the CA whose fingerprint Fleet gave them is in the   *)
(* chain it presents.                                                      *)
(*                                                                         *)
(* One operator runs one script at a time, each of which can be cut short  *)
(* at any step.  A CA is its number, 0 being none; a certificate file is   *)
(* the sequence of the CAs in it: the issuer of its leaf, then whatever    *)
(* was appended; <<>> when there is no file.                               *)
(***************************************************************************)
EXTENDS Naturals, Sequences

CONSTANTS
    Services,  \* the services with a certificate
    Order,     \* the order in which the scripts go through them
    MaxCAs     \* bound: how many CAs are ever generated

ASSUME CertificatesAssumption ==
    /\ {"elasticsearch", "kibana"} \subseteq Services
    /\ Order \in Seq(Services) /\ \A s \in Services : \E i \in 1..Len(Order) : Order[i] = s
    /\ \A i, k \in 1..Len(Order) : Order[i] = Order[k] => i = k
    /\ MaxCAs \in Nat \ {0}

VARIABLES
    ca,           \* certs/ca/ca.crt
    made,         \* how many CAs there have been
    crt,          \* certs/<service>/<service>.crt
    fingerprint,  \* ES_CA_FINGERPRINT in .env
    loaded,       \* the files each container read when it last started
    outputFp,     \* the fingerprint Kibana was created with: Fleet's output
    pc,           \* the step the operator's script is at
    todo,         \* the services its present step has left: positions in Order
    last,         \* how the last script ended
    setup         \* history: how far setup-certs.sh got with what is in certs/

vars == <<ca, made, crt, fingerprint, loaded, outputFp, pc, todo, last, setup>>

CAs == 0..MaxCAs
Absent == [state |-> "absent"]
Crashed == [state |-> "crashed"]
Running(s) == loaded[s].state = "running"

SetupSteps     == {"wipe", "ca", "issue", "append", "env"}
MigrateSteps   == {"repair", "restart", "verify"}
BootstrapSteps == {"elasticsearch", "wait", "kibana", "available", "rest"}
Steps == SetupSteps \union MigrateSteps \union BootstrapSteps

Endings == {"none", "failed", "setup", "checked", "nothing", "fixed", "verified", "booted"}

TypeOK ==
    /\ ca \in CAs /\ made \in CAs /\ ca <= made
    /\ fingerprint \in CAs /\ outputFp \in CAs
    /\ crt \in [Services -> Seq(1..MaxCAs)]
    /\ loaded \in [Services -> {Absent, Crashed}
                     \union [state : {"running"}, chain : Seq(1..MaxCAs), ca : 1..MaxCAs]]
    /\ pc \in Steps \union {"idle"}
    /\ todo \subseteq DOMAIN Order
    /\ pc \in {"issue", "append", "repair"} <=> todo # {}
    /\ last \in Endings
    /\ setup \in {"partial", "making", "made"}
    /\ setup = "making" => pc \in SetupSteps

\* Nothing yet, or a stack made before setup-certs.sh appended the CA.
Init ==
    /\ \E g \in {0, 1} :
          /\ ca = g /\ made = g /\ fingerprint = g /\ outputFp = g
          /\ crt = [s \in Services |-> IF g = 0 THEN <<>> ELSE <<g>>]
          /\ loaded = [s \in Services |-> IF g = 0 THEN Absent ELSE
                          [state |-> "running", chain |-> <<g>>, ca |-> g]]
    /\ pc = "idle" /\ todo = {} /\ last = "none" /\ setup = "partial"

\* What an agent makes of what Elasticsearch presents.
Trusted ==
    /\ Running("elasticsearch")
    /\ \E i \in 2..Len(loaded["elasticsearch"].chain) :
          loaded["elasticsearch"].chain[i] = outputFp

-----------------------------------------------------------------------------

Begin(step, services) ==
    pc = "idle" /\ pc' = step /\ todo' = services /\ last' = "none"

End(ending) == pc' = "idle" /\ todo' = {} /\ last' = ending

Goto(step, services) == pc' = step /\ todo' = services /\ UNCHANGED last

All == DOMAIN Order

\* The service the present step is at.
Turn == {i \in todo : \A k \in todo : i <= k}

Advance_OffByOne(i, step, services) ==
    IF todo # {} THEN pc' = pc /\ todo' = todo \ {i} /\ UNCHANGED last
                 ELSE Goto(step, services)

\* The service at i is done; when it was the last one the script goes on to `step'.
Advance(i, step, services) ==
    IF todo # {i} THEN pc' = pc /\ todo' = todo \ {i} /\ UNCHANGED last
                  ELSE Goto(step, services)

(***************************************************************************)
(* setup-certs.sh                                                          *)
(***************************************************************************)

\* Certificates that exist are regenerated only with --force or a yes.
SetupStart(yes) ==
    /\ pc = "idle"
    /\ \/ ca = 0 /\ Begin("ca", {})
       \/ ca # 0 /\ yes /\ Begin("wipe", {})
       \/ ca # 0 /\ ~yes /\ End("failed")
    /\ setup' = IF ca = 0 \/ yes THEN "making" ELSE setup
    /\ UNCHANGED <<ca, made, crt, fingerprint, loaded, outputFp>>

\* rm -rf certs, one file after another in whatever order.
Wipe ==
    /\ pc = "wipe"
    /\ \/ ca # 0 /\ ca' = 0 /\ UNCHANGED <<crt, pc, todo, last>>
       \/ \E s \in Services : /\ crt[s] # <<>> /\ crt' = [crt EXCEPT ![s] = <<>>]
                              /\ UNCHANGED <<ca, pc, todo, last>>
       \/ /\ ca = 0 /\ \A s \in Services : crt[s] = <<>>
          /\ Goto("ca", {})
          /\ UNCHANGED <<ca, crt>>
    /\ UNCHANGED <<made, fingerprint, loaded, outputFp, setup>>

GenerateCA ==
    /\ pc = "ca" /\ made < MaxCAs
    /\ ca' = made + 1 /\ made' = made + 1
    /\ Goto("issue", All)
    /\ UNCHANGED <<crt, fingerprint, loaded, outputFp, setup>>

\* certutil writes the leaf only, over what is there.
IssueCert ==
    /\ pc = "issue"
    /\ \E i \in Turn : /\ crt' = [crt EXCEPT ![Order[i]] = <<ca>>]
                      /\ Advance(i, "append", All)
    /\ UNCHANGED <<ca, made, fingerprint, loaded, outputFp, setup>>

AppendCA ==
    /\ pc = "append"
    /\ \E i \in Turn : /\ crt' = [crt EXCEPT ![Order[i]] = Append(@, ca)]
                      /\ Advance(i, "env", {})
    /\ UNCHANGED <<ca, made, fingerprint, loaded, outputFp, setup>>

WriteFingerprint ==
    /\ pc = "env"
    /\ fingerprint' = ca
    /\ setup' = IF setup = "making" THEN "made" ELSE setup
    /\ End("setup")
    /\ UNCHANGED <<ca, made, crt, loaded, outputFp>>

(***************************************************************************)
(* migrate-cert-chain.sh                                                   *)
(***************************************************************************)

NeedsChain_All(s) == crt[s] # <<>>

\* A file that is missing is skipped.
NeedsChain(s) == Len(crt[s]) = 1

MigrateStart(check) ==
    LET needed == {i \in All : NeedsChain(Order[i])} IN
    /\ pc = "idle"
    /\ \/ ca = 0 /\ End("failed")
       \/ ca # 0 /\ needed = {} /\ End("nothing")
       \/ ca # 0 /\ needed # {} /\ check /\ End("checked")
       \/ ca # 0 /\ needed # {} /\ ~check /\ Begin("repair", needed)
    /\ UNCHANGED <<ca, made, crt, fingerprint, loaded, outputFp, setup>>

AppendMissing ==
    /\ pc = "repair"
    /\ \E i \in Turn : /\ crt' = [crt EXCEPT ![Order[i]] = Append(@, ca)]
                      /\ Advance(i, "restart", {})
    /\ UNCHANGED <<ca, made, fingerprint, loaded, outputFp, setup>>

\* What a container has after a start; it exits without its files.
Started(s) ==
    IF ca # 0 /\ crt[s] # <<>>
    THEN [state |-> "running", chain |-> crt[s], ca |-> ca] ELSE Crashed

RestartRunning_ElasticsearchOnly ==
    /\ pc = "restart"
    /\ \/ /\ \E s \in Services : Running(s)
          /\ loaded' = [s \in Services |-> IF s = "elasticsearch" /\ Running(s) THEN Started(s)
                                           ELSE loaded[s]]
          /\ Goto("verify", {})
       \/ UNCHANGED loaded /\ End("fixed")
    /\ UNCHANGED <<ca, made, crt, fingerprint, outputFp, setup>>

\* Whatever is running is restarted, not only what was repaired just now.  When nothing
\* is, or `docker compose ps' fails, whose failure is ignored, the script ends here.
RestartRunning ==
    /\ pc = "restart"
    /\ \/ /\ \E s \in Services : Running(s)
          /\ loaded' = [s \in Services |-> IF Running(s) THEN Started(s) ELSE loaded[s]]
          /\ Goto("verify", {})
       \/ UNCHANGED loaded /\ End("fixed")
    /\ UNCHANGED <<ca, made, crt, fingerprint, outputFp, setup>>

\* curl --cacert: whether Elasticsearch answers, with a certificate of the CA on disk.
Reachable == Running("elasticsearch") /\ loaded["elasticsearch"].chain[1] = ca

\* The live listener: reachable, two certificates, and the second the CA on disk.
Verify ==
    /\ pc = "verify"
    /\ IF /\ Reachable
          /\ Len(loaded["elasticsearch"].chain) >= 2
          /\ loaded["elasticsearch"].chain[2] = ca
       THEN End("verified") ELSE End("failed")
    /\ UNCHANGED <<ca, made, crt, fingerprint, loaded, outputFp, setup>>

(***************************************************************************)
(* bootstrap.sh, as far as certificates matter to it.                      *)
(***************************************************************************)

\* The preflight.
BootStart ==
    /\ pc = "idle"
    /\ IF ca = 0 \/ fingerprint = 0 THEN End("failed") ELSE Begin("elasticsearch", {})
    /\ UNCHANGED <<ca, made, crt, fingerprint, loaded, outputFp, setup>>

\* `docker compose up -d' leaves a running container alone.
UpElasticsearch ==
    /\ pc = "elasticsearch"
    /\ loaded' = [loaded EXCEPT !["elasticsearch"] =
                     IF Running("elasticsearch") THEN @ ELSE Started("elasticsearch")]
    /\ Goto("wait", {})
    /\ UNCHANGED <<ca, made, crt, fingerprint, outputFp, setup>>

WaitElasticsearch ==
    /\ pc = "wait"
    /\ IF Reachable THEN Goto("kibana", {}) ELSE End("failed")
    /\ UNCHANGED <<ca, made, crt, fingerprint, loaded, outputFp, setup>>

UpKibana_NotRecreated ==
    /\ pc = "kibana"
    /\ IF Running("kibana")
       THEN UNCHANGED <<loaded, outputFp>>
       ELSE /\ loaded' = [loaded EXCEPT !["kibana"] = Started("kibana")]
            /\ outputFp' = fingerprint
    /\ Goto("available", {})
    /\ UNCHANGED <<ca, made, crt, fingerprint, setup>>

\* Kibana's environment holds the fingerprint, so a new one recreates the container,
\* and kibana.yml makes it the fingerprint of Fleet's output.
UpKibana ==
    /\ pc = "kibana"
    /\ IF Running("kibana") /\ outputFp = fingerprint
       THEN UNCHANGED <<loaded, outputFp>>
       ELSE /\ loaded' = [loaded EXCEPT !["kibana"] = Started("kibana")]
            /\ outputFp' = fingerprint
    /\ Goto("available", {})
    /\ UNCHANGED <<ca, made, crt, fingerprint, setup>>

\* The wait is curl -k, but Kibana is available only once it trusts Elasticsearch.
WaitKibana ==
    /\ pc = "available"
    /\ IF /\ Running("kibana") /\ Running("elasticsearch")
          /\ loaded["kibana"].ca = loaded["elasticsearch"].chain[1]
       THEN Goto("rest", {}) ELSE End("failed")
    /\ UNCHANGED <<ca, made, crt, fingerprint, loaded, outputFp, setup>>

UpRest ==
    /\ pc = "rest"
    /\ loaded' = [s \in Services |-> IF Running(s) THEN loaded[s] ELSE Started(s)]
    /\ End("booted")
    /\ UNCHANGED <<ca, made, crt, fingerprint, outputFp, setup>>

-----------------------------------------------------------------------------

\* If setup-certs.sh is at work, it is cut short or something reads what is half done.
Interrupt == setup' = IF setup = "making" THEN "partial" ELSE setup

\* The script is killed, or a command in it fails, anywhere.
Kill ==
    /\ pc # "idle"
    /\ End("failed")
    /\ Interrupt
    /\ UNCHANGED <<ca, made, crt, fingerprint, loaded, outputFp>>

\* Docker restarts a container (restart: unless-stopped, or the host is rebooted), or
\* Elasticsearch rereads its files by itself.
Restart(s) ==
    /\ loaded[s] # Absent
    /\ loaded' = [loaded EXCEPT ![s] = Started(s)]
    /\ Interrupt
    /\ UNCHANGED <<ca, made, crt, fingerprint, outputFp, pc, todo, last>>

SetupCerts == (\E yes \in BOOLEAN : SetupStart(yes))
            \/ Wipe \/ GenerateCA \/ IssueCert \/ AppendCA \/ WriteFingerprint
MigrateCertChain == (\E check \in BOOLEAN : MigrateStart(check))
            \/ AppendMissing \/ RestartRunning \/ Verify
Bootstrap == BootStart \/ UpElasticsearch \/ WaitElasticsearch
            \/ UpKibana \/ WaitKibana \/ UpRest

Next == SetupCerts \/ MigrateCertChain \/ Bootstrap \/ Kill \/ \E s \in Services : Restart(s)

Spec == Init /\ [][Next]_vars

-----------------------------------------------------------------------------
(* Properties. *)

\* However often both scripts are run, and wherever they were cut short, no file ever
\* gets the CA twice: migrate-cert-chain.sh decides by what is in the file (line 58).
ChainNeverDoubled == \A s \in Services : Len(crt[s]) <= 2

\* A migration that ends with its verification (migrate-cert-chain.sh:108-136) leaves
\* every certificate chained, Elasticsearch serving the CA on disk, and no other
\* container with an old file: also one a run that was cut short had repaired.
VerifiedMeansServed ==
    last = "verified" =>
        /\ Running("elasticsearch") /\ loaded["elasticsearch"].chain = <<ca, ca>>
        /\ \A s \in Services : /\ Len(crt[s]) # 1
                               /\ Running(s) => Len(loaded[s].chain) = 2

\* A bootstrap.sh that ends well over certificates that setup-certs.sh made in one go
\* leaves agents trusting Elasticsearch: also one over a stack that was running with
\* another CA, which up -d does not restart (bootstrap.sh:96-104, 164;
\* docker-compose.yml:79).  A container that was restarted while the certificates were
\* made may go on with a chain that lacks the CA.
BootedMeansTrusted == last = "booted" /\ setup = "made" => Trusted
=============================================================================
