---------------------------- MODULE ServiceToken ----------------------------
(***************************************************************************)
(* How bootstrap.sh gives Fleet Server its service token: it mints one in  *)
(* Elasticsearch if .env has none, writes it to .env, and starts the       *)
(* container with it.  A token is shown once, so .env is the only place    *)
(* a later run can have it from; its name can be used once, so a token     *)
(* that was lost stands in the way of the next.                            *)
(***************************************************************************)
EXTENDS Naturals

CONSTANTS
    Runs,      \* invocations of bootstrap.sh that can overlap
    MaxTokens  \* bound: how many tokens are ever minted

ASSUME TokenAssumption == MaxTokens \in Nat

VARIABLES
    valid,   \* Elasticsearch: the token named "homelab"; 0 is none
    minted,  \* how many there have been
    env,     \* FLEET_SERVER_SERVICE_TOKEN in .env; 0 is empty
    fleet,   \* the token the fleet-server container was created with; 0: no container
    pc,      \* where each run is
    token    \* the token in each run's own environment

vars == <<valid, minted, env, fleet, pc, token>>

Ended  == {"idle", "ok", "refused", "failed"}
Active == {"look", "delete", "mint", "write", "up"}

TypeOK ==
    /\ minted \in 0..MaxTokens
    /\ valid \in 0..minted /\ env \in 0..minted /\ fleet \in 0..minted
    /\ pc \in [Runs -> Ended \union Active]
    /\ token \in [Runs -> 0..minted]
    /\ \A r \in Runs : pc[r] \in {"write", "up"} => token[r] # 0

Init ==
    /\ valid = 0 /\ minted = 0 /\ env = 0 /\ fleet = 0
    /\ pc = [r \in Runs |-> "idle"]
    /\ token = [r \in Runs |-> 0]

\* bootstrap.sh sources .env first, long before it comes to the token.
Start(r) ==
    /\ pc[r] \in Ended
    /\ pc' = [pc EXCEPT ![r] = "look"]
    /\ token' = [token EXCEPT ![r] = env]
    /\ UNCHANGED <<valid, minted, env, fleet>>

Look_AlwaysMint(r) ==
    /\ pc[r] = "look"
    /\ pc' = [pc EXCEPT ![r] = "delete"]
    /\ UNCHANGED <<valid, minted, env, fleet, token>>

\* A token in .env is reused, whether Elasticsearch knows it or not.
Look(r) ==
    /\ pc[r] = "look"
    /\ pc' = [pc EXCEPT ![r] = IF token[r] = 0 THEN "delete" ELSE "up"]
    /\ UNCHANGED <<valid, minted, env, fleet, token>>

DeleteStale_NotFoundIsFatal(r) ==
    /\ pc[r] = "delete"
    /\ pc' = [pc EXCEPT ![r] = IF valid = 0 THEN "refused" ELSE "mint"]
    /\ valid' = 0
    /\ UNCHANGED <<minted, env, fleet, token>>

\* DELETE .../homelab: not having one is no error.
DeleteStale(r) ==
    /\ pc[r] = "delete"
    /\ pc' = [pc EXCEPT ![r] = "mint"]
    /\ valid' = 0
    /\ UNCHANGED <<minted, env, fleet, token>>

\* ... || true: neither is failing.
DeleteFails(r) ==
    /\ pc[r] = "delete"
    /\ pc' = [pc EXCEPT ![r] = "mint"]
    /\ UNCHANGED <<valid, minted, env, fleet, token>>

\* POST .../homelab.
Mint(r) ==
    /\ pc[r] = "mint"
    /\ valid = 0 /\ minted < MaxTokens
    /\ minted' = minted + 1
    /\ valid' = minted + 1
    /\ token' = [token EXCEPT ![r] = minted + 1]
    /\ pc' = [pc EXCEPT ![r] = "write"]
    /\ UNCHANGED <<env, fleet>>

\* The name is taken.
MintRefused(r) ==
    /\ pc[r] = "mint"
    /\ valid # 0
    /\ pc' = [pc EXCEPT ![r] = "refused"]
    /\ UNCHANGED <<valid, minted, env, fleet, token>>

WriteEnv_NoSuchLine(r) ==
    /\ pc[r] = "write"
    /\ pc' = [pc EXCEPT ![r] = "up"]
    /\ UNCHANGED <<valid, minted, env, fleet, token>>

WriteEnv_NotExported(r) ==
    /\ pc[r] = "write"
    /\ env' = token[r]
    /\ token' = [token EXCEPT ![r] = 0]
    /\ pc' = [pc EXCEPT ![r] = "up"]
    /\ UNCHANGED <<valid, minted, fleet>>

\* The sed on .env, and the export.
WriteEnv(r) ==
    /\ pc[r] = "write"
    /\ env' = token[r]
    /\ pc' = [pc EXCEPT ![r] = "up"]
    /\ UNCHANGED <<valid, minted, fleet, token>>

\* `docker compose up -d': the environment of the run has precedence over .env, and a
\* container that was created with another token is created anew.
Up(r) ==
    /\ pc[r] = "up"
    /\ fleet' = token[r]
    /\ pc' = [pc EXCEPT ![r] = "ok"]
    /\ UNCHANGED <<valid, minted, env, token>>

\* The run is killed or a command in it fails.  A token not yet written is lost, also
\* when Elasticsearch minted it and the answer did not come; as MaxTokens bounds the
\* model, the last token is not.
Fail(r) ==
    /\ pc[r] \in Active
    /\ \/ UNCHANGED <<valid, minted>>
       \/ /\ pc[r] = "mint" /\ valid = 0 /\ minted + 1 < MaxTokens
          /\ minted' = minted + 1 /\ valid' = minted + 1
    /\ pc[r] = "write" => minted < MaxTokens
    /\ pc' = [pc EXCEPT ![r] = "failed"]
    /\ UNCHANGED <<env, fleet, token>>

\* The operator runs `docker compose up -d' by hand.
ComposeUp ==
    /\ fleet' = env
    /\ UNCHANGED <<valid, minted, env, pc, token>>

RunStep(r) ==
    \/ Start(r) \/ Look(r) \/ DeleteStale(r) \/ DeleteFails(r) \/ Mint(r) \/ MintRefused(r)
    \/ WriteEnv(r) \/ Up(r) \/ Fail(r)

Next == (\E r \in Runs : RunStep(r)) \/ ComposeUp

Spec == Init /\ [][Next]_vars

\* The operator starts the script again until it ends well, and from some time on
\* nothing fails but what Elasticsearch refuses for good reason.
FairSpec ==
    /\ Spec
    /\ \A r \in Runs : /\ WF_vars(pc[r] # "ok" /\ Start(r)) /\ WF_vars(Look(r))
                       /\ WF_vars(DeleteStale(r)) /\ WF_vars(Mint(r))
                       /\ WF_vars(MintRefused(r)) /\ WF_vars(WriteEnv(r)) /\ WF_vars(Up(r))
    /\ <>[][\A r \in Runs : ~(Fail(r) \/ DeleteFails(r))]_vars

-----------------------------------------------------------------------------
(* Properties. *)

\* Fleet Server never has a token that Elasticsearch does not know: no re-run revokes
\* the one it works with (bootstrap.sh:174-176), whatever run was cut short where.
\* It takes one run at a time.
FleetTokenValid == fleet # 0 => fleet = valid

\* A run that ends well leaves Fleet Server, .env and Elasticsearch with one and the
\* same token, so that the next run finds it.
DoneMeansShared ==
    \A r \in Runs : pc[r] = "ok" => valid # 0 /\ env = valid /\ fleet = valid

\* A token that was minted and lost stands in the way of the next only until the
\* script is run again: Fleet Server gets its token in the end.
FleetServerStarts == <>[](fleet # 0 /\ fleet = valid)
=============================================================================
