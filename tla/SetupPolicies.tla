--------------------------- MODULE SetupPolicies ---------------------------
(***************************************************************************)
(* fleet/setup-policies.py: the script that creates the Fleet agent        *)
(* policies and fills each new one with its integrations, run by hand or   *)
(* by stack/bootstrap.sh, any number of times and possibly by two          *)
(* operators at once, against a Fleet that a user edits meanwhile.         *)
(*                                                                         *)
(* One API call of a run is one step, so a run can be overtaken by another *)
(* run or by the user between any two calls, and can die at any of them.   *)
(* An integration is its name; its content is one of "none" (it does not   *)
(* exist), "stock" (what the script posts) and "edited" (anything else).   *)
(***************************************************************************)
EXTENDS Naturals, Sequences

CONSTANTS
    Runs,       \* the invocations that can be active at the same time
    Policies,   \* the agent policies main() ensures
    Order,      \* the order in which it ensures them
    Names,      \* the integration policies it adds, all agent policies together
    Script,     \* the order of the add() calls of all three *_policy() functions
    PolicyOf    \* the agent policy each integration belongs to

ASSUME SetupAssumption ==
    /\ Order \in Seq(Policies) /\ Len(Order) > 0
    /\ Script \in Seq(Names)
    /\ PolicyOf \in [Names -> Policies]

VARIABLES
    policies,      \* Fleet: the agent policies that exist
    integrations,  \* Fleet: the content of each integration policy
    pc,            \* where each run is
    at,            \* the index in Order or in Script it has reached
    fresh,         \* the policies ensure_agent_policy() returned True for
    touched,       \* history: integrations the user changed since a run began
    found          \* history: policies there when a run began, not deleted since

vars == <<policies, integrations, pc, at, fresh, touched, found>>

Ended  == {"idle", "ok", "failed"}
Active == {"list", "create", "add"}

NamesOf(p) == {n \in Names : PolicyOf[n] = p}

TypeOK ==
    /\ policies \subseteq Policies
    /\ integrations \in [Names -> {"none", "stock", "edited"}]
    /\ pc \in [Runs -> Ended \union Active]
    /\ at \in [Runs -> Nat]
    /\ fresh \in [Runs -> SUBSET Policies]
    /\ touched \in [Runs -> SUBSET Names]
    /\ found \in [Runs -> SUBSET Policies]
    /\ \A r \in Runs : /\ pc[r] \in {"list", "create"} => at[r] \in 1..Len(Order)
                       /\ pc[r] = "add" => at[r] \in 1..Len(Script)

Init ==
    /\ policies = {}
    /\ integrations = [n \in Names |-> "none"]
    /\ pc = [r \in Runs |-> "idle"]
    /\ at = [r \in Runs |-> 0]
    /\ fresh = [r \in Runs |-> {}]
    /\ touched = [r \in Runs |-> {}]
    /\ found = [r \in Runs |-> {}]

-----------------------------------------------------------------------------
(* One run of the script. *)

\* main() is entered: nothing is known yet.
Start(r) ==
    /\ pc[r] \in Ended
    /\ pc' = [pc EXCEPT ![r] = "list"]
    /\ at' = [at EXCEPT ![r] = 1]
    /\ fresh' = [fresh EXCEPT ![r] = {}]
    /\ touched' = [touched EXCEPT ![r] = {}]
    /\ found' = [found EXCEPT ![r] = policies]
    /\ UNCHANGED <<policies, integrations>>

Remaining_AllPolicies(i, f) == {j \in 1..Len(Script) : i <= j}

Remaining_SkipsOne(i, f) ==
    {j \in 1..Len(Script) : /\ (IF i = 1 THEN i <= j ELSE i < j)
                            /\ PolicyOf[Script[j]] \in f}

\* The add() calls from position i on that main() makes when f is fresh.
Remaining(i, f) == {j \in 1..Len(Script) : i <= j /\ PolicyOf[Script[j]] \in f}

\* Go to the next add() call, or return 0 when there is none left.
GoOn(r, i, f) ==
    \/ /\ Remaining(i, f) = {}
       /\ pc' = [pc EXCEPT ![r] = "ok"]
       /\ at' = [at EXCEPT ![r] = 0]
    \/ \E j \in Remaining(i, f) :
          /\ \A k \in Remaining(i, f) : j <= k
          /\ pc' = [pc EXCEPT ![r] = "add"]
          /\ at' = [at EXCEPT ![r] = j]

Ensured_OffByOne(r, f) ==
    IF at[r] <= Len(Order)
    THEN /\ pc' = [pc EXCEPT ![r] = "list"]
         /\ at' = [at EXCEPT ![r] = at[r] + 1]
    ELSE GoOn(r, 1, f)

\* Policy Order[at[r]] is settled; f is what is fresh now. All the policies are
\* ensured before the first integration is added to any of them.
Ensured(r, f) ==
    IF at[r] < Len(Order)
    THEN /\ pc' = [pc EXCEPT ![r] = "list"]
         /\ at' = [at EXCEPT ![r] = at[r] + 1]
    ELSE GoOn(r, 1, f)

\* The GET of ensure_agent_policy(): an existing policy is left alone.
ListPolicies(r) ==
    /\ pc[r] = "list"
    /\ \/ /\ Order[at[r]] \in policies
          /\ Ensured(r, fresh[r])
       \/ /\ Order[at[r]] \notin policies
          /\ pc' = [pc EXCEPT ![r] = "create"]
          /\ UNCHANGED at
    /\ UNCHANGED <<policies, integrations, fresh, touched, found>>

CreatePolicy_ConflictIsCreated(r) ==
    /\ pc[r] = "create"
    /\ LET p == Order[at[r]] IN
          /\ policies' = policies \union {p}
          /\ fresh' = [fresh EXCEPT ![r] = @ \union {p}]
          /\ Ensured(r, fresh[r] \union {p})
    /\ UNCHANGED <<integrations, touched, found>>

\* The POST of ensure_agent_policy(). The answer to the GET may be stale: Fleet
\* refuses an id another run has created since, and the run exits 1.
CreatePolicy(r) ==
    /\ pc[r] = "create"
    /\ LET p == Order[at[r]] IN
          /\ p \notin policies
          /\ policies' = policies \union {p}
          /\ fresh' = [fresh EXCEPT ![r] = @ \union {p}]
          /\ Ensured(r, fresh[r] \union {p})
    /\ UNCHANGED <<integrations, touched, found>>

\* The POST of add(): Fleet refuses a name it has, and a policy it lacks.
AddIntegration(r) ==
    /\ pc[r] = "add"
    /\ LET n == Script[at[r]] IN
          /\ PolicyOf[n] \in policies
          /\ integrations[n] = "none"
          /\ integrations' = [integrations EXCEPT ![n] = "stock"]
    /\ GoOn(r, at[r] + 1, fresh[r])
    /\ UNCHANGED <<policies, fresh, touched, found>>

\* The script ends with status 1: an API call was refused or timed out, or the
\* process was killed. Nothing is undone.
Fail(r) ==
    /\ pc[r] \in Active
    /\ pc' = [pc EXCEPT ![r] = "failed"]
    /\ UNCHANGED <<policies, integrations, at, fresh, touched, found>>

\* As Fail, but Fleet carried out the POST whose answer was lost.
FailAfterPost(r) ==
    /\ pc[r] \in {"create", "add"}
    /\ pc' = [pc EXCEPT ![r] = "failed"]
    /\ \/ /\ pc[r] = "create"
          /\ policies' = policies \union {Order[at[r]]}
          /\ UNCHANGED integrations
       \/ /\ pc[r] = "add"
          /\ PolicyOf[Script[at[r]]] \in policies
          /\ integrations[Script[at[r]]] = "none"
          /\ integrations' = [integrations EXCEPT ![Script[at[r]]] = "stock"]
          /\ UNCHANGED policies
    /\ UNCHANGED <<at, fresh, touched, found>>

RunStep(r) ==
    \/ Start(r) \/ ListPolicies(r) \/ CreatePolicy(r) \/ AddIntegration(r)
    \/ Fail(r) \/ FailAfterPost(r)

-----------------------------------------------------------------------------
(* The user, in the Fleet UI. *)

Touch(ns) == touched' = [r \in Runs |-> touched[r] \union ns]

EditIntegration(n) ==
    /\ integrations[n] # "none"
    /\ integrations' = [integrations EXCEPT ![n] = "edited"]
    /\ Touch({n})
    /\ UNCHANGED <<policies, pc, at, fresh, found>>

RemoveIntegration(n) ==
    /\ integrations[n] # "none"
    /\ integrations' = [integrations EXCEPT ![n] = "none"]
    /\ Touch({n})
    /\ UNCHANGED <<policies, pc, at, fresh, found>>

\* Fleet deletes the integrations of an agent policy with it.
DeletePolicy(p) ==
    /\ p \in policies
    /\ policies' = policies \ {p}
    /\ integrations' =
          [n \in Names |-> IF PolicyOf[n] = p THEN "none" ELSE integrations[n]]
    /\ Touch(NamesOf(p))
    /\ found' = [r \in Runs |-> found[r] \ {p}]
    /\ UNCHANGED <<pc, at, fresh>>

UserStep ==
    \/ \E n \in Names : EditIntegration(n) \/ RemoveIntegration(n)
    \/ \E p \in Policies : DeletePolicy(p)

Next == (\E r \in Runs : RunStep(r)) \/ UserStep

Spec == Init /\ [][Next]_vars

\* The script alone: nobody edits anything in the Fleet UI.
SpecNoUser == Init /\ [][\E r \in Runs : RunStep(r)]_vars

-----------------------------------------------------------------------------
(* Properties. *)

\* The i-th add() of the script did its work, if it is run r's to make at all.
Installed(r, i) ==
    PolicyOf[Script[i]] \in fresh[r] =>
        integrations[Script[i]] = "stock" \/ Script[i] \in touched[r]

\* "Delete a policy in Kibana and re-run to get the stock version back"
\* (setup-policies.py:6): a run that exits 0 leaves every integration of every
\* policy it created stock, but for those the user changed while it ran; no other
\* run, and no call answered late, makes an exception.
CompleteOnSuccess ==
    \A r \in Runs : pc[r] = "ok" => \A i \in 1..Len(Script) : Installed(r, i)

\* "Existing policies are left alone" (setup-policies.py:5): a run deletes nothing,
\* overwrites no integration, and adds none to a policy it found when it began, even
\* where the user has removed one of the stock integrations from it.
LeavesExistingAlone ==
    [][\A r \in Runs : RunStep(r) =>
          /\ policies \subseteq policies'
          /\ \A n \in Names :
                \/ integrations'[n] = integrations[n]
                \/ integrations[n] = "none" /\ PolicyOf[n] \notin found[r]]_vars

\* Two runs at once never both take one agent policy for their own to fill, though
\* both may have seen it missing: unless the user deleted it in between.
OneCreatorFills ==
    \A r, s \in Runs :
        (r # s /\ pc[r] \in Active /\ pc[s] \in Active) =>
            \A p \in fresh[r] \intersect fresh[s] :
                NamesOf(p) \subseteq touched[r] \union touched[s]

\* bootstrap.sh:2, of the steps this script is one of: "Safe to re-run: every step
\* is idempotent". A run that exits 0 would leave every agent policy that exists
\* filled, where no user has touched Fleet. It does not: see the README.
RerunCompletes ==
    \A r \in Runs : pc[r] = "ok" =>
        \A n \in Names : PolicyOf[n] \in policies => integrations[n] # "none"
=============================================================================
