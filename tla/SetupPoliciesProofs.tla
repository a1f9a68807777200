------------------------ MODULE SetupPoliciesProofs ------------------------
(***************************************************************************)
(* Proofs about SetupPolicies, for any number of runs, agent policies and  *)
(* integrations, in any order.                                             *)
(***************************************************************************)
EXTENDS SetupPolicies, TLAPS

\* An active run stands at an integration of a policy it created, and every such
\* integration before it is stock, unless the user touched it.
FillingAt(r) ==
    pc[r] = "add" => /\ PolicyOf[Script[at[r]]] \in fresh[r]
                     /\ \A i \in 1..Len(Script) : i < at[r] => Installed(r, i)
Filling == \A r \in Runs : FillingAt(r)

CompleteAt(r) == pc[r] = "ok" => \A i \in 1..Len(Script) : Installed(r, i)

\* A policy an active run created is still there, or the user deleted it meanwhile.
StillOwned ==
    \A r \in Runs : pc[r] \in Active =>
        \A p \in fresh[r] : p \in policies \/ NamesOf(p) \subseteq touched[r]

\* What a run found when it began it did not create.
FoundNotFresh ==
    \A r \in Runs : found[r] \subseteq policies /\ fresh[r] \intersect found[r] = {}

IndInv == /\ TypeOK /\ Filling /\ CompleteOnSuccess
          /\ StillOwned /\ OneCreatorFills /\ FoundNotFresh

-----------------------------------------------------------------------------

LEMMA GoOnFacts ==
    ASSUME TypeOK, NEW r \in Runs, NEW i \in Nat, NEW f, GoOn(r, i, f)
    PROVE  /\ pc' \in [Runs -> Ended \union Active]
           /\ at' \in [Runs -> Nat]
           /\ \A s \in Runs \ {r} : pc'[s] = pc[s] /\ at'[s] = at[s]
           /\ \/ pc'[r] = "ok" /\ Remaining(i, f) = {}
              \/ /\ pc'[r] = "add" /\ at'[r] \in Remaining(i, f)
                 /\ \A k \in Remaining(i, f) : at'[r] <= k
<1>1. CASE /\ Remaining(i, f) = {}
           /\ pc' = [pc EXCEPT ![r] = "ok"]
           /\ at' = [at EXCEPT ![r] = 0]
  BY <1>1 DEF TypeOK, Ended
<1>2. ASSUME NEW j \in Remaining(i, f),
             \A k \in Remaining(i, f) : j <= k,
             pc' = [pc EXCEPT ![r] = "add"],
             at' = [at EXCEPT ![r] = j]
      PROVE  /\ pc' \in [Runs -> Ended \union Active]
             /\ at' \in [Runs -> Nat]
             /\ \A s \in Runs \ {r} : pc'[s] = pc[s] /\ at'[s] = at[s]
             /\ pc'[r] = "add" /\ at'[r] = j
  <2>1. j \in Nat
    BY SetupAssumption DEF Remaining
  <2> QED
    BY <1>2, <2>1 DEF TypeOK, Active
<1> QED
  BY <1>1, <1>2 DEF GoOn

LEMMA EnsuredFacts ==
    ASSUME TypeOK, NEW r \in Runs, NEW f, Ensured(r, f), at[r] \in 1..Len(Order)
    PROVE  /\ pc' \in [Runs -> Ended \union Active]
           /\ at' \in [Runs -> Nat]
           /\ \A s \in Runs \ {r} : pc'[s] = pc[s] /\ at'[s] = at[s]
           /\ \/ pc'[r] = "list" /\ at'[r] \in 1..Len(Order)
              \/ pc'[r] = "ok" /\ Remaining(1, f) = {}
              \/ /\ pc'[r] = "add" /\ at'[r] \in Remaining(1, f)
                 /\ \A k \in Remaining(1, f) : at'[r] <= k
<1>1. CASE at[r] < Len(Order)
  <2>1. /\ pc' = [pc EXCEPT ![r] = "list"]
        /\ at' = [at EXCEPT ![r] = at[r] + 1]
    BY <1>1 DEF Ensured
  <2>2. at[r] + 1 \in 1..Len(Order)
    BY <1>1, SetupAssumption
  <2> QED
    BY <2>1, <2>2 DEF TypeOK, Active
<1>2. CASE ~(at[r] < Len(Order))
  <2>1. GoOn(r, 1, f)
    BY <1>2 DEF Ensured
  <2> QED
    BY <2>1, GoOnFacts
<1> QED
  BY <1>1, <1>2

-----------------------------------------------------------------------------

\* A run that has done every add() before position b, and goes on to the first one
\* left from b, has done every add() before the one it now stands at.
LEMMA Arrived ==
    ASSUME NEW r \in Runs, NEW b \in Nat,
           \A i \in 1..Len(Script) : i < b => Installed(r, i)',
           \/ pc'[r] = "ok" /\ Remaining(b, fresh'[r]) = {}
           \/ /\ pc'[r] = "add" /\ at'[r] \in Remaining(b, fresh'[r])
              /\ \A k \in Remaining(b, fresh'[r]) : at'[r] <= k
    PROVE  FillingAt(r)' /\ CompleteAt(r)'
<1> USE SetupAssumption
<1>1. \A i \in 1..Len(Script) :
         i \notin Remaining(b, fresh'[r]) => Installed(r, i)'
  BY DEF Remaining, Installed
<1>2. CASE pc'[r] = "ok" /\ Remaining(b, fresh'[r]) = {}
  BY <1>1, <1>2 DEF FillingAt, CompleteAt
<1>3. CASE /\ pc'[r] = "add" /\ at'[r] \in Remaining(b, fresh'[r])
           /\ \A k \in Remaining(b, fresh'[r]) : at'[r] <= k
  <2>1. at'[r] \in 1..Len(Script) /\ PolicyOf[Script[at'[r]]] \in fresh'[r]
    BY <1>3 DEF Remaining
  <2>2. \A i \in 1..Len(Script) : i < at'[r] => i \notin Remaining(b, fresh'[r])
    BY <1>3, <2>1
  <2> QED
    BY <1>1, <1>3, <2>1, <2>2 DEF FillingAt, CompleteAt
<1> QED
  BY <1>2, <1>3

LEMMA InitInv == Init => IndInv
BY SetupAssumption
DEF Init, IndInv, TypeOK, Filling, FillingAt, CompleteOnSuccess, StillOwned, OneCreatorFills,
    FoundNotFresh, Ended, Active

LEMMA NextInv == IndInv /\ [Next]_vars => IndInv'
<1> SUFFICES ASSUME IndInv, [Next]_vars
             PROVE  IndInv'
  OBVIOUS
<1> USE SetupAssumption
<1>1. ASSUME NEW r \in Runs, Start(r)
      PROVE  IndInv'
  <2>1. TypeOK' /\ FoundNotFresh'
    BY <1>1 DEF IndInv, TypeOK, FoundNotFresh, Start, Ended, Active
  <2>2. Filling' /\ CompleteOnSuccess'
    BY <1>1 DEF IndInv, TypeOK, Filling, FillingAt, CompleteOnSuccess, Installed, Start
  <2>3. StillOwned' /\ OneCreatorFills'
    BY <1>1 DEF IndInv, TypeOK, StillOwned, OneCreatorFills, Start, Active, NamesOf
  <2> QED
    BY <2>1, <2>2, <2>3 DEF IndInv
<1>2. ASSUME NEW r \in Runs, ListPolicies(r)
      PROVE  IndInv'
  <2>1. /\ pc' \in [Runs -> Ended \union Active]
        /\ at' \in [Runs -> Nat]
        /\ \A s \in Runs \ {r} : pc'[s] = pc[s] /\ at'[s] = at[s]
        /\ \/ pc'[r] \in {"list", "create"} /\ at'[r] \in 1..Len(Order)
           \/ pc'[r] = "ok" /\ Remaining(1, fresh[r]) = {}
           \/ /\ pc'[r] = "add" /\ at'[r] \in Remaining(1, fresh[r])
              /\ \A k \in Remaining(1, fresh[r]) : at'[r] <= k
    BY <1>2, EnsuredFacts DEF ListPolicies, IndInv, TypeOK, Ended, Active
  <2>2. pc[r] \in Active /\ UNCHANGED <<policies, integrations, fresh, touched, found>>
    BY <1>2 DEF ListPolicies, Active
  <2>3. TypeOK'
    BY <2>1, <2>2 DEF IndInv, TypeOK, Remaining
  <2>4. Filling' /\ CompleteOnSuccess'
    <3>1. \A s \in Runs, i \in 1..Len(Script) : Installed(s, i)' <=> Installed(s, i)
      BY <2>2 DEF Installed
    <3>2. ASSUME NEW s \in Runs \ {r}
          PROVE  FillingAt(s)' /\ CompleteAt(s)'
      BY <2>1, <2>2, <3>1, <3>2 DEF IndInv, Filling, FillingAt, CompleteOnSuccess, CompleteAt
    <3>3. FillingAt(r)' /\ CompleteAt(r)'
      <4>1. CASE pc'[r] \in {"list", "create"}
        BY <4>1 DEF FillingAt, CompleteAt
      <4>2. CASE pc'[r] \notin {"list", "create"}
        <5>1. \/ pc'[r] = "ok" /\ Remaining(1, fresh'[r]) = {}
              \/ /\ pc'[r] = "add" /\ at'[r] \in Remaining(1, fresh'[r])
                 /\ \A k \in Remaining(1, fresh'[r]) : at'[r] <= k
          BY <2>1, <2>2, <4>2
        <5>2. \A i \in 1..Len(Script) : i < 1 => Installed(r, i)'
          OBVIOUS
        <5> QED
          BY <5>1, <5>2, Arrived
      <4> QED
        BY <4>1, <4>2
    <3> QED
      BY <3>2, <3>3 DEF Filling, CompleteOnSuccess, FillingAt, CompleteAt
  <2>5. \A s \in Runs : pc'[s] \in Active => pc[s] \in Active
    BY <2>1, <2>2
  <2>6. StillOwned' /\ OneCreatorFills' /\ FoundNotFresh'
    BY <2>2, <2>5 DEF IndInv, StillOwned, OneCreatorFills, FoundNotFresh, NamesOf
  <2> QED
    BY <2>3, <2>4, <2>6 DEF IndInv
<1>3. ASSUME NEW r \in Runs, CreatePolicy(r)
      PROVE  IndInv'
  <2> DEFINE p == Order[at[r]]
             f == fresh[r] \union {p}
  <2>1. /\ pc[r] = "create" /\ p \in Policies /\ p \notin policies
        /\ at[r] \in 1..Len(Order)
        /\ policies' = policies \union {p}
        /\ fresh' = [fresh EXCEPT ![r] = f]
        /\ UNCHANGED <<integrations, touched, found>>
    BY <1>3 DEF CreatePolicy, IndInv, TypeOK
  <2>2. /\ pc' \in [Runs -> Ended \union Active]
        /\ at' \in [Runs -> Nat]
        /\ \A s \in Runs \ {r} : pc'[s] = pc[s] /\ at'[s] = at[s]
        /\ \/ pc'[r] = "list" /\ at'[r] \in 1..Len(Order)
           \/ pc'[r] = "ok" /\ Remaining(1, f) = {}
           \/ /\ pc'[r] = "add" /\ at'[r] \in Remaining(1, f)
              /\ \A k \in Remaining(1, f) : at'[r] <= k
    BY <1>3, <2>1, EnsuredFacts DEF CreatePolicy, IndInv
  <2>3. fresh'[r] = f /\ \A s \in Runs \ {r} : fresh'[s] = fresh[s]
    BY <2>1 DEF IndInv, TypeOK
  <2> HIDE DEF f
  <2>4. TypeOK'
    <3>1. f \subseteq Policies
      BY <2>1 DEF f, IndInv, TypeOK
    <3> QED
      BY <2>1, <2>2, <3>1 DEF IndInv, TypeOK, Remaining
  <2>5. Filling' /\ CompleteOnSuccess'
    <3>1. ASSUME NEW s \in Runs \ {r}
          PROVE  FillingAt(s)' /\ CompleteAt(s)'
      BY <2>1, <2>2, <2>3, <3>1
      DEF IndInv, Filling, FillingAt, CompleteOnSuccess, CompleteAt, Installed
    <3>2. FillingAt(r)' /\ CompleteAt(r)'
      <4>1. CASE pc'[r] = "list"
        BY <4>1 DEF FillingAt, CompleteAt
      <4>2. CASE pc'[r] # "list"
        <5>1. \/ pc'[r] = "ok" /\ Remaining(1, fresh'[r]) = {}
              \/ /\ pc'[r] = "add" /\ at'[r] \in Remaining(1, fresh'[r])
                 /\ \A k \in Remaining(1, fresh'[r]) : at'[r] <= k
          BY <2>2, <2>3, <4>2
        <5>2. \A i \in 1..Len(Script) : i < 1 => Installed(r, i)'
          OBVIOUS
        <5> QED
          BY <5>1, <5>2, Arrived
      <4> QED
        BY <4>1, <4>2
    <3> QED
      BY <3>1, <3>2 DEF Filling, CompleteOnSuccess, FillingAt, CompleteAt
  <2>6. StillOwned'
    BY <2>1, <2>2, <2>3 DEF f, IndInv, TypeOK, StillOwned, NamesOf, Active
  <2>7. OneCreatorFills'
    <3>1. \A s \in Runs \ {r} :
             (pc[s] \in Active /\ p \in fresh[s]) => NamesOf(p) \subseteq touched[s]
      BY <2>1 DEF IndInv, StillOwned
    <3>2. pc[r] \in Active /\ fresh[r] \subseteq f /\ f \subseteq fresh[r] \union {p}
      BY <2>1 DEF f, Active
    <3>4. ASSUME NEW s \in Runs \ {r}, pc'[s] \in Active, NEW q \in f \intersect fresh[s]
          PROVE  NamesOf(q) \subseteq touched[r] \union touched[s]
      <4>1. CASE q = p
        BY <2>2, <3>1, <3>4, <4>1
      <4>2. CASE q # p
        BY <2>2, <3>2, <3>4, <4>2 DEF IndInv, OneCreatorFills
      <4> QED
        BY <4>1, <4>2
    <3>5. ASSUME NEW s \in Runs \ {r}, NEW u \in Runs \ {r}, s # u,
                 pc'[s] \in Active, pc'[u] \in Active, NEW q \in fresh[s] \intersect fresh[u]
          PROVE  NamesOf(q) \subseteq touched[s] \union touched[u]
      BY <2>2, <3>5 DEF IndInv, OneCreatorFills
    <3> QED
      BY <2>1, <2>3, <3>4, <3>5 DEF OneCreatorFills, NamesOf
  <2>8. FoundNotFresh'
    BY <2>1, <2>3 DEF f, IndInv, TypeOK, FoundNotFresh
  <2> QED
    BY <2>4, <2>5, <2>6, <2>7, <2>8 DEF IndInv
<1>4. ASSUME NEW r \in Runs, AddIntegration(r)
      PROVE  IndInv'
  <2> DEFINE n == Script[at[r]]
  <2>1. /\ pc[r] = "add" /\ at[r] \in 1..Len(Script) /\ n \in Names
        /\ integrations' = [integrations EXCEPT ![n] = "stock"]
        /\ UNCHANGED <<policies, fresh, touched, found>>
    BY <1>4 DEF AddIntegration, IndInv, TypeOK
  <2>2. /\ pc' \in [Runs -> Ended \union Active]
        /\ at' \in [Runs -> Nat]
        /\ \A s \in Runs \ {r} : pc'[s] = pc[s] /\ at'[s] = at[s]
        /\ \/ pc'[r] = "ok" /\ Remaining(at[r] + 1, fresh[r]) = {}
           \/ /\ pc'[r] = "add" /\ at'[r] \in Remaining(at[r] + 1, fresh[r])
              /\ \A k \in Remaining(at[r] + 1, fresh[r]) : at'[r] <= k
    BY <1>4, <2>1, GoOnFacts DEF AddIntegration, IndInv
  <2>3. /\ integrations'[n] = "stock"
        /\ \A m \in Names \ {n} : integrations'[m] = integrations[m]
    BY <2>1 DEF IndInv, TypeOK
  <2>4. TypeOK'
    BY <2>1, <2>2 DEF IndInv, TypeOK, Remaining
  <2>5. \A s \in Runs, i \in 1..Len(Script) : Installed(s, i) => Installed(s, i)'
    BY <2>1, <2>3 DEF Installed
  <2>6. Filling' /\ CompleteOnSuccess'
    <3>1. ASSUME NEW s \in Runs \ {r}
          PROVE  FillingAt(s)' /\ CompleteAt(s)'
      BY <2>1, <2>2, <2>5, <3>1
      DEF IndInv, Filling, FillingAt, CompleteOnSuccess, CompleteAt
    <3>2. \A i \in 1..Len(Script) : i < at[r] + 1 => Installed(r, i)'
      <4>1. \A i \in 1..Len(Script) : i = at[r] => Installed(r, i)'
        BY <2>1, <2>3 DEF Installed
      <4>2. \A i \in 1..Len(Script) : i < at[r] => Installed(r, i)'
        BY <2>1, <2>5 DEF IndInv, Filling, FillingAt
      <4> QED
        BY <2>1, <4>1, <4>2
    <3>3. FillingAt(r)' /\ CompleteAt(r)'
      <4>1. fresh'[r] = fresh[r] /\ at[r] + 1 \in Nat
        BY <2>1
      <4>2. \/ pc'[r] = "ok" /\ Remaining(at[r] + 1, fresh'[r]) = {}
            \/ /\ pc'[r] = "add" /\ at'[r] \in Remaining(at[r] + 1, fresh'[r])
               /\ \A k \in Remaining(at[r] + 1, fresh'[r]) : at'[r] <= k
        BY <2>2, <4>1
      <4> QED
        BY <3>2, <4>1, <4>2, Arrived
    <3> QED
      BY <3>1, <3>3 DEF Filling, CompleteOnSuccess, FillingAt, CompleteAt
  <2>7. \A s \in Runs : pc'[s] \in Active => pc[s] \in Active
    BY <2>1, <2>2 DEF Active
  <2>8. StillOwned' /\ OneCreatorFills' /\ FoundNotFresh'
    BY <2>1, <2>7 DEF IndInv, StillOwned, OneCreatorFills, FoundNotFresh, NamesOf
  <2> QED
    BY <2>4, <2>6, <2>8 DEF IndInv
<1>5. ASSUME NEW r \in Runs, Fail(r) \/ FailAfterPost(r)
      PROVE  IndInv'
  <2>1. /\ pc[r] \in Active
        /\ pc' = [pc EXCEPT ![r] = "failed"]
        /\ policies \subseteq policies' /\ policies' \subseteq Policies
        /\ UNCHANGED <<at, fresh, touched, found>>
    BY <1>5 DEF Fail, FailAfterPost, IndInv, TypeOK, Active
  <2>2. /\ integrations' \in [Names -> {"none", "stock", "edited"}]
        /\ \A m \in Names : integrations'[m] \in {integrations[m], "stock"}
    BY <1>5 DEF Fail, FailAfterPost, IndInv, TypeOK
  <2>3. TypeOK' /\ FoundNotFresh'
    BY <2>1, <2>2 DEF IndInv, TypeOK, FoundNotFresh, Ended
  <2>4. Filling' /\ CompleteOnSuccess'
    <3>1. \A s \in Runs, i \in 1..Len(Script) : Installed(s, i) => Installed(s, i)'
      BY <2>1, <2>2 DEF Installed
    <3> QED
      BY <2>1, <3>1 DEF IndInv, TypeOK, Filling, FillingAt, CompleteOnSuccess
  <2>5. StillOwned' /\ OneCreatorFills'
    BY <2>1 DEF IndInv, TypeOK, StillOwned, OneCreatorFills, NamesOf, Active
  <2> QED
    BY <2>3, <2>4, <2>5 DEF IndInv
<1>6. ASSUME NEW n \in Names, EditIntegration(n) \/ RemoveIntegration(n)
      PROVE  IndInv'
  <2>1. /\ UNCHANGED <<policies, pc, at, fresh, found>>
        /\ touched' = [r \in Runs |-> touched[r] \union {n}]
        /\ integrations' \in [Names -> {"none", "stock", "edited"}]
        /\ \A m \in Names \ {n} : integrations'[m] = integrations[m]
    BY <1>6 DEF EditIntegration, RemoveIntegration, Touch, IndInv, TypeOK
  <2>2. TypeOK' /\ FoundNotFresh'
    BY <2>1 DEF IndInv, TypeOK, FoundNotFresh
  <2>3. Filling' /\ CompleteOnSuccess'
    <3>1. \A s \in Runs, i \in 1..Len(Script) : Installed(s, i) => Installed(s, i)'
      BY <2>1 DEF Installed
    <3> QED
      BY <2>1, <3>1 DEF IndInv, Filling, FillingAt, CompleteOnSuccess
  <2>4. StillOwned' /\ OneCreatorFills'
    BY <2>1 DEF IndInv, TypeOK, StillOwned, OneCreatorFills, NamesOf
  <2> QED
    BY <2>2, <2>3, <2>4 DEF IndInv
<1>7. ASSUME NEW p \in Policies, DeletePolicy(p)
      PROVE  IndInv'
  <2>1. /\ UNCHANGED <<pc, at, fresh>>
        /\ policies' = policies \ {p}
        /\ touched' = [r \in Runs |-> touched[r] \union NamesOf(p)]
        /\ found' = [r \in Runs |-> found[r] \ {p}]
        /\ integrations' \in [Names -> {"none", "stock", "edited"}]
        /\ \A m \in Names \ NamesOf(p) : integrations'[m] = integrations[m]
    BY <1>7 DEF DeletePolicy, Touch, NamesOf, IndInv, TypeOK
  <2>2. TypeOK' /\ FoundNotFresh'
    <3>1. NamesOf(p) \subseteq Names
      BY DEF NamesOf
    <3> QED
      BY <2>1, <3>1 DEF IndInv, TypeOK, FoundNotFresh
  <2>3. Filling' /\ CompleteOnSuccess'
    <3>1. \A s \in Runs, i \in 1..Len(Script) : Installed(s, i) => Installed(s, i)'
      BY <2>1 DEF Installed
    <3> QED
      BY <2>1, <3>1 DEF IndInv, Filling, FillingAt, CompleteOnSuccess
  <2>4. StillOwned' /\ OneCreatorFills'
    BY <2>1 DEF IndInv, TypeOK, StillOwned, OneCreatorFills
  <2> QED
    BY <2>2, <2>3, <2>4 DEF IndInv
<1>8. CASE UNCHANGED vars
  BY <1>8 DEF vars, IndInv, TypeOK, Filling, FillingAt, Installed, CompleteOnSuccess,
              StillOwned, OneCreatorFills, FoundNotFresh
<1> QED
  BY <1>1, <1>2, <1>3, <1>4, <1>5, <1>6, <1>7, <1>8 DEF Next, RunStep, UserStep

LEMMA SpecInv == Spec => []IndInv
BY InitInv, NextInv, PTL DEF Spec

-----------------------------------------------------------------------------

\* Every variable keeps its type, and a run's position stays inside the sequence it
\* walks: Order while it ensures the policies, Script while it fills them.
THEOREM TypeCorrect == Spec => []TypeOK
<1>1. IndInv => TypeOK
  BY DEF IndInv
<1> QED
  BY <1>1, SpecInv, PTL

\* A run that exits 0 leaves every policy it created complete and stock, but for what
\* the user changed while it ran, whatever other runs do: main() of setup-policies.py.
THEOREM Completeness == Spec => []CompleteOnSuccess
<1>1. IndInv => CompleteOnSuccess
  BY DEF IndInv
<1> QED
  BY <1>1, SpecInv, PTL

\* Concurrent runs never both fill one incarnation of an agent policy, though each
\* decides on a listing that may be stale: ensure_agent_policy().
THEOREM OneCreator == Spec => []OneCreatorFills
<1>1. IndInv => OneCreatorFills
  BY DEF IndInv
<1> QED
  BY <1>1, SpecInv, PTL

\* No run changes, deletes or completes anything it found when it began: the
\* "existing policies are left alone" of the script's header.
THEOREM ExistingLeftAlone == Spec => LeavesExistingAlone
<1> USE SetupAssumption
<1>1. IndInv /\ [Next]_vars =>
        [\A r \in Runs : RunStep(r) =>
            /\ policies \subseteq policies'
            /\ \A n \in Names :
                  \/ integrations'[n] = integrations[n]
                  \/ integrations[n] = "none" /\ PolicyOf[n] \notin found[r]]_vars
  <2> SUFFICES ASSUME IndInv, NEW r \in Runs, RunStep(r)
               PROVE  /\ policies \subseteq policies'
                      /\ \A n \in Names :
                            \/ integrations'[n] = integrations[n]
                            \/ integrations[n] = "none" /\ PolicyOf[n] \notin found[r]
    OBVIOUS
  <2>1. CASE Start(r) \/ ListPolicies(r) \/ CreatePolicy(r) \/ Fail(r)
    BY <2>1 DEF Start, ListPolicies, CreatePolicy, Fail
  <2>2. CASE AddIntegration(r) \/ FailAfterPost(r)
    BY <2>2 DEF AddIntegration, FailAfterPost, IndInv, TypeOK, Filling, FillingAt, FoundNotFresh
  <2> QED
    BY <2>1, <2>2 DEF RunStep
<1> QED
  BY <1>1, SpecInv, PTL DEF Spec, LeavesExistingAlone
=============================================================================
