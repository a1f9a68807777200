------------------------- MODULE ServiceTokenProofs -------------------------
(***************************************************************************)
(* ServiceToken, for any number of tokens: what one run of bootstrap.sh at *)
(* a time gets right, whenever it is cut short.                            *)
(***************************************************************************)
EXTENDS ServiceToken, TLAPS

\* .env holds the token Elasticsearch knows or none; Fleet Server has what .env holds
\* or none; and what a run knows of this, step by step.
Shared ==
    /\ env # 0 => valid = env
    /\ fleet # 0 => fleet = env
    /\ \A r \in Runs :
          /\ pc[r] = "look" => token[r] = env
          /\ pc[r] \in {"delete", "mint", "write"} => env = 0
          /\ pc[r] = "write" => token[r] = valid
          /\ pc[r] = "up" => token[r] = env
          /\ pc[r] = "ok" => env # 0 /\ fleet = env

IndInv == TypeOK /\ Shared

LEMMA InitInv == Init => IndInv
BY TokenAssumption DEF Init, IndInv, TypeOK, Shared, TokenAssumption, Ended, Active

LEMMA NextTypeOK == TypeOK /\ [Next]_vars => TypeOK'
<1> SUFFICES ASSUME TypeOK, [Next]_vars
             PROVE  TypeOK'
    OBVIOUS
<1> USE TokenAssumption DEF TokenAssumption, TypeOK, Ended, Active
<1>1. ASSUME NEW r \in Runs, Start(r) PROVE TypeOK'
    BY <1>1 DEF Start
<1>2. ASSUME NEW r \in Runs, Look(r) PROVE TypeOK'
    BY <1>2 DEF Look
<1>3. ASSUME NEW r \in Runs, DeleteStale(r) \/ DeleteFails(r) PROVE TypeOK'
    BY <1>3 DEF DeleteStale, DeleteFails
<1>4. ASSUME NEW r \in Runs, Mint(r) PROVE TypeOK'
    BY <1>4 DEF Mint
<1>5. ASSUME NEW r \in Runs, MintRefused(r) PROVE TypeOK'
    BY <1>5 DEF MintRefused
<1>6. ASSUME NEW r \in Runs, WriteEnv(r) \/ Up(r) PROVE TypeOK'
    BY <1>6 DEF WriteEnv, Up
<1>7. ASSUME NEW r \in Runs, Fail(r) PROVE TypeOK'
    BY <1>7 DEF Fail
<1>8. CASE ComposeUp
    BY <1>8 DEF ComposeUp
<1>9. CASE UNCHANGED vars
    BY <1>9 DEF vars
<1> QED BY <1>1, <1>2, <1>3, <1>4, <1>5, <1>6, <1>7, <1>8, <1>9 DEF Next, RunStep

\* Type correctness holds whatever runs overlap.
THEOREM TypeCorrect == Spec => []TypeOK
<1>1. Init => TypeOK
    BY InitInv DEF IndInv
<1> QED BY <1>1, NextTypeOK, PTL DEF Spec

LEMMA NextShared ==
    ASSUME \A r, s \in Runs : r = s
    PROVE  IndInv /\ [Next]_vars => Shared'
<1> SUFFICES ASSUME IndInv, [Next]_vars
             PROVE  Shared'
    OBVIOUS
<1> USE TokenAssumption DEF TokenAssumption, IndInv, TypeOK, Shared, Ended, Active
<1>1. ASSUME NEW r \in Runs, Start(r) PROVE Shared'
    BY <1>1 DEF Start
<1>2. ASSUME NEW r \in Runs, Look(r) PROVE Shared'
    BY <1>2 DEF Look
<1>3. ASSUME NEW r \in Runs, DeleteStale(r) \/ DeleteFails(r) PROVE Shared'
    BY <1>3 DEF DeleteStale, DeleteFails
<1>4. ASSUME NEW r \in Runs, Mint(r) PROVE Shared'
    BY <1>4 DEF Mint
<1>5. ASSUME NEW r \in Runs, MintRefused(r) PROVE Shared'
    BY <1>5 DEF MintRefused
<1>6. ASSUME NEW r \in Runs, WriteEnv(r) \/ Up(r) PROVE Shared'
    BY <1>6 DEF WriteEnv, Up
<1>7. ASSUME NEW r \in Runs, Fail(r) PROVE Shared'
    BY <1>7 DEF Fail
<1>8. CASE ComposeUp
    BY <1>8 DEF ComposeUp
<1>9. CASE UNCHANGED vars
    BY <1>9 DEF vars
<1> QED BY <1>1, <1>2, <1>3, <1>4, <1>5, <1>6, <1>7, <1>8, <1>9 DEF Next, RunStep

\* One run at a time never leaves Fleet Server with a token Elasticsearch does not know
\* (bootstrap.sh:174-184), wherever it or an earlier run was cut short.
THEOREM FleetKeepsItsToken ==
    ASSUME \A r, s \in Runs : r = s
    PROVE  Spec => []FleetTokenValid
<1>1. IndInv /\ [Next]_vars => IndInv'
    BY NextTypeOK, NextShared DEF IndInv
<1>2. IndInv => FleetTokenValid
    BY DEF IndInv, TypeOK, Shared, FleetTokenValid
<1> QED BY InitInv, <1>1, <1>2, PTL DEF Spec

\* One run at a time that ends well leaves all three places with the same token.
THEOREM SharedWhenDone ==
    ASSUME \A r, s \in Runs : r = s
    PROVE  Spec => []DoneMeansShared
<1>1. IndInv /\ [Next]_vars => IndInv'
    BY NextTypeOK, NextShared DEF IndInv
<1>2. IndInv => DoneMeansShared
    BY DEF IndInv, TypeOK, Shared, DoneMeansShared
<1> QED BY InitInv, <1>1, <1>2, PTL DEF Spec
=============================================================================
