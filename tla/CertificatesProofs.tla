------------------------- MODULE CertificatesProofs -------------------------
(***************************************************************************)
(* Proofs about Certificates, for any services, in any order, and any      *)
(* number of CAs: three scripts cut short anywhere, in any order, while    *)
(* containers restart.                                                     *)
(***************************************************************************)
EXTENDS Certificates, SequenceTheorems, TLAPS

\* A certificate file is missing, a leaf, or a leaf and one CA; what a container has read
\* is never a missing one. m is how many CAs there have been.
Chains(m) == {<<>>} \union {<<g>> : g \in 1..m} \union {<<g, h>> : g, h \in 1..m}

Containers(m) ==
    {Absent, Crashed} \union [state : {"running"}, chain : Chains(m) \ {<<>>}, ca : 1..m]

Typed ==
    /\ made \in CAs /\ ca \in 0..made /\ fingerprint \in CAs /\ outputFp \in CAs
    /\ crt \in [Services -> Chains(made)] /\ loaded \in [Services -> Containers(made)]
    /\ pc \in Steps \union {"idle"} /\ todo \subseteq All
    /\ pc \in {"issue", "append", "repair"} <=> todo # {}
    /\ last \in Endings /\ (last # "none" => pc = "idle")
    /\ setup \in {"partial", "making", "made"}
    /\ setup = "making" => pc \in SetupSteps
    /\ pc \in {"issue", "append", "env", "repair"} => ca # 0

ES == loaded["elasticsearch"]

\* How far setup-certs.sh has come with the files.
Setting ==
    /\ pc = "issue" => \A i \in All \ todo : crt[Order[i]] = <<ca>>
    /\ pc = "append" => \A i \in All : crt[Order[i]] = IF i \in todo THEN <<ca>> ELSE <<ca, ca>>
    /\ pc = "env" => \A i \in All : crt[Order[i]] = <<ca, ca>>

\* How far migrate-cert-chain.sh has come, and what stays so when it has ended well.
Repairing ==
    /\ pc = "repair" => \A i \in All : i \in todo <=> Len(crt[Order[i]]) = 1
    /\ pc \in {"restart", "verify"} \/ last = "verified" => \A s \in Services : Len(crt[s]) # 1
    /\ pc = "verify" \/ last = "verified" =>
          \A s \in Services : Running(s) => loaded[s].chain = crt[s]
    /\ last = "verified" => Running("elasticsearch") /\ crt["elasticsearch"] = <<ca, ca>>

\* What setup-certs.sh has made in one go, while no container was restarted: until the new
\* CA is complete Elasticsearch serves another, and afterwards its chain or another.
Making ==
    /\ setup = "making" /\ pc \in {"issue", "append", "env"} =>
          (Running("elasticsearch") => ES.chain[1] # ca)
    /\ setup = "made" =>
          /\ pc \in BootstrapSteps \union {"idle"} /\ ca # 0 /\ fingerprint = ca
          /\ \A s \in Services : crt[s] = <<ca, ca>>
          /\ (Running("elasticsearch") /\ ES.chain[1] = ca => ES.chain = <<ca, ca>>)
          /\ pc \in {"kibana", "available", "rest"} \/ last = "booted" =>
                Running("elasticsearch") /\ ES.chain = <<ca, ca>>
          /\ pc \in {"available", "rest"} \/ last = "booted" => outputFp = ca

IndInv == Typed /\ Setting /\ Repairing /\ Making

-----------------------------------------------------------------------------
(* Files and containers. *)

LEMMA Numbered ==
    /\ DOMAIN Order = 1..Len(Order) /\ \A i \in All : Order[i] \in Services
    /\ \A s \in Services : \E i \in All : Order[i] = s
    /\ \A i, k \in All : Order[i] = Order[k] => i = k
    /\ All # {} /\ {"elasticsearch", "kibana"} \subseteq Services
<1>1. DOMAIN Order = 1..Len(Order) /\ \A i \in 1..Len(Order) : Order[i] \in Services
  BY CertificatesAssumption
<1>2. QED
  BY <1>1, CertificatesAssumption DEF All

LEMMA Chained ==
    ASSUME NEW m \in Nat, NEW g \in 1..m, NEW h \in 1..m
    PROVE  Append(<<g>>, h) = <<g, h>>
<1>1. <<g>> \in Seq(1..m) /\ Len(<<g>>) = 1 /\ <<g>>[1] = g
  OBVIOUS
<1>2. <<g, h>> \in Seq(1..m) /\ Len(<<g, h>>) = 2 /\ <<g, h>>[1] = g /\ <<g, h>>[2] = h
  OBVIOUS
<1>3. /\ Append(<<g>>, h) \in Seq(1..m) /\ Len(Append(<<g>>, h)) = 2
      /\ Append(<<g>>, h)[1] = g /\ Append(<<g>>, h)[2] = h
  BY <1>1, AppendProperties
<1>4. \A i \in 1..2 : Append(<<g>>, h)[i] = <<g, h>>[i]
  BY <1>2, <1>3
<1>5. QED
  BY <1>2, <1>3, <1>4, SeqEqual

LEMMA Shapes ==
    ASSUME NEW m \in Nat, NEW x \in Chains(m)
    PROVE  /\ x \in Seq(1..m) /\ Len(x) <= 2
           /\ x # <<>> => Len(x) >= 1 /\ x[1] \in 1..m
           /\ Len(x) = 2 => x = <<x[1], x[2]>>
           /\ \A g \in 1..m : Len(x) = 1 => Append(x, g) \in Chains(m) /\ Len(Append(x, g)) = 2
<1>1. CASE x = <<>>
  BY <1>1
<1>2. ASSUME NEW g \in 1..m, x = <<g>>
      PROVE  /\ x \in Seq(1..m) /\ Len(x) = 1 /\ x[1] = g
             /\ \A h \in 1..m : Append(x, h) = <<g, h>>
  <2>1. x \in Seq(1..m) /\ Len(x) = 1 /\ x[1] = g
    BY <1>2
  <2>2. ASSUME NEW h \in 1..m PROVE Append(<<g>>, h) = <<g, h>>
    BY Chained
  <2>3. QED
    BY <1>2, <2>1, <2>2
<1>3. ASSUME NEW g \in 1..m, NEW h \in 1..m, x = <<g, h>>
      PROVE  x \in Seq(1..m) /\ Len(x) = 2 /\ x[1] = g /\ x[2] = h
  BY <1>3
<1>4. ASSUME NEW g \in 1..m, NEW h \in 1..m
      PROVE  <<g, h>> \in Chains(m) /\ Len(<<g, h>>) = 2
  BY DEF Chains
<1>5. CASE \E g \in 1..m : x = <<g>>
  <2>1. PICK g \in 1..m : x = <<g>>
    BY <1>5
  <2>2. x \in Seq(1..m) /\ Len(x) = 1 /\ x[1] = g
    BY <1>2, <2>1
  <2>3. \A h \in 1..m : Append(x, h) = <<g, h>>
    BY <1>2, <2>1
  <2>4. \A h \in 1..m : Append(x, h) \in Chains(m) /\ Len(Append(x, h)) = 2
    BY <2>3, <1>4
  <2>5. QED
    BY <2>2, <2>4
<1>6. CASE \E g, h \in 1..m : x = <<g, h>>
  <2>1. PICK g \in 1..m, h \in 1..m : x = <<g, h>>
    BY <1>6
  <2>2. x \in Seq(1..m) /\ Len(x) = 2 /\ x[1] = g /\ x[2] = h
    BY <1>3, <2>1
  <2>3. x # <<>> /\ x = <<x[1], x[2]>>
    BY <2>1, <2>2
  <2>4. QED
    BY <2>2, <2>3
<1>7. x = <<>> \/ (\E g \in 1..m : x = <<g>>) \/ \E g, h \in 1..m : x = <<g, h>>
  BY DEF Chains
<1>8. QED
  BY <1>1, <1>5, <1>6, <1>7

LEMMA Grow ==
    ASSUME NEW m \in Nat, NEW n \in Nat, m <= n
    PROVE  Chains(m) \subseteq Chains(n) /\ Containers(m) \subseteq Containers(n)
<1>1. 1..m \subseteq 1..n
  OBVIOUS
<1>2. Chains(m) \subseteq Chains(n)
  BY <1>1 DEF Chains
<1>3. QED
  BY <1>1, <1>2 DEF Containers

\* A container that starts has what is on disk.
LEMMA Starts ==
    ASSUME Typed, NEW s \in Services
    PROVE  /\ Started(s) \in Containers(made)
           /\ Started(s).state = "running" => Started(s).chain = crt[s] /\ ca # 0
           /\ ca # 0 /\ crt[s] # <<>> => Started(s).state = "running"
<1>1. CASE ca # 0 /\ crt[s] # <<>>
  <2>1. Started(s) = [state |-> "running", chain |-> crt[s], ca |-> ca]
    BY <1>1 DEF Started
  <2>2. ca \in 1..made /\ crt[s] \in Chains(made) \ {<<>>}
    BY <1>1 DEF Typed, CAs
  <2>3. QED
    BY <1>1, <2>1, <2>2 DEF Containers
<1>2. CASE ~(ca # 0 /\ crt[s] # <<>>)
  <2>1. Started(s) = Crashed
    BY <1>2 DEF Started
  <2>2. QED
    BY <1>2, <2>1 DEF Containers, Crashed
<1>3. QED
  BY <1>1, <1>2

LEMMA Running1 ==
    ASSUME Typed, NEW s \in Services, Running(s)
    PROVE  loaded[s].chain \in Chains(made) \ {<<>>} /\ loaded[s].chain[1] \in 1..made
<1>1. loaded[s] \in Containers(made)
  BY DEF Typed
<1>2. loaded[s].chain \in Chains(made) \ {<<>>}
  BY <1>1 DEF Running, Containers, Absent, Crashed
<1>3. made \in Nat
  BY CertificatesAssumption DEF Typed, CAs
<1>4. QED
  BY <1>2, <1>3, Shapes

LEMMA TypedIsTypeOK == Typed => TypeOK
<1> SUFFICES ASSUME Typed PROVE TypeOK
  OBVIOUS
<1>1. made \in Nat /\ 1..made \subseteq 1..MaxCAs /\ 0..made \subseteq CAs
  BY CertificatesAssumption DEF Typed, CAs
<1>2. Chains(made) \subseteq Seq(1..MaxCAs)
  <2>1. Chains(made) \subseteq Chains(MaxCAs)
    BY <1>1, Grow, CertificatesAssumption DEF Typed, CAs
  <2>2. Chains(MaxCAs) \subseteq Seq(1..MaxCAs)
    BY Shapes, CertificatesAssumption
  <2>3. QED
    BY <2>1, <2>2
<1>3. crt \in [Services -> Seq(1..MaxCAs)]
  BY <1>2 DEF Typed
<1>4. Containers(made) \subseteq {Absent, Crashed}
           \union [state : {"running"}, chain : Seq(1..MaxCAs), ca : 1..MaxCAs]
  BY <1>1, <1>2 DEF Containers
<1>5. loaded \in [Services -> {Absent, Crashed}
           \union [state : {"running"}, chain : Seq(1..MaxCAs), ca : 1..MaxCAs]]
  BY <1>4 DEF Typed
<1>6. ca \in CAs /\ made \in CAs /\ ca <= made
  BY <1>1 DEF Typed
<1>7. QED
  BY <1>3, <1>5, <1>6 DEF Typed, TypeOK, All

-----------------------------------------------------------------------------
(* setup-certs.sh *)

LEMMA SetupStartOk ==
    ASSUME IndInv, NEW yes \in BOOLEAN, SetupStart(yes)
    PROVE  IndInv'
<1>1. Typed'
  BY DEF IndInv, Typed, SetupStart, Begin, End, Steps, SetupSteps, Endings
<1>2. Setting'
  BY DEF IndInv, SetupStart, Begin, End, Setting
<1>3. Repairing'
  BY DEF IndInv, SetupStart, Begin, End, Repairing
<1>4. Making'
  BY DEF IndInv, Typed, SetupStart, Begin, End, Making, ES, Running, BootstrapSteps
<1>5. QED
  BY <1>1, <1>2, <1>3, <1>4 DEF IndInv

LEMMA WipeOk ==
    ASSUME IndInv, Wipe
    PROVE  IndInv'
<1>1. Typed'
  <2>1. <<>> \in Chains(made)
    BY DEF Chains
  <2>2. QED
    BY <2>1 DEF IndInv, Typed, Wipe, Goto, Steps, SetupSteps, CAs
<1>2. Setting'
  BY DEF Wipe, Goto, Setting
<1>3. Repairing'
  BY DEF IndInv, Typed, Wipe, Goto, Repairing
<1>4. Making'
  BY DEF IndInv, Wipe, Goto, Making, BootstrapSteps
<1>5. QED
  BY <1>1, <1>2, <1>3, <1>4 DEF IndInv

LEMMA GenerateCAOk ==
    ASSUME IndInv, GenerateCA
    PROVE  IndInv'
<1>1. made \in Nat /\ made + 1 \in CAs
  BY CertificatesAssumption DEF IndInv, Typed, CAs, GenerateCA
<1>2. Typed'
  <2>1. Chains(made) \subseteq Chains(made + 1) /\ Containers(made) \subseteq Containers(made + 1)
    BY <1>1, Grow
  <2>2. crt' \in [Services -> Chains(made')] /\ loaded' \in [Services -> Containers(made')]
    BY <2>1 DEF IndInv, Typed, GenerateCA
  <2>3. QED
    BY <1>1, <2>2, Numbered DEF IndInv, Typed, GenerateCA, Goto, Steps, SetupSteps, All
<1>3. Setting'
  BY DEF GenerateCA, Goto, Setting, All
<1>4. Repairing'
  BY DEF IndInv, Typed, GenerateCA, Goto, Repairing
<1>5. Making'
  <2>1. Running("elasticsearch") => ES.chain[1] # made + 1
    BY <1>1, Running1, Numbered DEF IndInv, ES
  <2>2. QED
    BY <2>1 DEF IndInv, GenerateCA, Goto, Making, ES, Running, BootstrapSteps
<1>6. QED
  BY <1>2, <1>3, <1>4, <1>5 DEF IndInv

LEMMA IssueCertOk ==
    ASSUME IndInv, IssueCert
    PROVE  IndInv'
<1>1. PICK i \in Turn : /\ crt' = [crt EXCEPT ![Order[i]] = <<ca>>]
                       /\ Advance(i, "append", All)
  BY DEF IssueCert
<1>2. i \in All /\ i \in todo /\ Order[i] \in Services /\ crt \in [Services -> Chains(made)]
  BY Numbered DEF IndInv, Typed, Turn
<1>3. <<ca>> \in Chains(made)
  BY DEF IndInv, Typed, IssueCert, Chains, CAs
<1>4. Typed'
  BY <1>1, <1>2, <1>3, Numbered
  DEF IndInv, Typed, IssueCert, Advance, Goto, Steps, SetupSteps
<1>5. Setting'
  BY <1>1, <1>2, Numbered DEF IndInv, Typed, IssueCert, Advance, Goto, Setting
<1>6. Repairing'
  BY <1>1 DEF IndInv, Typed, IssueCert, Advance, Goto, Repairing
<1>7. Making'
  BY <1>1 DEF IndInv, IssueCert, Advance, Goto, Making, ES, Running, BootstrapSteps
<1>8. QED
  BY <1>4, <1>5, <1>6, <1>7 DEF IndInv

LEMMA AppendCAOk ==
    ASSUME IndInv, AppendCA
    PROVE  IndInv'
<1>1. PICK i \in Turn : /\ crt' = [crt EXCEPT ![Order[i]] = Append(@, ca)]
                       /\ Advance(i, "env", {})
  BY DEF AppendCA
<1>2. i \in All /\ i \in todo /\ Order[i] \in Services /\ crt \in [Services -> Chains(made)]
  BY Numbered DEF IndInv, Typed, Turn
<1>3. made \in Nat /\ ca \in 1..made
  BY DEF IndInv, Typed, AppendCA, CAs
<1>4. crt[Order[i]] = <<ca>>
  BY <1>2 DEF IndInv, AppendCA, Setting
<1>5. <<ca, ca>> \in Chains(made)
  BY <1>3 DEF Chains
<1>6. crt' = [crt EXCEPT ![Order[i]] = <<ca, ca>>] /\ Advance(i, "env", {})
  BY <1>1, <1>3, <1>4, Chained
<1>7. Typed'
  <2>1. crt' \in [Services -> Chains(made)] /\ made' = made
    BY <1>2, <1>5, <1>6 DEF AppendCA
  <2>2. todo' \subseteq All /\ ((pc' = "append" /\ todo' # {}) \/ (pc' = "env" /\ todo' = {}))
    <3>1. todo \subseteq All /\ pc = "append"
      BY DEF IndInv, Typed, AppendCA
    <3>2. CASE todo = {i}
      BY <1>6, <3>2 DEF Advance, Goto
    <3>3. CASE todo # {i}
      BY <1>2, <1>6, <3>1, <3>3 DEF Advance
    <3>4. QED
      BY <3>2, <3>3
  <2>3. last' = last
    BY <1>6 DEF Advance, Goto
  <2>4. QED
    BY <1>3, <2>1, <2>2, <2>3 DEF IndInv, Typed, AppendCA, Steps, SetupSteps
<1>8. Setting'
  BY <1>2, <1>6, Numbered DEF IndInv, Typed, AppendCA, Advance, Goto, Setting
<1>9. Repairing'
  BY <1>1 DEF IndInv, Typed, AppendCA, Advance, Goto, Repairing
<1>10. Making'
  BY <1>1 DEF IndInv, AppendCA, Advance, Goto, Making, ES, Running, BootstrapSteps
<1>11. QED
  BY <1>7, <1>8, <1>9, <1>10 DEF IndInv

LEMMA WriteFingerprintOk ==
    ASSUME IndInv, WriteFingerprint
    PROVE  IndInv'
<1>1. Typed'
  <2>1. ca \in CAs
    BY CertificatesAssumption DEF IndInv, Typed, CAs
  <2>2. QED
    BY <2>1 DEF IndInv, Typed, WriteFingerprint, End, Steps, SetupSteps, Endings
<1>2. Setting'
  BY DEF WriteFingerprint, End, Setting
<1>3. Repairing'
  BY DEF WriteFingerprint, End, Repairing
<1>4. Making'
  <2>1. \A s \in Services : crt[s] = <<ca, ca>>
    BY Numbered DEF IndInv, WriteFingerprint, Setting
  <2>2. QED
    BY <2>1 DEF IndInv, Typed, WriteFingerprint, End, Making, ES, Running, BootstrapSteps
<1>5. QED
  BY <1>1, <1>2, <1>3, <1>4 DEF IndInv

-----------------------------------------------------------------------------
(* migrate-cert-chain.sh *)

LEMMA MigrateStartOk ==
    ASSUME IndInv, NEW check \in BOOLEAN, MigrateStart(check)
    PROVE  IndInv'
<1> DEFINE needed == {i \in All : Len(crt[Order[i]]) = 1}
<1>1. /\ pc = "idle" /\ UNCHANGED <<ca, made, crt, fingerprint, loaded, outputFp, setup>>
      /\ \/ pc' = "idle" /\ todo' = {} /\ last' \in {"failed", "nothing", "checked"}
         \/ /\ pc' = "repair" /\ todo' = needed /\ needed # {}
            /\ last' = "none" /\ ca # 0
  BY DEF MigrateStart, NeedsChain, Begin, End
<1>2. Typed'
  <2>1. needed \subseteq All
    OBVIOUS
  <2>2. todo' \subseteq All /\ (pc' \in {"issue", "append", "repair"} <=> todo' # {})
    BY <1>1, <2>1
  <2>3. QED
    BY <1>1, <2>2 DEF IndInv, Typed, Steps, SetupSteps, MigrateSteps, Endings
<1>3. Setting'
  BY <1>1 DEF Setting
<1>4. Repairing'
  BY <1>1 DEF Repairing
<1>5. Making'
  <2>1. ASSUME setup = "made" PROVE pc' = "idle"
    <3>1. ca \in 1..made /\ \A i \in All : crt[Order[i]] = <<ca, ca>>
      BY <2>1, Numbered DEF IndInv, Typed, CAs, Making
    <3>2. Len(<<ca, ca>>) = 2
      BY <3>1
    <3>3. QED
      BY <1>1, <3>1, <3>2
  <2>2. QED
    BY <1>1, <2>1 DEF IndInv, Typed, Making, ES, Running
<1>6. QED
  BY <1>2, <1>3, <1>4, <1>5 DEF IndInv

LEMMA AppendMissingOk ==
    ASSUME IndInv, AppendMissing
    PROVE  IndInv'
<1>1. PICK i \in Turn : /\ crt' = [crt EXCEPT ![Order[i]] = Append(@, ca)]
                       /\ Advance(i, "restart", {})
  BY DEF AppendMissing
<1>2. /\ i \in All /\ i \in todo /\ Order[i] \in Services
      /\ crt \in [Services -> Chains(made)]
  BY Numbered DEF IndInv, Typed, Turn
<1>3. made \in Nat /\ ca \in 1..made
  BY DEF IndInv, Typed, AppendMissing, CAs
<1>4. Len(crt[Order[i]]) = 1
  BY <1>2 DEF IndInv, AppendMissing, Repairing
<1>5. PICK x \in Chains(made) : /\ Len(x) = 2 /\ crt' = [crt EXCEPT ![Order[i]] = x]
                               /\ Advance(i, "restart", {})
  <2>1. crt[Order[i]] \in Chains(made)
    BY <1>2
  <2>2. Append(crt[Order[i]], ca) \in Chains(made) /\ Len(Append(crt[Order[i]], ca)) = 2
    BY <1>3, <1>4, <2>1, Shapes
  <2>3. QED
    BY <1>1, <2>2
<1>6. /\ todo' \subseteq All /\ todo' = todo \ {i}
      /\ UNCHANGED <<ca, made, fingerprint, loaded, outputFp, last, setup>>
      /\ (pc' = "repair" /\ todo' # {}) \/ (pc' = "restart" /\ todo' = {})
  <2>1. todo \subseteq All /\ pc = "repair"
    BY DEF IndInv, Typed, AppendMissing
  <2>2. CASE todo = {i}
    BY <1>5, <2>2 DEF AppendMissing, Advance, Goto
  <2>3. CASE todo # {i}
    BY <1>2, <1>5, <2>1, <2>3 DEF AppendMissing, Advance
  <2>4. QED
    BY <2>2, <2>3
<1>7. Typed'
  <2>1. crt' \in [Services -> Chains(made)]
    BY <1>2, <1>5
  <2>2. QED
    BY <1>3, <1>6, <2>1 DEF IndInv, Typed, AppendMissing, Steps, MigrateSteps, SetupSteps
<1>8. Setting'
  BY <1>6 DEF Setting
<1>9. Repairing'
  <2>1. \A k \in All : k \in todo' <=> Len(crt'[Order[k]]) = 1
    <3>1. ASSUME NEW k \in All, k # i PROVE Order[k] # Order[i]
      BY <1>2, <3>1, Numbered
    <3>2. ASSUME NEW k \in All, k # i PROVE crt'[Order[k]] = crt[Order[k]]
      BY <1>2, <1>5, <3>1, <3>2, Numbered
    <3>3. Len(crt'[Order[i]]) = 2
      BY <1>2, <1>5
    <3>4. \A k \in All : k \in todo <=> Len(crt[Order[k]]) = 1
      BY DEF IndInv, AppendMissing, Repairing
    <3>5. ASSUME NEW k \in All PROVE k \in todo' <=> Len(crt'[Order[k]]) = 1
      <4>1. CASE k = i
        BY <1>6, <3>3, <4>1
      <4>2. CASE k # i
        BY <1>6, <3>2, <3>4, <4>2
      <4>3. QED
        BY <4>1, <4>2
    <3>6. QED
      BY <3>5
  <2>2. pc' = "restart" => \A s \in Services : Len(crt'[s]) # 1
    BY <1>6, <2>1, Numbered
  <2>3. last' # "verified"
    BY <1>6 DEF IndInv, Typed, AppendMissing
  <2>4. QED
    BY <1>6, <2>1, <2>2, <2>3 DEF Repairing
<1>10. Making'
  BY <1>6 DEF IndInv, Typed, AppendMissing, Making, SetupSteps, BootstrapSteps
<1>11. QED
  BY <1>7, <1>8, <1>9, <1>10 DEF IndInv

LEMMA RestartRunningOk ==
    ASSUME IndInv, RestartRunning
    PROVE  IndInv'
<1>1. pc = "restart" /\ setup # "making" /\ setup # "made" /\ last = "none" /\ todo = {}
  BY DEF IndInv, Typed, Making, RestartRunning, SetupSteps, BootstrapSteps
<1>2. \/ /\ loaded' = [s \in Services |-> IF Running(s) THEN Started(s) ELSE loaded[s]]
         /\ Goto("verify", {})
      \/ loaded' = loaded /\ End("fixed")
  BY DEF RestartRunning
<1>3. Typed'
  <2>1. loaded' \in [Services -> Containers(made)]
    BY <1>2, Starts DEF IndInv, Typed
  <2>2. QED
    BY <1>1, <2>1 DEF IndInv, Typed, RestartRunning, Goto, End, Steps, MigrateSteps, Endings
<1>4. Setting'
  BY DEF RestartRunning, Goto, End, Setting
<1>5. Repairing'
  <2>1. CASE loaded' = loaded /\ End("fixed")
    BY <1>1, <2>1 DEF IndInv, RestartRunning, End, Repairing
  <2>2. CASE /\ loaded' = [s \in Services |-> IF Running(s) THEN Started(s) ELSE loaded[s]]
             /\ Goto("verify", {})
    <3>1. \A s \in Services : Running(s)' => loaded'[s].chain = crt[s]
      BY <2>2, Starts DEF IndInv, Running
    <3>2. QED
      BY <1>1, <2>2, <3>1 DEF IndInv, RestartRunning, Goto, Repairing
  <2>3. QED
    BY <1>2, <2>1, <2>2
<1>6. Making'
  BY <1>1 DEF RestartRunning, Making
<1>7. QED
  BY <1>3, <1>4, <1>5, <1>6 DEF IndInv

LEMMA VerifyOk ==
    ASSUME IndInv, Verify
    PROVE  IndInv'
<1>1. Typed'
  <2>1. pc' = "idle" /\ todo' = {} /\ last' \in {"verified", "failed"}
    BY DEF Verify, End
  <2>2. UNCHANGED <<ca, made, crt, fingerprint, loaded, outputFp, setup>> /\ pc = "verify"
    BY DEF Verify
  <2>3. QED
    BY <2>1, <2>2 DEF IndInv, Typed, Endings, SetupSteps
<1>2. Setting'
  BY DEF Verify, End, Setting
<1>3. Repairing'
  <2>1. last' = "verified" => Running("elasticsearch") /\ crt["elasticsearch"] = <<ca, ca>>
    <3>1. SUFFICES ASSUME last' = "verified"
                   PROVE  Running("elasticsearch") /\ crt["elasticsearch"] = <<ca, ca>>
      OBVIOUS
    <3>2. /\ Running("elasticsearch") /\ ES.chain[1] = ca /\ Len(ES.chain) >= 2 /\ ES.chain[2] = ca
      BY <3>1 DEF Verify, End, Reachable, ES
    <3>3. ES.chain = crt["elasticsearch"]
      BY <3>2, Numbered DEF IndInv, Verify, Repairing, ES
    <3>4. made \in Nat /\ crt["elasticsearch"] \in Chains(made)
      BY Numbered DEF IndInv, Typed, CAs
    <3>5. Len(crt["elasticsearch"]) = 2
      <4>1. crt["elasticsearch"] \in Seq(1..made) /\ Len(crt["elasticsearch"]) <= 2
        BY <3>4, Shapes
      <4>2. Len(crt["elasticsearch"]) \in Nat /\ Len(crt["elasticsearch"]) >= 2
        BY <3>2, <3>3, <4>1
      <4>3. \A n \in Nat : n <= 2 /\ n >= 2 => n = 2
        OBVIOUS
      <4>4. QED
        BY <4>1, <4>2, <4>3, Zenon
    <3>6. QED
      BY <3>2, <3>3, <3>4, <3>5, Shapes
  <2>2. QED
    BY <2>1 DEF IndInv, Verify, End, Repairing, Running
<1>4. Making'
  BY DEF IndInv, Typed, Verify, End, Making, BootstrapSteps, SetupSteps
<1>5. QED
  BY <1>1, <1>2, <1>3, <1>4 DEF IndInv

-----------------------------------------------------------------------------
(* bootstrap.sh, and what befalls scripts and containers. *)

LEMMA BootStartOk ==
    ASSUME IndInv, BootStart
    PROVE  IndInv'
<1>1. /\ pc = "idle" /\ UNCHANGED <<ca, made, crt, fingerprint, loaded, outputFp, setup>>
      /\ todo' = {}
      /\ (pc' = "idle" /\ last' = "failed") \/ (pc' = "elasticsearch" /\ last' = "none")
  BY DEF BootStart, Begin, End
<1>2. Typed'
  BY <1>1 DEF IndInv, Typed, Steps, BootstrapSteps, SetupSteps, Endings
<1>3. Setting' /\ Repairing'
  BY <1>1 DEF Setting, Repairing
<1>4. Making'
  BY <1>1 DEF IndInv, Making, ES, Running, BootstrapSteps
<1>5. QED
  BY <1>2, <1>3, <1>4 DEF IndInv

\* A step of bootstrap.sh, which touches no file.
LEMMA BootStep ==
    ASSUME IndInv, pc \in BootstrapSteps, pc' \in BootstrapSteps \union {"idle"}, todo' = {},
           last' \in {"none", "failed", "booted"}, last' # "none" => pc' = "idle",
           UNCHANGED <<ca, made, crt, fingerprint, setup>>, outputFp' \in CAs,
           loaded' \in [Services -> Containers(made)]
    PROVE  Typed' /\ Setting' /\ Repairing'
<1>1. Typed'
  BY DEF IndInv, Typed, Steps, SetupSteps, BootstrapSteps, Endings
<1>2. Setting' /\ Repairing'
  BY DEF Setting, Repairing, BootstrapSteps
<1>3. QED
  BY <1>1, <1>2

LEMMA UpElasticsearchOk ==
    ASSUME IndInv, UpElasticsearch
    PROVE  IndInv'
<1>1. /\ loaded' = [loaded EXCEPT !["elasticsearch"] =
                       IF Running("elasticsearch") THEN @ ELSE Started("elasticsearch")]
      /\ pc = "elasticsearch" /\ pc' = "wait" /\ todo' = {} /\ last' = last
      /\ UNCHANGED <<ca, made, crt, fingerprint, outputFp, setup>>
  BY DEF UpElasticsearch, Goto
<1>2. last = "none" /\ outputFp \in CAs /\ loaded \in [Services -> Containers(made)]
  BY <1>1 DEF IndInv, Typed
<1>3. loaded' \in [Services -> Containers(made)]
  BY <1>1, <1>2, Starts, Numbered DEF IndInv
<1>4. Typed' /\ Setting' /\ Repairing'
  BY <1>1, <1>2, <1>3, BootStep DEF BootstrapSteps
<1>5. Making'
  <2>1. ASSUME setup = "made"
        PROVE  Running("elasticsearch")' /\ ES'.chain[1] = ca => ES'.chain = <<ca, ca>>
    <3>1. CASE Running("elasticsearch")
      BY <1>1, <1>2, <2>1, <3>1, Numbered DEF IndInv, Making, ES, Running
    <3>2. CASE ~Running("elasticsearch")
      <4>1. ES' = Started("elasticsearch")
        BY <1>1, <1>2, <3>2, Numbered DEF ES
      <4>2. QED
        BY <2>1, <4>1, Starts, Numbered DEF IndInv, Making, ES, Running
    <3>3. QED
      BY <3>1, <3>2
  <2>2. QED
    BY <1>1, <1>2, <2>1 DEF IndInv, Typed, Making, ES, Running, BootstrapSteps, SetupSteps
<1>6. QED
  BY <1>4, <1>5 DEF IndInv

LEMMA WaitElasticsearchOk ==
    ASSUME IndInv, WaitElasticsearch
    PROVE  IndInv'
<1>1. /\ pc = "wait" /\ todo' = {}
      /\ UNCHANGED <<ca, made, crt, fingerprint, loaded, outputFp, setup>>
      /\ (Reachable /\ pc' = "kibana" /\ last' = last) \/ (pc' = "idle" /\ last' = "failed")
  BY DEF WaitElasticsearch, Goto, End
<1>2. /\ last = "none" /\ outputFp \in CAs /\ loaded \in [Services -> Containers(made)]
      /\ setup # "making"
  BY <1>1 DEF IndInv, Typed, SetupSteps
<1>3. Typed' /\ Setting' /\ Repairing'
  BY <1>1, <1>2, BootStep DEF BootstrapSteps
<1>4. Making'
  BY <1>1, <1>2 DEF IndInv, Making, ES, Running, Reachable, BootstrapSteps
<1>5. QED
  BY <1>3, <1>4 DEF IndInv

LEMMA UpKibanaOk ==
    ASSUME IndInv, UpKibana
    PROVE  IndInv'
<1>1. /\ loaded' \in {loaded, [loaded EXCEPT !["kibana"] = Started("kibana")]}
      /\ outputFp' = fingerprint
      /\ pc = "kibana" /\ pc' = "available" /\ todo' = {} /\ last' = last
      /\ UNCHANGED <<ca, made, crt, fingerprint, setup>>
  BY DEF UpKibana, Goto
<1>2. /\ last = "none" /\ fingerprint \in CAs /\ loaded \in [Services -> Containers(made)]
      /\ setup # "making"
  BY <1>1 DEF IndInv, Typed, SetupSteps
<1>3. loaded' \in [Services -> Containers(made)] /\ ES' = ES
  BY <1>1, <1>2, Starts, Numbered DEF IndInv, ES
<1>4. Typed' /\ Setting' /\ Repairing'
  BY <1>1, <1>2, <1>3, BootStep DEF BootstrapSteps
<1>5. Making'
  BY <1>1, <1>2, <1>3 DEF IndInv, Making, ES, Running, BootstrapSteps
<1>6. QED
  BY <1>4, <1>5 DEF IndInv

LEMMA WaitKibanaOk ==
    ASSUME IndInv, WaitKibana
    PROVE  IndInv'
<1>1. /\ pc = "available" /\ todo' = {}
      /\ UNCHANGED <<ca, made, crt, fingerprint, loaded, outputFp, setup>>
      /\ (pc' = "rest" /\ last' = last) \/ (pc' = "idle" /\ last' = "failed")
  BY DEF WaitKibana, Goto, End
<1>2. /\ last = "none" /\ outputFp \in CAs /\ loaded \in [Services -> Containers(made)]
      /\ setup # "making"
  BY <1>1 DEF IndInv, Typed, SetupSteps
<1>3. Typed' /\ Setting' /\ Repairing'
  BY <1>1, <1>2, BootStep DEF BootstrapSteps
<1>4. Making'
  BY <1>1, <1>2 DEF IndInv, Making, ES, Running, BootstrapSteps
<1>5. QED
  BY <1>3, <1>4 DEF IndInv

LEMMA UpRestOk ==
    ASSUME IndInv, UpRest
    PROVE  IndInv'
<1>1. /\ loaded' = [s \in Services |-> IF Running(s) THEN loaded[s] ELSE Started(s)]
      /\ pc = "rest" /\ pc' = "idle" /\ todo' = {} /\ last' = "booted"
      /\ UNCHANGED <<ca, made, crt, fingerprint, outputFp, setup>>
  BY DEF UpRest, End
<1>2. /\ outputFp \in CAs /\ loaded \in [Services -> Containers(made)] /\ setup # "making"
  BY <1>1 DEF IndInv, Typed, SetupSteps
<1>3. loaded' \in [Services -> Containers(made)]
  BY <1>1, <1>2, Starts DEF IndInv
<1>4. Typed' /\ Setting' /\ Repairing'
  BY <1>1, <1>2, <1>3, BootStep DEF BootstrapSteps
<1>5. Making'
  <2>1. Running("elasticsearch") => ES' = ES
    BY <1>1, Numbered DEF ES
  <2>2. QED
    BY <1>1, <1>2, <2>1 DEF IndInv, Making, ES, Running
<1>6. QED
  BY <1>4, <1>5 DEF IndInv

LEMMA KillOk ==
    ASSUME IndInv, Kill
    PROVE  IndInv'
<1>1. /\ pc' = "idle" /\ todo' = {} /\ last' = "failed"
      /\ UNCHANGED <<ca, made, crt, fingerprint, loaded, outputFp>>
      /\ setup' = IF setup = "making" THEN "partial" ELSE setup
  BY DEF Kill, End, Interrupt
<1>2. Typed'
  BY <1>1 DEF IndInv, Typed, Endings
<1>3. Setting' /\ Repairing'
  BY <1>1 DEF Setting, Repairing
<1>4. Making'
  BY <1>1 DEF IndInv, Making, ES, Running, BootstrapSteps
<1>5. QED
  BY <1>2, <1>3, <1>4 DEF IndInv

LEMMA RestartOk ==
    ASSUME IndInv, NEW s \in Services, Restart(s)
    PROVE  IndInv'
<1>1. /\ loaded' = [loaded EXCEPT ![s] = Started(s)]
      /\ UNCHANGED <<ca, made, crt, fingerprint, outputFp, pc, todo, last>>
      /\ setup' = IF setup = "making" THEN "partial" ELSE setup
  BY DEF Restart, Interrupt
<1>2. loaded \in [Services -> Containers(made)] /\ crt \in [Services -> Chains(made)]
  BY DEF IndInv, Typed
<1>3. Typed'
  <2>1. loaded' \in [Services -> Containers(made)]
    BY <1>1, <1>2, Starts DEF IndInv
  <2>2. QED
    BY <1>1, <2>1 DEF IndInv, Typed
<1>4. Setting'
  BY <1>1 DEF IndInv, Setting
<1>5. \A t \in Services : loaded'[t] = IF t = s THEN Started(s) ELSE loaded[t]
  BY <1>1, <1>2
<1>6. Repairing'
  <2>1. ASSUME pc = "verify" \/ last = "verified", NEW t \in Services, Running(t)'
        PROVE  loaded'[t].chain = crt[t]
    BY <1>5, <2>1, Starts DEF IndInv, Repairing, Running
  <2>2. ASSUME last = "verified"
        PROVE  Running("elasticsearch")' /\ crt["elasticsearch"] = <<ca, ca>>
    <3>1. Running("elasticsearch") /\ crt["elasticsearch"] = <<ca, ca>>
      BY <2>2 DEF IndInv, Repairing
    <3>2. ca # 0 /\ crt["elasticsearch"] # <<>>
      <4>1. loaded["elasticsearch"].chain = <<ca, ca>>
        BY <2>2, <3>1, Numbered DEF IndInv, Repairing
      <4>2. ca \in 1..made
        BY <3>1, <4>1, Running1, Numbered DEF IndInv
      <4>3. QED
        BY <3>1, <4>1, <4>2
    <3>3. Started("elasticsearch").state = "running"
      BY <3>2, Starts, Numbered DEF IndInv
    <3>4. loaded'["elasticsearch"].state = "running"
      BY <1>5, <3>1, <3>3, Numbered DEF Running
    <3>5. QED
      BY <3>1, <3>4 DEF Running
  <2>3. QED
    BY <1>1, <2>1, <2>2 DEF IndInv, Repairing
<1>7. Making'
  <2>1. setup' # "making"
    BY <1>1
  <2>2. ASSUME setup = "made", s = "elasticsearch"
        PROVE  Running("elasticsearch")' /\ ES' = loaded'[s] /\ ES'.chain = <<ca, ca>>
    <3>1. ca \in 1..made /\ crt[s] = <<ca, ca>>
      BY <2>2 DEF IndInv, Typed, Making, CAs
    <3>2. crt[s] # <<>>
      BY <3>1
    <3>3. QED
      BY <1>5, <2>2, <3>1, <3>2, Starts DEF IndInv, ES, Running
  <2>3. s # "elasticsearch" => ES' = ES
    BY <1>5, Numbered DEF ES
  <2>4. QED
    BY <1>1, <2>1, <2>2, <2>3 DEF IndInv, Making, ES, Running
<1>8. QED
  BY <1>3, <1>4, <1>6, <1>7 DEF IndInv

-----------------------------------------------------------------------------
(* The invariant, and what follows from it. *)

LEMMA InitOk == Init => IndInv
<1> SUFFICES ASSUME Init PROVE IndInv
  OBVIOUS
<1>1. PICK g \in {0, 1} :
        /\ ca = g /\ made = g /\ fingerprint = g /\ outputFp = g
        /\ crt = [s \in Services |-> IF g = 0 THEN <<>> ELSE <<g>>]
        /\ loaded = [s \in Services |-> IF g = 0 THEN Absent ELSE
                        [state |-> "running", chain |-> <<g>>, ca |-> g]]
  BY DEF Init
<1>2. pc = "idle" /\ todo = {} /\ last = "none" /\ setup = "partial"
  BY DEF Init
<1>3. g \in CAs /\ g \in 0..g
  BY CertificatesAssumption DEF CAs
<1>4. <<>> \in Chains(g) /\ (g # 0 => <<g>> \in Chains(g) \ {<<>>})
  BY DEF Chains
<1>5. crt \in [Services -> Chains(g)] /\ loaded \in [Services -> Containers(g)]
  BY <1>1, <1>4 DEF Containers
<1>6. Typed
  BY <1>1, <1>2, <1>3, <1>5 DEF Typed, Endings
<1>7. Setting /\ Repairing /\ Making
  BY <1>2 DEF Setting, Repairing, Making
<1>8. QED
  BY <1>6, <1>7 DEF IndInv

LEMMA NextOk == IndInv /\ [Next]_vars => IndInv'
<1> SUFFICES ASSUME IndInv, [Next]_vars PROVE IndInv'
  OBVIOUS
<1>1. CASE SetupCerts
  BY <1>1, SetupStartOk, WipeOk, GenerateCAOk, IssueCertOk, AppendCAOk, WriteFingerprintOk
  DEF SetupCerts
<1>2. CASE MigrateCertChain
  BY <1>2, MigrateStartOk, AppendMissingOk, RestartRunningOk, VerifyOk DEF MigrateCertChain
<1>3. CASE Bootstrap
  BY <1>3, BootStartOk, UpElasticsearchOk, WaitElasticsearchOk, UpKibanaOk, WaitKibanaOk,
     UpRestOk DEF Bootstrap
<1>4. CASE Kill \/ \E s \in Services : Restart(s)
  BY <1>4, KillOk, RestartOk
<1>5. CASE UNCHANGED vars
  BY <1>5 DEF vars, IndInv, Typed, Setting, Repairing, Making, ES, Running
<1>6. QED
  BY <1>1, <1>2, <1>3, <1>4, <1>5 DEF Next

LEMMA IndInvHolds == Spec => []IndInv
<1>1. QED
  BY InitOk, NextOk, PTL DEF Spec

\* Every variable keeps its type, whatever is cut short (setup-certs.sh, migrate-cert-chain.sh
\* and the certificates' part of bootstrap.sh).
THEOREM TypeCorrect == Spec => []TypeOK
<1>1. IndInv => TypeOK
  BY TypedIsTypeOK DEF IndInv
<1>2. QED
  BY <1>1, IndInvHolds, PTL

\* No certificate file ever gets the CA twice (migrate-cert-chain.sh:58,
\* setup-certs.sh:60-66).
THEOREM NeverDoubled == Spec => []ChainNeverDoubled
<1>1. IndInv => ChainNeverDoubled
  <2>1. SUFFICES ASSUME IndInv, NEW s \in Services PROVE Len(crt[s]) <= 2
    BY DEF ChainNeverDoubled
  <2>2. made \in Nat /\ crt[s] \in Chains(made)
    BY <2>1 DEF IndInv, Typed, CAs
  <2>3. QED
    BY <2>2, Shapes
<1>2. QED
  BY <1>1, IndInvHolds, PTL

\* What a migration has verified is served by every container that runs
\* (migrate-cert-chain.sh:77-136): until something else is done, restarts included.
THEOREM VerifiedIsServed == Spec => []VerifiedMeansServed
<1>1. IndInv => VerifiedMeansServed
  <2>1. SUFFICES ASSUME IndInv, last = "verified"
                 PROVE  /\ Running("elasticsearch") /\ loaded["elasticsearch"].chain = <<ca, ca>>
                        /\ \A s \in Services : /\ Len(crt[s]) # 1
                                               /\ Running(s) => Len(loaded[s].chain) = 2
    BY DEF VerifiedMeansServed
  <2>2. /\ \A s \in Services : Len(crt[s]) # 1 /\ (Running(s) => loaded[s].chain = crt[s])
        /\ Running("elasticsearch") /\ crt["elasticsearch"] = <<ca, ca>>
    BY <2>1 DEF IndInv, Repairing
  <2>3. ASSUME NEW s \in Services, Running(s) PROVE Len(loaded[s].chain) = 2
    <3>1. made \in Nat /\ loaded[s].chain \in Chains(made) \ {<<>>}
      BY <2>1, <2>3, Running1 DEF IndInv, Typed, CAs
    <3>2. Len(loaded[s].chain) \in Nat /\ Len(loaded[s].chain) <= 2 /\ Len(loaded[s].chain) >= 1
      BY <3>1, Shapes
    <3>3. Len(loaded[s].chain) # 1
      BY <2>2, <2>3
    <3>4. \A n \in Nat : n <= 2 /\ n >= 1 /\ n # 1 => n = 2
      OBVIOUS
    <3>5. QED
      BY <3>2, <3>3, <3>4, Zenon
  <2>4. QED
    BY <2>2, <2>3, Numbered
<1>2. QED
  BY <1>1, IndInvHolds, PTL

\* A bootstrap over certificates made in one go leaves agents trusting Elasticsearch
\* (bootstrap.sh:96-104, 164), whatever ran before and is restarted after.
THEOREM BootedIsTrusted == Spec => []BootedMeansTrusted
<1>1. IndInv => BootedMeansTrusted
  <2>1. SUFFICES ASSUME IndInv, last = "booted", setup = "made" PROVE Trusted
    BY DEF BootedMeansTrusted
  <2>2. Running("elasticsearch") /\ ES.chain = <<ca, ca>> /\ outputFp = ca
    BY <2>1 DEF IndInv, Making
  <2>3. ca \in 1..made /\ Len(<<ca, ca>>) = 2 /\ <<ca, ca>>[2] = ca
    BY <2>1 DEF IndInv, Typed, Making, CAs
  <2>4. QED
    BY <2>2, <2>3 DEF Trusted, ES
<1>2. QED
  BY <1>1, IndInvHolds, PTL
=============================================================================
