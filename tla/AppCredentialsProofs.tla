------------------------ MODULE AppCredentialsProofs ------------------------
(***************************************************************************)
(* AppCredentials, for every set of characters and of dataset names: the   *)
(* pattern and the key name made from a dataset identify it, so a key can  *)
(* write its own dataset only and revoking by name hits that dataset only. *)
(***************************************************************************)
EXTENDS Intake, SequenceTheorems, TLAPS

\* What a valid dataset is made of.
LEMMA DatasetChars ==
    ASSUME NEW d \in ValidDatasets
    PROVE  /\ d \in Seq(Chars) /\ d \in Datasets /\ Valid(d)
           /\ \A i \in 1..Len(d) : d[i] # "-"
BY CredentialsAssumption DEF ValidDatasets, Valid, CredentialsAssumption

\* The pattern of a dataset, and the data stream of one, character by character.
LEMMA StreamChars ==
    ASSUME NEW S, NEW e \in Seq(S)
    PROVE  /\ Len(Stream(e)) = Len(e) + 4
           /\ \A i \in 1..Len(e) : Stream(e)[i + 2] = e[i]
           /\ Stream(e)[Len(e) + 3] = "-"
BY DEF Stream

LEMMA ScopeChars ==
    ASSUME NEW S, NEW d \in Seq(S)
    PROVE  /\ Len(Scope(d)) = Len(d) + 3
           /\ \A i \in 1..Len(d) : Scope(d)[i + 2] = d[i]
           /\ Scope(d)[Len(d) + 3] = "-"
BY DEF Scope

\* What the prefix test says, character by character.
LEMMA PrefixChars ==
    ASSUME NEW S, NEW s \in Seq(S), NEW t \in Seq(S), IsPrefix(s, t)
    PROVE  Len(s) <= Len(t) /\ \A i \in 1..Len(s) : s[i] = t[i]
<1>1. Len(s) <= Len(t) /\ SubSeq(s, 1, Len(s)) = SubSeq(t, 1, Len(s))
    BY DEF IsPrefix
<1>2. ASSUME NEW i \in 1..Len(s)
      PROVE  s[i] = t[i]
    <2>1. SubSeq(s, 1, Len(s))[i] = s[i] /\ SubSeq(t, 1, Len(s))[i] = t[i]
        BY <1>1
    <2> QED BY <2>1, <1>1
<1> QED BY <1>1, <1>2

\* A pattern takes in no data stream but its own dataset's: it ends in a hyphen, and a
\* hyphen stands in the data stream only after the whole of the dataset.
LEMMA ScopeIsOwn ==
    ASSUME NEW S, NEW d \in Seq(S), NEW e \in Seq(S),
           \A i \in 1..Len(d) : d[i] # "-", \A i \in 1..Len(e) : e[i] # "-",
           IsPrefix(Scope(d), Stream(e))
    PROVE  d = e
<1> DEFINE T == S \union {"logs", "-", "default"}
<1>1. d \in Seq(T) /\ e \in Seq(T)
    OBVIOUS
<1>2. Scope(d) \in Seq(T) /\ Stream(e) \in Seq(T)
    BY <1>1 DEF Scope, Stream
<1>3. \A i \in 1..(Len(d) + 3) : Scope(d)[i] = Stream(e)[i]
    BY <1>1, <1>2, PrefixChars, ScopeChars
<1>4. ~(Len(d) < Len(e))
    <2>1. SUFFICES ASSUME Len(d) < Len(e) PROVE FALSE
        OBVIOUS
    <2>2. Stream(e)[Len(d) + 3] = "-"
        BY <1>1, <1>3, ScopeChars
    <2>3. Stream(e)[(Len(d) + 1) + 2] = e[Len(d) + 1]
        BY <1>1, <2>1, StreamChars
    <2> QED BY <1>1, <2>1, <2>2, <2>3
<1>5. ~(Len(e) < Len(d))
    <2>1. SUFFICES ASSUME Len(e) < Len(d) PROVE FALSE
        OBVIOUS
    <2>2. Stream(e)[Len(e) + 3] = "-"
        BY <1>1, StreamChars
    <2>3. Scope(d)[(Len(e) + 1) + 2] = d[Len(e) + 1]
        BY <1>1, <2>1, ScopeChars
    <2>4. Scope(d)[Len(e) + 3] = Stream(e)[Len(e) + 3]
        BY <1>1, <1>3, <2>1
    <2> QED BY <1>1, <2>1, <2>2, <2>3, <2>4
<1>6. Len(d) = Len(e)
    BY <1>1, <1>4, <1>5
<1>7. \A i \in 1..Len(d) : d[i] = e[i]
    <2> TAKE i \in 1..Len(d)
    <2>1. Scope(d)[i + 2] = d[i] /\ Stream(e)[i + 2] = e[i]
        BY <1>1, <1>6, ScopeChars, StreamChars
    <2> QED BY <1>1, <1>3, <2>1
<1> QED BY <1>1, <1>6, <1>7, SeqEqual

LEMMA ValidScopeIsOwn ==
    ASSUME NEW d \in ValidDatasets, NEW e \in ValidDatasets,
           IsPrefix(Scope(d), Stream(e))
    PROVE  d = e
<1>1. /\ d \in Seq(Chars) /\ \A i \in 1..Len(d) : d[i] # "-"
      /\ e \in Seq(Chars) /\ \A i \in 1..Len(e) : e[i] # "-"
    BY DatasetChars
<1> QED BY <1>1, ScopeIsOwn

\* No two datasets give their keys one name, though the dots are gone from it.
LEMMA NameIsOwn ==
    ASSUME NEW d \in ValidDatasets, NEW e \in ValidDatasets,
           KeyName(d) = KeyName(e)
    PROVE  d = e
<1> DEFINE Dashed(s) == [i \in 1..Len(s) |-> IF s[i] = "." THEN "-" ELSE s[i]]
           T == Chars \union {"app", "-"}
<1>1. d \in Seq(T) /\ e \in Seq(T)
    BY DatasetChars
<1>2. ASSUME NEW s \in Seq(T)
      PROVE  /\ KeyName(s) = <<"app", "-">> \o Dashed(s)
             /\ Dashed(s) \in Seq(T) /\ Len(Dashed(s)) = Len(s)
             /\ Len(KeyName(s)) = Len(s) + 2
             /\ \A i \in 1..Len(s) : KeyName(s)[i + 2] = Dashed(s)[i]
    <2>1. Dashed(s) \in Seq(T) /\ Len(Dashed(s)) = Len(s)
        OBVIOUS
    <2>2. KeyName(s) = <<"app", "-">> \o Dashed(s)
        BY DEF KeyName
    <2> HIDE DEF Dashed
    <2> QED BY <2>1, <2>2
<1>3. Len(d) = Len(e)
    BY <1>1, <1>2
<1>4. \A i \in 1..Len(d) : d[i] = e[i]
    <2> TAKE i \in 1..Len(d)
    <2>1. Dashed(d)[i] = Dashed(e)[i]
        BY <1>1, <1>2, <1>3
    <2>2. d[i] # "-" /\ e[i] # "-"
        BY <1>3, DatasetChars
    <2> QED BY <1>1, <1>3, <2>1, <2>2
<1> QED BY <1>1, <1>3, <1>4, SeqEqual

-----------------------------------------------------------------------------
(* The state machine. *)

LEMMA InitTypeOK == Init => TypeOK
BY CredentialsAssumption DEF Init, TypeOK, CredentialsAssumption

\* What becomes of a key that is revoked.
LEMMA RevokedKey ==
    ASSUME NEW D, NEW k \in Key(D)
    PROVE  LET dead == [k EXCEPT !.valid = FALSE] IN
           /\ dead \in Key(D) /\ ~dead.valid
           /\ dead.dataset = k.dataset /\ dead.printed = k.printed
BY DEF Key

LEMMA NextTypeOK == TypeOK /\ [Next]_vars => TypeOK'
<1> SUFFICES ASSUME TypeOK, [Next]_vars
             PROVE  TypeOK'
    OBVIOUS
<1>0. \A k \in 1..Len(keys) : keys[k] \in Key(ValidDatasets)
    BY ElementOfSeq DEF TypeOK
<1> USE DEF TypeOK, Key
<1>1. ASSUME NEW d \in Datasets, NEW answered \in BOOLEAN, Issue(d, answered)
      PROVE  TypeOK'
    <2> DEFINE k == [dataset |-> d, valid |-> TRUE, printed |-> answered]
    <2>1. k \in Key(ValidDatasets)
        BY <1>1 DEF Issue, ValidDatasets
    <2>2. /\ keys' = Append(keys, k) /\ uses' = uses
          /\ Len(keys) < MaxKeys
        BY <1>1 DEF Issue
    <2>3. keys' \in Seq(Key(ValidDatasets)) /\ Len(keys') = Len(keys) + 1
        BY <2>1, <2>2
    <2>4. \A i \in 1..Len(keys) : keys'[i] = keys[i]
        BY <2>1, <2>2
    <2> QED BY <2>2, <2>3, <2>4, CredentialsAssumption DEF CredentialsAssumption
<1>2. ASSUME NEW d \in Datasets, Revoke(d)
      PROVE  TypeOK'
    <2>1. /\ uses' = uses
          /\ keys' = [k \in 1..Len(keys) |->
                        IF KeyName(keys[k].dataset) = KeyName(d)
                        THEN [keys[k] EXCEPT !.valid = FALSE] ELSE keys[k]]
        BY <1>2 DEF Revoke
    <2>2. \A k \in 1..Len(keys) : keys[k] \in Key(ValidDatasets)
        BY <1>0
    <2>3. \A k \in 1..Len(keys) : /\ keys'[k] \in Key(ValidDatasets)
                                  /\ keys'[k].dataset = keys[k].dataset
                                  /\ keys'[k].printed = keys[k].printed
        <3> TAKE k \in 1..Len(keys)
        <3> HIDE DEF TypeOK, Key
        <3>1. keys'[k] = keys[k] \/ keys'[k] = [keys[k] EXCEPT !.valid = FALSE]
            BY <2>1
        <3> QED BY <2>2, <3>1, RevokedKey
    <2>4. keys' \in Seq(Key(ValidDatasets)) /\ Len(keys') = Len(keys)
        BY <2>1, <2>3
    <2> QED BY <2>1, <2>3, <2>4
<1>3. ASSUME NEW d \in ValidDatasets, Configure(d)
      PROVE  TypeOK'
    BY <1>3 DEF Configure
<1>4. CASE UNCHANGED vars
    BY <1>4 DEF vars
<1> QED BY <1>1, <1>2, <1>3, <1>4 DEF Next

\* Type correctness: among other things, only valid datasets ever get a key, and an
\* application is configured with a key of its own dataset that was shown.
THEOREM TypeCorrect == Spec => []TypeOK
BY InitTypeOK, NextTypeOK, PTL DEF Spec

\* No key can write another application's data stream, whatever datasets there are
\* (create-app-credentials.sh:26, 53).
THEOREM KeysIsolated == Spec => []WritesOnlyItsOwn
<1>1. TypeOK => WritesOnlyItsOwn
    <2> SUFFICES ASSUME TypeOK, NEW k \in 1..Len(keys), NEW d \in ValidDatasets,
                        MayWrite(keys[k], d)
                 PROVE  keys[k].dataset = d
        BY DEF WritesOnlyItsOwn
    <2>1. keys[k] \in Key(ValidDatasets)
        BY ElementOfSeq DEF TypeOK
    <2>2. keys[k].dataset \in ValidDatasets
        BY <2>1 DEF Key
    <2>3. IsPrefix(Scope(keys[k].dataset), Stream(d))
        BY DEF MayWrite
    <2> QED BY <2>2, <2>3, ValidScopeIsOwn
<1> QED BY <1>1, TypeCorrect, PTL

\* No hyphen is left of a name, whatever characters it had.
LEMMA NoHyphenLeft ==
    ASSUME NEW n \in Names
    PROVE  /\ IntakeDataset(n) \in Seq({"app", "generic"} \union Wanted)
           /\ \A i \in 1..Len(IntakeDataset(n)) : IntakeDataset(n)[i] # "-"
<1> DEFINE T == {"app", "generic"} \union Wanted
           clean == Sanitised(n)
<1>1. n \in Seq(NameChars)
    BY IntakeAssumption
<1>2. ASSUME NEW ch PROVE Kept(ch) \in T \ {"-"}
    BY IntakeAssumption DEF Kept
<1>3. clean \in Seq(T \ {"-"})
    <2>1. CASE n = <<>>
        BY <2>1 DEF Sanitised
    <2>2. CASE n # <<>>
        <3> DEFINE length == IF Len(n) <= NameLimit THEN Len(n) ELSE NameLimit
        <3>1. length \in Nat
            <4>1. Len(n) \in Nat
                BY <1>1
            <4>2. NameLimit \in Nat
                BY IntakeAssumption
            <4> HIDE DEF T, clean
            <4> QED BY <4>1, <4>2
        <3>2. clean = [i \in 1..length |-> Kept(n[i])]
            BY <2>2 DEF Sanitised
        <3> HIDE DEF clean, length, T
        <3>3. \A i \in 1..length : Kept(n[i]) \in T \ {"-"}
            BY <1>2
        <3> QED BY <3>1, <3>2, <3>3
    <2> QED BY <2>1, <2>2
<1>4. <<"app", ".">> \in Seq(T \ {"-"})
    <2>1. "app" \in T \ {"-"} /\ "." \in T \ {"-"}
        BY IntakeAssumption
    <2> HIDE DEF T
    <2> QED BY <2>1
<1> HIDE DEF clean
<1>5. <<"app", ".">> \o clean \in Seq(T \ {"-"})
    BY <1>3, <1>4, ConcatProperties
<1>6. \A i \in 1..Len(<<"app", ".">> \o clean) : (<<"app", ".">> \o clean)[i] \in T \ {"-"}
    BY <1>5, ElementOfSeq
<1> QED BY <1>5, <1>6 DEF IntakeDataset, clean

\* No key can write a data stream of the TCP intake but its own dataset's, for names of
\* any length and of any characters (app-tcp.conf:175-182, create-app-credentials.sh:53).
THEOREM IntakeIsolated == Spec => []IntakeKeptApart
<1>1. TypeOK => IntakeKeptApart
    <2> SUFFICES ASSUME TypeOK, NEW k \in 1..Len(keys), NEW n \in Names,
                        MayWrite(keys[k], IntakeDataset(n))
                 PROVE  keys[k].dataset = IntakeDataset(n)
        BY DEF IntakeKeptApart, IntakeDatasets
    <2> DEFINE S == Chars \union {"app", "generic"} \union Wanted
               d == keys[k].dataset
    <2>1. keys[k] \in Key(ValidDatasets)
        BY ElementOfSeq DEF TypeOK
    <2>2. d \in Seq(S) /\ \A i \in 1..Len(d) : d[i] # "-"
        BY <2>1, DatasetChars DEF Key
    <2>3. /\ IntakeDataset(n) \in Seq(S)
          /\ \A i \in 1..Len(IntakeDataset(n)) : IntakeDataset(n)[i] # "-"
        BY NoHyphenLeft
    <2>4. IsPrefix(Scope(d), Stream(IntakeDataset(n)))
        BY DEF MayWrite
    <2> HIDE DEF S, d
    <2> QED BY <2>2, <2>3, <2>4, ScopeIsOwn DEF d
<1> QED BY <1>1, TypeCorrect, PTL

\* A key can write its own data stream for as long as it is valid.
LEMMA OwnScope == \A d \in ValidDatasets : IsPrefix(Scope(d), Stream(d))
<1> TAKE d \in ValidDatasets
<1> DEFINE T == Chars \union {"logs", "-", "default"}
           own == Scope(d)
<1>1. d \in Seq(T)
    BY DatasetChars
<1>2. own \in Seq(T) /\ Stream(d) = own \o <<"default">>
    <2>1. own \in Seq(T)
        BY <1>1 DEF Scope
    <2>2. <<"-", "default">> = <<"-">> \o <<"default">>
        OBVIOUS
    <2>3. <<"logs", "-">> \in Seq(T) /\ <<"-">> \in Seq(T) /\ <<"default">> \in Seq(T)
        OBVIOUS
    <2>4. <<"logs", "-">> \o d \in Seq(T)
        BY <1>1, <2>3
    <2>5. (<<"logs", "-">> \o d) \o (<<"-">> \o <<"default">>)
             = ((<<"logs", "-">> \o d) \o <<"-">>) \o <<"default">>
        BY <2>3, <2>4, ConcatAssociative
    <2> QED BY <2>1, <2>2, <2>5 DEF Scope, Stream
<1> HIDE DEF own
<1>3. Len(own) <= Len(Stream(d)) /\ Len(own) \in Nat
    BY <1>2
<1>4. SubSeq(own \o <<"default">>, 1, Len(own)) = own /\ SubSeq(own, 1, Len(own)) = own
    BY <1>2, SubSeqOfConcat1, SubSeqFull
<1> QED BY <1>2, <1>3, <1>4 DEF IsPrefix, own

\* Revoking cuts off exactly what could write the dataset, however many keys and
\* datasets there are (create-app-credentials.sh:36-43).
THEOREM RevokeExact == Spec => RevokesExactlyItsDataset
<1> DEFINE Exact == \A d \in Datasets : Revoke(d) =>
                        \A k \in 1..Len(keys) :
                            keys'[k].valid <=> (keys[k].valid /\ ~MayWrite(keys[k], d))
<1>1. TypeOK /\ [Next]_vars => [Exact]_vars
    <2> SUFFICES ASSUME TypeOK, NEW d \in Datasets, Revoke(d), NEW k \in 1..Len(keys)
                 PROVE  keys'[k].valid <=> (keys[k].valid /\ ~MayWrite(keys[k], d))
        OBVIOUS
    <2>1. keys[k] \in Key(ValidDatasets) /\ d \in ValidDatasets
        BY ElementOfSeq DEF TypeOK, Revoke, ValidDatasets
    <2>2. keys'[k] = IF KeyName(keys[k].dataset) = KeyName(d)
                     THEN [keys[k] EXCEPT !.valid = FALSE] ELSE keys[k]
        BY DEF Revoke
    <2>3. KeyName(keys[k].dataset) = KeyName(d) <=> keys[k].dataset = d
        BY <2>1, NameIsOwn DEF Key
    <2>4. MayWrite(keys[k], d) <=> keys[k].valid /\ keys[k].dataset = d
        BY <2>1, ValidScopeIsOwn, OwnScope DEF MayWrite, Key
    <2>5. keys[k].dataset = d => keys'[k].valid = FALSE
        BY <2>1, <2>2, <2>3 DEF Key
    <2>6. keys[k].dataset # d => keys'[k] = keys[k]
        BY <2>2, <2>3
    <2>7. CASE keys[k].dataset = d
        BY <2>4, <2>5, <2>7
    <2>8. CASE keys[k].dataset # d
        BY <2>4, <2>6, <2>8
    <2> QED BY <2>7, <2>8
<1>2. TypeOK /\ [Next]_vars => [\A d \in Datasets : Revoke(d) =>
                        \A k \in 1..Len(keys) :
                            keys'[k].valid <=> (keys[k].valid /\ ~MayWrite(keys[k], d))]_vars
    BY <1>1
<1> QED BY <1>2, TypeCorrect, PTL DEF Spec, RevokesExactlyItsDataset
=============================================================================
