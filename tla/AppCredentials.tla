--------------------------- MODULE AppCredentials ---------------------------
(***************************************************************************)
(* stack/create-app-credentials.sh: mints an Elasticsearch API key that    *)
(* lets one application write one dataset, and revokes it again.           *)
(*                                                                         *)
(* A dataset is given as its characters, because both the name of its keys *)
(* and the data streams they may write are made from it: the script        *)
(* revokes by name, and Elasticsearch matches a data stream by pattern.    *)
(***************************************************************************)
EXTENDS Naturals, Sequences, SequencesExt

CONSTANTS
    Chars,     \* the characters an argument can have, "." and "-" among them
    Datasets,  \* the arguments operators try
    MaxKeys    \* bound: how many keys are ever minted

ASSUME CredentialsAssumption ==
    /\ {".", "-"} \subseteq Chars
    /\ Datasets \subseteq Seq(Chars)
    /\ MaxKeys \in Nat

VARIABLES
    keys,  \* Elasticsearch: the API keys ever minted, oldest first
    uses   \* which of them each application is configured with; 0 is none

vars == <<keys, uses>>

-----------------------------------------------------------------------------
(* Names and patterns. *)

Valid_AllowsHyphen(d) ==
    /\ d # <<>> /\ d[1] # "." /\ d[Len(d)] # "."
    /\ \A i \in 1..(Len(d) - 1) : ~(d[i] = "." /\ d[i + 1] = ".")

\* Words joined by single dots, and no hyphen anywhere.
Valid(d) ==
    /\ d # <<>> /\ d[1] # "." /\ d[Len(d)] # "."
    /\ \A i \in 1..(Len(d) - 1) : ~(d[i] = "." /\ d[i + 1] = ".")
    /\ \A i \in 1..Len(d) : d[i] # "-"

ValidDatasets == {d \in Datasets : Valid(d)}

KeyName_DropsDots(d) == <<"app", "-">> \o SelectSeq(d, LAMBDA ch : ch # ".")

\* NAME="app-${DATASET//./-}"
KeyName(d) ==
    <<"app", "-">> \o [i \in 1..Len(d) |-> IF d[i] = "." THEN "-" ELSE d[i]]

\* The data stream an application's events go to.
Stream(d) == <<"logs", "-">> \o d \o <<"-", "default">>

\* "logs-${DATASET}-*", but for its wildcard.
Scope(d) == <<"logs", "-">> \o d \o <<"-">>

MayWrite(k, d) == k.valid /\ IsPrefix(Scope(k.dataset), Stream(d))

-----------------------------------------------------------------------------

Key(D) == [dataset : D, valid : BOOLEAN, printed : BOOLEAN]

TypeOK ==
    /\ keys \in Seq(Key(ValidDatasets)) /\ Len(keys) <= MaxKeys
    /\ uses \in [ValidDatasets -> 0..Len(keys)]
    /\ \A d \in ValidDatasets : uses[d] # 0 => keys[uses[d]].dataset = d /\ keys[uses[d]].printed

Init ==
    /\ keys = <<>>
    /\ uses = [d \in ValidDatasets |-> 0]

Issue_Unchecked(d, answered) ==
    /\ Len(keys) < MaxKeys
    /\ keys' = Append(keys, [dataset |-> d, valid |-> TRUE, printed |-> answered])
    /\ UNCHANGED uses

\* POST _security/api_key. Names need not be unique. Without an answer the key exists
\* but is never shown: it cannot be retrieved again.
Issue(d, answered) ==
    /\ Valid(d)
    /\ Len(keys) < MaxKeys
    /\ keys' = Append(keys, [dataset |-> d, valid |-> TRUE, printed |-> answered])
    /\ UNCHANGED uses

\* The operator puts a key that was shown into the application's configuration.
Configure(d) ==
    \E k \in 1..Len(keys) :
        /\ keys[k].printed /\ keys[k].dataset = d
        /\ uses' = [uses EXCEPT ![d] = k]
        /\ UNCHANGED keys

\* DELETE _security/api_key by name: every key that has it, whether it was shown or not.
Revoke(d) ==
    /\ Valid(d)
    /\ keys' = [k \in 1..Len(keys) |->
                  IF KeyName(keys[k].dataset) = KeyName(d)
                  THEN [keys[k] EXCEPT !.valid = FALSE] ELSE keys[k]]
    /\ UNCHANGED uses

Next ==
    \/ \E d \in Datasets : Revoke(d) \/ \E answered \in BOOLEAN : Issue(d, answered)
    \/ \E d \in ValidDatasets : Configure(d)

Spec == Init /\ [][Next]_vars

-----------------------------------------------------------------------------
(* Properties. *)

\* A key can "write one application's logs and nothing else"
\* (create-app-credentials.sh:2): no two dataset names are such that the pattern of one
\* takes in the data stream of the other, which is why hyphens are refused.
WritesOnlyItsOwn ==
    \A k \in 1..Len(keys) : \A d \in ValidDatasets :
        MayWrite(keys[k], d) => keys[k].dataset = d

\* Revoking a dataset cuts off everything that could write it, the keys whose answer
\* was lost included, and no key of another dataset, though it works by name and the
\* dots are gone from the name.
RevokesExactlyItsDataset ==
    [][\A d \in Datasets : Revoke(d) =>
          \A k \in 1..Len(keys) :
              keys'[k].valid <=> (keys[k].valid /\ ~MayWrite(keys[k], d))]_vars

\* create-app-credentials.sh:9: "re-run to issue a replacement, then revoke the old
\* one". An application that has been given a replacement would keep its access when
\* the script is then run with --revoke. It does not: see the README.
ReplacementSurvives ==
    [][\A d \in ValidDatasets :
          LET k == uses[d] IN
          (Revoke(d) /\ k # 0 /\ keys[k].valid
             /\ \E old \in 1..(k - 1) : keys[old].dataset = d /\ keys[old].valid)
              => keys'[k].valid]_vars
=============================================================================
