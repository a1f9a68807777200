------------------------------- MODULE Intake -------------------------------
(***************************************************************************)
(* stack/logstash/pipeline/app-tcp.conf beside AppCredentials: the other   *)
(* way an application's events become a data stream.  Any client of the    *)
(* TCP port names its dataset, unauthenticated, and Logstash sanitises the *)
(* name; an application with a key names its own.                          *)
(***************************************************************************)
EXTENDS AppCredentials

CONSTANTS
    Wanted,    \* the characters of [a-z0-9_.]
    LowerOf,   \* what each character of [A-Z] is in lower case
    NameChars, \* the characters a name can have, any others among them
    Names,     \* the names events come with
    NameLimit  \* how many characters of a name are kept (90)

ASSUME IntakeAssumption ==
    /\ {".", "_"} \subseteq Wanted /\ "-" \notin Wanted
    /\ \A ch \in DOMAIN LowerOf : LowerOf[ch] \in Wanted
    /\ Names \subseteq Seq(NameChars)
    /\ NameLimit \in Nat \ {0}

Kept_AllowsAny(ch) == IF ch \in DOMAIN LowerOf THEN LowerOf[ch] ELSE ch

\* The gsub, then lowercase.
Kept(ch) ==
    IF ch \in DOMAIN LowerOf THEN LowerOf[ch] ELSE IF ch \in Wanted THEN ch ELSE "_"

\* What is left of a name: the dataset, but for its prefix.
Sanitised(n) ==
    LET length == IF Len(n) <= NameLimit THEN Len(n) ELSE NameLimit IN
    IF n = <<>> THEN <<"generic">> ELSE [i \in 1..length |-> Kept(n[i])]

\* The dataset of an event in the data stream it lands in.
IntakeDataset(n) == <<"app", ".">> \o Sanitised(n)

IntakeDatasets == {IntakeDataset(n) : n \in Names}

\* Whatever an unauthenticated client calls itself, its events land in no data stream
\* that an application's key writes, unless the key was minted for that very dataset
\* (app-tcp.conf:175-182, create-app-credentials.sh:53): one hyphen that came through
\* would put them among another application's.
IntakeKeptApart ==
    \A k \in 1..Len(keys) : \A d \in IntakeDatasets :
        MayWrite(keys[k], d) => keys[k].dataset = d
=============================================================================
