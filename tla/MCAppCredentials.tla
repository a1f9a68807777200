------------------------- MODULE MCAppCredentials --------------------------
(* Every argument of up to three characters: a letter, "app" (which counts *)
(* as one), "." and "-"; every name of up to three, which are cut to two.  *)
EXTENDS Intake

MCChars == {"a", "app", ".", "-"}
MCDatasets == UNION {[1..n -> MCChars] : n \in 0..3}
MCWanted == {"a", "_", "."}
MCLowerOf == [ch \in {"A"} |-> "a"]
MCNameChars == {"a", "A", ".", "-"}
MCNames == UNION {[1..n -> MCNameChars] : n \in 0..3}
=============================================================================
