--------------------------- MODULE MC_IntentStore ---------------------------
(* Instances of IntentStore for TLC. *)
EXTENDS IntentStore, TLC

CONSTANTS x1

\* Sequences 1 and 3 are two requests of one key, 2 and 4 carry none.
MixedKeys == [s \in Seqs |-> IF s \in {1, 3} THEN x1 ELSE NoKey]
=============================================================================
