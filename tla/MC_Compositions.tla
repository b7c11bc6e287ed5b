--------------------------- MODULE MC_Compositions ---------------------------
(* Instances of Compositions for TLC. *)
EXTENDS Compositions

CONSTANTS n1, n2, x1, k1
==============================================================================
