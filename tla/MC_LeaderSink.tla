--------------------------- MODULE MC_LeaderSink ---------------------------
(* Instances of LeaderSink for TLC. *)
EXTENDS LeaderSink, TLC

CONSTANTS n1, n2, n3, k1, k2

OneIntent == (1 :> k1)
TwoKeys == (1 :> k1) @@ (2 :> k2)

NodeSymmetry == Permutations(Nodes)
=============================================================================
