---------------------------- MODULE MC_ChunkRefs ----------------------------
(* Instances of ChunkRefs: every composition has the same content. *)
EXTENDS ChunkRefs, TLC

CONSTANT k1

Same == [x \in Comps |-> k1]
Perms == Permutations(Replicas) \cup Permutations(Nodes \ Replicas) \cup Permutations(Comps)
=============================================================================
