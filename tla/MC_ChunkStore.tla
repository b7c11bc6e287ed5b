--------------------------- MODULE MC_ChunkStore ---------------------------
(* Instances of ChunkStore: c1 has two blocks, the others one. *)
EXTENDS ChunkStore, TLC

CONSTANTS c1, f1

Perms == Permutations(Threads)

Sizes == [k \in Keys |-> IF k = c1 THEN 2 ELSE 1]
=============================================================================
