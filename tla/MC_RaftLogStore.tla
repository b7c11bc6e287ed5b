-------------------------- MODULE MC_RaftLogStore --------------------------
(* Instances of RaftLogStore for TLC. *)
EXTENDS RaftLogStore
CONSTANT c1
=============================================================================
