---------------------------- MODULE MCPriorities ----------------------------
(* Priorities on small instances for TLC. *)
EXTENDS Priorities, TLC

Symmetry == Permutations(Streams)
=============================================================================
