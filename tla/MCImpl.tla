------------------------------- MODULE MCImpl -------------------------------
(* Impl on small instances for TLC. *)
EXTENDS Impl
=============================================================================
