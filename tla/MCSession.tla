----------------------------- MODULE MCSession -----------------------------
(* Session on small instances for TLC. *)
EXTENDS Session
=============================================================================
