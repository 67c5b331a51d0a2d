------------------------------ MODULE MCHalves ------------------------------
(***************************************************************************)
(* RxStream and TxStream on small instances for TLC, each on its own: one  *)
(* half moves as long as the other has not started.  Module Stream is      *)
(* where they meet.                                                        *)
(***************************************************************************)
EXTENDS RxStream, TxStream

RxTurn == RxNext /\ TxInit /\ UNCHANGED txVars
TxTurn == TxNext /\ RxInit /\ UNCHANGED rxVars

HalvesInit == RxInit /\ TxInit

\* Until the sender has started there is nothing for its fairness to ask for.
HalvesSpec ==
  HalvesInit /\ [][RxTurn \/ TxTurn]_<<rxVars, txVars>> /\ TxFairness
=============================================================================
