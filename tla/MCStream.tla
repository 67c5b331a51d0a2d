------------------------------ MODULE MCStream ------------------------------
(* Stream on small instances for TLC. *)
EXTENDS Stream

\* A view: of rxLog, a history no guard depends on, only the last end of a packet
\* matters to what may be reported next.
LastEndOfRxLog ==
  LET ends == SelectSeq(rxLog, IsFinal)
  IN  <<rxFifo, frontPacketId, rxIsNew, rxAcks, txVars, net,
        IF ends = <<>> THEN 0 ELSE ends[Len(ends)].id + 1>>
=============================================================================
