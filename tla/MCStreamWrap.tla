---------------------------- MODULE MCStreamWrap ----------------------------
(***************************************************************************)
(* Stream on a small instance, from the moment it has carried FirstId      *)
(* packets: all of them reported on both sides, nothing in flight.         *)
(***************************************************************************)
EXTENDS Stream

CONSTANT FirstId

WrapInit ==
  /\ commands = <<>> /\ txFifo = <<>> /\ packetFifoIdx = 0 /\ txLog = <<>>
  /\ nextPacketId = FirstId
  /\ rxFifo = <<>> /\ rxAcks = <<>> /\ rxLog = <<>>
  /\ frontPacketId = FirstId
  /\ rxIsNew = FALSE
  /\ net = {}

WrapSpec == WrapInit /\ [][Next]_vars
=============================================================================
