------------------------------ MODULE MCLoops ------------------------------
(***************************************************************************)
(* FindPacketIdx and Datagram on small instances for TLC.  They share no   *)
(* state: it is enough that each meets all of its inputs while the other   *)
(* has its smallest one.                                                   *)
(***************************************************************************)
EXTENDS FindPacketIdx, Datagram

SmallestFind == first = 0 /\ size = 0 /\ packetId = 0
SmallestDatagram == PMTU_B = Header_B

FindTurn == FindNext /\ UNCHANGED vars
DatagramTurn == Next /\ UNCHANGED findVars

LoopsInit == FindInit /\ Init /\ (SmallestFind \/ SmallestDatagram)

LoopsSpec ==
  LoopsInit /\ [][FindTurn \/ DatagramTurn]_<<findVars, vars>> /\ WF_<<findVars, vars>>(FindTurn)
=============================================================================
