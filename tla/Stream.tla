------------------------------- MODULE Stream -------------------------------
(***************************************************************************)
(* One stream end to end: a sender (TxStream), a receiver (RxStream) and   *)
(* the UDP network between them, which loses, reorders and, if Duplicates, *)
(* repeats what it carries.  Data chunks travel one way, acks and          *)
(* RepeatInfo the other.                                                   *)
(*                                                                         *)
(* The network carries chunks.  A datagram is its chunks received one by   *)
(* one: onUdpReceived calls readChunk for each.                            *)
(***************************************************************************)
EXTENDS TxStream, RxStream, FiniteSets

CONSTANTS NetBound,       \* bound on the chunks in flight
          Duplicates      \* may the network deliver a chunk twice?

ASSUME NetAssumption ==
  /\ NetBound \in Nat \ {0}
  /\ Duplicates \in BOOLEAN
  /\ TxSizes = Sizes

VARIABLE net              \* the chunks in flight

vars == <<txVars, rxVars, net>>

\* udpSocket.send: the chunk is lost at once or travels
Transmit(c) ==
  \/ UNCHANGED net
  \/ /\ Cardinality(net \cup {c}) <= NetBound
     /\ net' = net \cup {c}

\* udpSocket.process: the chunk reaches onUdpReceived
Arrive(c) ==
  \/ net' = net \ {c}
  \/ Duplicates /\ UNCHANGED net

-----------------------------------------------------------------------------
SenderSends ==
  /\ \/ \E size \in TxSizes, isReliable \in Reliabilities : Send(size, isReliable)
     \/ DoCommands
     \/ WriteNoData
     \/ TxExpire
  /\ UNCHANGED <<rxVars, net>>

SenderWrites ==
  \E out \in TxOutput :
    WriteDataChunk(out) /\ Transmit(out) /\ UNCHANGED rxVars

SenderReads ==
  \E c \in net :
    (ReadAcknowledge(c) \/ ReadRepeatInfo(c)) /\ Arrive(c) /\ UNCHANGED rxVars

IsData(c) == c.type \in {"SmallPacket", "BeginOfPacket", "PieceOfPacket"}

ReceiverReads ==
  \E c \in net :
    IsData(c) /\ ReadChunk(c) /\ Arrive(c) /\ UNCHANGED txVars

ReceiverWrites ==
  \E out \in RxOutput :
    /\ WriteAcknowledge(out) \/ WriteRepeatInfo(out)
    /\ Transmit(out)
    /\ UNCHANGED txVars

ReceiverWaits ==
  /\ WriteNoMeta \/ RxTimeout
  /\ UNCHANGED <<txVars, net>>

Init == TxInit /\ RxInit /\ net = {}

Next ==
  \/ SenderSends \/ SenderWrites \/ SenderReads
  \/ ReceiverReads \/ ReceiverWrites \/ ReceiverWaits

Spec == Init /\ [][Next]_vars

-----------------------------------------------------------------------------
(* Fairness of a lossy network: of the chunks of a kind that are sent again *)
(* and again not all are lost, and what is in flight arrives in the end.    *)
(* Nothing is asked of TxExpire and RxTimeout.                              *)

\* the chunks that readChunk answers with an ack
Answered == {"SmallPacket", "PieceOfPacket"}

Departs(c) == c \notin net /\ Cardinality(net) < NetBound /\ net' = net \cup {c}

DataGetsThrough ==
  \E out \in TxOutput :
    out.type \in Answered /\ Departs(out) /\ WriteDataChunk(out) /\ UNCHANGED rxVars

AckGetsThrough ==
  \E out \in RxOutput : Departs(out) /\ WriteAcknowledge(out) /\ UNCHANGED txVars

Flying(kinds) == \E c \in net : c.type \in kinds

Arrives(kinds) ==
  \E c \in net :
    /\ c.type \in kinds /\ net' = net \ {c}
    /\ \/ IsData(c) /\ ReadChunk(c) /\ UNCHANGED txVars
       \/ (ReadAcknowledge(c) \/ ReadRepeatInfo(c)) /\ UNCHANGED rxVars

FairSpec ==
  /\ Spec
  /\ SF_vars(DataGetsThrough) /\ SF_vars(AckGetsThrough)
  /\ \A kinds \in {Answered, {"Acknowledge"}, {"BeginOfPacket", "RepeatInfo"}} :
       []<>Flying(kinds) => []<><<Arrives(kinds)>>_vars

-----------------------------------------------------------------------------
\* What writeDataChunk and writeMetaChunk put in flight, readChunk of the other
\* half takes: no offset, size or id is outside what it expects.
NetTypeOK == \A c \in net : IF IsData(c) THEN c \in DataChunk ELSE c \in TxInput

\* what the receiving application was told at the end of packet id
ToldAtEnd(id, status) ==
  \E i \in 1..Len(rxLog) : rxLog[i].id = id /\ rxLog[i].status = status

\* onDelivered said 's' for a packet of a reliable stream
Confirmed(id) ==
  \E i \in 1..Len(txLog) :
    txLog[i].id = id /\ txLog[i].status = "s" /\ txLog[i].isReliable

\* The receiver is through with the packet: it is behind frontPacketId or
\* complete in the fifo.
SettledIds ==
  0..(frontPacketId - 1)
  \cup {rxFifo[i].id : i \in {j \in 1..Len(rxFifo) : rxFifo[j].isReceived}}

\* An 's' to the sender of a reliable packet is never premature: across lost,
\* late and repeated acks, the receiver is through with that packet.
ConfirmedIsSettled == \A id \in PacketId : Confirmed(id) => id \in SettledIds

\* the sender goes on repeating packet id
Unconfirmed(id) == \E i \in 1..Len(txFifo) : txFifo[i].id = id /\ ~Done(txFifo[i])

\* A lost ack is made good: a packet the receiver is through with is not repeated
\* for ever, because readChunk acknowledges what comes for it again.
SettledIsConfirmed ==
  \A id \in 0..(MaxPackets - 1) : []<>~(id \in SettledIds /\ Unconfirmed(id))

Promise == INSTANCE OrderedDelivery
             WITH sent <- nextPacketId, through <- SettledIds, received <- rxLog,
                  reported <- txLog

\* The stream, with its chunks, fifos and network, keeps what OrderedDelivery
\* promises: "The order of packets is guaranteed within one stream" (README),
\* and processTxFifo reports reliable packets in order and never prematurely.
StreamKeepsPromise == Promise!Spec

\* isFront lets the receiver drop every packet before the chunk's.  However
\* late the chunk arrives, the sender has finished with all of those.
FrontIsTrue ==
  \A c \in net : IsData(c) /\ c.isFront => c.id <= Len(txLog)

\* A piece that is written lies inside its packet, so size_B - offset_B does
\* not underflow, whatever RepeatInfo came back.
OffsetsInPacket ==
  \A i \in 1..Len(txFifo) :
    ~txFifo[i].isAcknowledged => txFifo[i].offset_B < txFifo[i].size_B

\* README: "Reliable and unreliable packet delivery is supported."  A packet
\* of a reliable stream whose sender was told 's' reached the receiving
\* application, or waits complete in its fifo.
ConfirmedIsDelivered ==
  \A id \in PacketId :
    Confirmed(id) =>
      \/ ToldAtEnd(id, "s")
      \/ \E i \in 1..Len(rxFifo) : rxFifo[i].id = id /\ rxFifo[i].isReceived

\* A packet reported with 's' is complete: the receiver holds, or has handed
\* over, every unit of it.
DeliveredWhole ==
  \A i \in 1..Len(rxLog) : rxLog[i].status = "s" => rxLog[i].whole

\* README: "The order of packets is guaranteed within one stream."  Data of a
\* packet is never handed to onReceived after data of a later packet.
PiecesInOrder ==
  \A i, j \in 1..Len(rxLog) :
    i < j /\ rxLog[i].status # "t" /\ rxLog[j].status # "t"
      => rxLog[i].id <= rxLog[j].id
=============================================================================
