------------------------------ MODULE RxStream ------------------------------
(***************************************************************************)
(* The receiving half of one stream: the reordering fifo of RxStream       *)
(* (Impl.hpp) and the handlers of Connection that change it (readChunk,    *)
(* writeMetaChunk, processRxFifo in Stream.cpp).                           *)
(*                                                                         *)
(* Any chunk of DataChunk may arrive at any time: lost, late, repeated or  *)
(* reordered datagrams are all inputs here.  Module Stream connects this   *)
(* half to a sender.                                                       *)
(*                                                                         *)
(* Data is measured in units.  The clock is abstracted to what the code    *)
(* asks of it: an RxPacket is timedOut once its timeout_us has passed.     *)
(***************************************************************************)
EXTENDS PacketIds

CONSTANTS MaxId,          \* ids 0..MaxId arrive
          Sizes,          \* packet sizes that arrive, in units
          Threshold,      \* rxPacketBufferSizeThreshold_B, in units
          RxFifoLimit,    \* UINT16_MAX / 2 in the code
          AckBound        \* bound on the acks waiting for a datagram

ASSUME RxAssumption ==
  /\ MaxId \in PacketId
  /\ Sizes \subseteq Nat \ {0}
  /\ Threshold \in Nat
  /\ RxFifoLimit \in Nat
  /\ AckBound \in Nat \ {0}

VARIABLES rxFifo,         \* RxStream::fifo (fifoShadow is the ids in it)
          frontPacketId,  \* RxStream::frontPacketId
          rxIsNew,        \* RxStream::isNew, TRUE until the first chunk
          rxAcks,         \* RxStreams::acks
          rxLog           \* the calls of onReceived so far

rxVars == <<rxFifo, frontPacketId, rxIsNew, rxAcks, rxLog>>

NoRepeat == -1            \* UINT64_MAX in offsetRepeat_B

DataChunk ==
  [type : {"SmallPacket", "BeginOfPacket"}, id : 0..MaxId,
   isReliable : BOOLEAN, isFront : BOOLEAN, size : Sizes]
  \cup
  [type : {"PieceOfPacket"}, id : 0..MaxId,
   isReliable : BOOLEAN, isFront : BOOLEAN,
   offset : UNION {0..(n - 1) : n \in Sizes}, size : UNION {1..n : n \in Sizes}]

\* bytes: the units of the packet written to copy or handed to onReceived;
\* hasCopy: copy is not empty
RxPacket ==
  [id : PacketId, size_B : Nat, offset_B : Nat, offsetRepeat_B : Nat \cup {NoRepeat},
   isReliable : BOOLEAN, isReceived : BOOLEAN, hasCopy : BOOLEAN,
   bytes : SUBSET Nat, timedOut : BOOLEAN]

Call == [id : PacketId, status : {"s", "p", "t"}, whole : BOOLEAN]

-----------------------------------------------------------------------------
(* The fifo: emplace, get and the front packet id                          *)

\* mutant: size_B starts as offsetRepeat_B does
NewRxPacket_NoSize(id) ==
  [id |-> id, size_B |-> NoRepeat, offset_B |-> 0, offsetRepeat_B |-> NoRepeat,
   isReliable |-> FALSE, isReceived |-> FALSE, hasCopy |-> FALSE,
   bytes |-> {}, timedOut |-> FALSE]

\* a packet as emplace() creates it; RxStream::isReliable is never assigned
NewRxPacket(id) ==
  [id |-> id, size_B |-> 0, offset_B |-> 0, offsetRepeat_B |-> NoRepeat,
   isReliable |-> FALSE, isReceived |-> FALSE, hasCopy |-> FALSE,
   bytes |-> {}, timedOut |-> FALSE]

Shadow(f) == [i \in 1..Len(f) |-> f[i].id]

\* NewRxPacket for each of the ids first..last
NewRxPackets(first, last) ==
  [i \in 1..(last - first + 1) |-> NewRxPacket(first + i - 1)]

\* mutant: the ids to append start at the last one, not after it
emplace_FromBack(f, id) ==
  IF f = <<>> THEN <<NewRxPacket(id)>>
  ELSE IF f[Len(f)].id < id THEN f \o NewRxPackets(f[Len(f)].id, id) ELSE f

\* RxStream::emplace: extend the fifo up to id
emplace(f, id) ==
  IF f = <<>> THEN <<NewRxPacket(id)>>
  ELSE LET back == f[Len(f)].id
       IN  IF back < id THEN f \o NewRxPackets(back + 1, id)
           ELSE IF ThreeQuarters <= back /\ id < Quarter /\ back - id > Quarter
                THEN f \o NewRxPackets(back, UINT32_MAX) \o NewRxPackets(0, id)
                ELSE f

\* the fifo after RxStream::get(id)
get(f, front, id) ==
  IF front < id \/ Wrapped(id, front) THEN emplace(emplace(f, front), id)
                                      ELSE emplace(f, id)

\* the index of the packet RxStream::get(id) returns: the last one with that
\* id, or the front one where the code asserts false
LastAt(f, id, i) ==
  f[i].id = id /\ \A j \in (i + 1)..Len(f) : f[j].id # id

indexOf(f, id) ==
  IF \E i \in 1..Len(f) : LastAt(f, id, i)
  THEN CHOOSE i \in 1..Len(f) : LastAt(f, id, i)
  ELSE 1

-----------------------------------------------------------------------------
(* processRxFifo: report and drop packets from the front of the fifo       *)

\* frontPacketId after the packets 1..k of the fifo were dropped
FrontAfter(f, front, k) ==
  IF k = 0 THEN front
  ELSE updateFrontPacketId(front, <<f[k].id>>, TRUE, NextId(f[k].id))

\* the loop does not keep packet i, having dropped those before it
Leaves(f, front, i) ==
  LET now == FrontAfter(f, front, i - 1)
  IN  \/ f[i].isReceived
      \/ f[i].id < now /\ ~Wrapped(f[i].id, now)
      \/ ~(f[i].id < now) /\ f[i].timedOut

Final(p) ==
  [id |-> p.id, status |-> IF p.isReceived THEN "s" ELSE "t",
   whole |-> p.isReceived /\ p.bytes = 0..(p.size_B - 1)]

Finals(f, k) == [i \in 1..k |-> Final(f[i])]

\* exactly the first k packets leave
Drops(f, front, k) ==
  /\ \A i \in 1..k : Leaves(f, front, i)
  /\ k < Len(f) => ~Leaves(f, front, k + 1)

processRxFifo(f, front, log) ==
  \E k \in 0..Len(f) :
    /\ Drops(f, front, k)
    /\ rxFifo' = SubSeq(f, k + 1, Len(f))
    /\ frontPacketId' = FrontAfter(f, front, k)
    /\ rxLog' = log \o Finals(f, k)

-----------------------------------------------------------------------------
(* readChunk                                                               *)

acknowledge(acks, id) ==
  IF acks # <<>> /\ acks[Len(acks)] = id THEN acks ELSE Append(acks, id)

\* the fifo once the stream is known: get(0) on the first chunk of a stream
Opened == IF rxIsNew THEN <<NewRxPacket(0)>> ELSE rxFifo

\* a return that leaves the fifo at f
Return(f, front) ==
  rxFifo' = f /\ frontPacketId' = front /\ UNCHANGED <<rxAcks, rxLog>>

\* The handlers below run on the fifo f that get() left, at its index i.
Put(f, i, packet) == [f EXCEPT ![i] = packet]

\* packet.timeout_us = now_us + RTT_us * g_rxFifoCleanupK
Renewed(packet) == [packet EXCEPT !.timedOut = FALSE]

ReadSmallPacket(c, f, i, front) ==
  LET p == [Renewed(f[i]) EXCEPT !.isReceived = TRUE]
  IN  /\ c.type = "SmallPacket"
      /\ rxAcks' = IF c.isReliable THEN acknowledge(rxAcks, c.id) ELSE rxAcks
      /\ \/ /\ f[i].isReceived
            /\ processRxFifo(Put(f, i, p), front, rxLog)
         \/ /\ ~f[i].isReceived
            /\ f[1].id = c.id
            /\ processRxFifo(
                 Tail(Put(f, i, p)),
                 updateFrontPacketId(front, Shadow(f), TRUE, NextId(c.id)),
                 Append(rxLog, [id |-> c.id, status |-> "s", whole |-> TRUE]))
         \/ /\ ~f[i].isReceived
            /\ f[1].id # c.id
            /\ processRxFifo(
                 Put(f, i, [p EXCEPT !.size_B = c.size, !.hasCopy = TRUE,
                                     !.bytes = 0..(c.size - 1)]),
                 front, rxLog)

ReadBeginOfPacket(c, f, i, front) ==
  LET p == Renewed(f[i])
      q == IF p.size_B # 0 THEN p
           ELSE [p EXCEPT !.size_B = c.size, !.isReliable = c.isReliable,
                          !.hasCopy = c.size <= Threshold]
  IN  /\ c.type = "BeginOfPacket"
      /\ processRxFifo(Put(f, i, q), front, rxLog)
      /\ UNCHANGED rxAcks

\* The position of a piece in the packet decides what becomes of it.
NextPiece(c, p) == c.offset = p.offset_B /\ c.offset + c.size <= p.size_B
GapBefore(c, p) == c.offset > p.offset_B /\ c.offset + c.size <= p.size_B

\* mutant: every piece is acknowledged, not the last one
TakePiece_AcksEarly(c, f, i, front) ==
  /\ rxFifo' = Put(f, i, [Renewed(f[i]) EXCEPT !.offset_B = c.offset + c.size])
  /\ frontPacketId' = front
  /\ rxAcks' = IF f[i].isReliable THEN acknowledge(rxAcks, c.id) ELSE rxAcks
  /\ UNCHANGED rxLog

TakePiece(c, f, i, front) ==
  LET p   == Renewed(f[i])
      end == c.offset + c.size
      g   == Put(f, i, [p EXCEPT !.offset_B = end,
                                 !.bytes = @ \cup c.offset..(end - 1),
                                 !.isReceived = @ \/ end >= p.size_B])
      log == IF p.hasCopy THEN rxLog
             ELSE Append(rxLog, [id |-> c.id, status |-> "p", whole |-> FALSE])
  IN  \/ /\ end < p.size_B
         /\ rxFifo' = g /\ frontPacketId' = front /\ rxLog' = log
         /\ UNCHANGED rxAcks
      \/ /\ end >= p.size_B
         /\ rxAcks' = IF p.isReliable THEN acknowledge(rxAcks, c.id) ELSE rxAcks
         /\ processRxFifo(g, front, log)

ReadPieceOfPacket(c, f, i, front) ==
  LET p == Renewed(f[i])
  IN  /\ c.type = "PieceOfPacket"
      /\ \/ /\ p.size_B = 0                       \* BeginOfPacket is missing
            /\ Return(Put(f, i, [p EXCEPT !.offsetRepeat_B = 0,
                                          !.isReliable = c.isReliable]), front)
         \/ /\ p.size_B # 0
            /\ ~NextPiece(c, p) /\ ~GapBefore(c, p)
            /\ Return(Put(f, i, p), front)
         \/ /\ p.size_B # 0
            /\ GapBefore(c, p)
            /\ Return(Put(f, i, [p EXCEPT !.offset_B = c.offset,
                                          !.offsetRepeat_B = c.offset]), front)
         \/ /\ p.size_B # 0
            /\ NextPiece(c, p)
            /\ ~p.hasCopy /\ front # c.id           \* unbuffered, out of order
            /\ Return(Put(f, i, [p EXCEPT !.offset_B = 0,
                                          !.offsetRepeat_B = 0]), front)
         \/ /\ p.size_B # 0
            /\ NextPiece(c, p)
            /\ p.hasCopy \/ front = c.id
            /\ TakePiece(c, f, i, front)

\* mutant: a packet already dealt with is not acknowledged again
ReadIgnored_Silent(c, f, front) ==
  /\ rxFifo' = f
  /\ frontPacketId' = front
  /\ UNCHANGED <<rxAcks, rxLog>>

\* the early returns: fifo overflow, or a packet already dealt with
ReadIgnored(c, f, front) ==
  /\ rxFifo' = f
  /\ frontPacketId' = front
  /\ rxAcks' = IF /\ Len(f) < RxFifoLimit
                  /\ c.isReliable /\ c.type # "BeginOfPacket"
               THEN acknowledge(rxAcks, c.id) ELSE rxAcks
  /\ UNCHANGED rxLog

ReadChunk(c) ==
  LET opened == Opened
      front  == updateFrontPacketId(frontPacketId, Shadow(opened), c.isFront, c.id)
      f      == get(opened, front, c.id)
      i      == indexOf(f, c.id)
  IN  /\ rxIsNew' = FALSE
      /\ IF Len(opened) >= RxFifoLimit \/ isReceivedBefore(front, c.id)
         THEN ReadIgnored(c, opened, front)
         ELSE IF f[i].id # c.id                    \* get() asserted false
              THEN Return(f, front)
              ELSE \/ ReadSmallPacket(c, f, i, front)
                   \/ ReadBeginOfPacket(c, f, i, front)
                   \/ ReadPieceOfPacket(c, f, i, front)
      /\ Len(rxAcks') <= AckBound

-----------------------------------------------------------------------------
(* writeMetaChunk: acks first, then RepeatInfo; out is the chunk written    *)

AckChunk(id) == [type |-> "Acknowledge", id |-> id]

\* mutant: the position asked for is one too far
RepeatChunk_OffByOne(p) ==
  [type |-> "RepeatInfo", id |-> p.id, offset |-> p.offsetRepeat_B + 1]

RepeatChunk(p) == [type |-> "RepeatInfo", id |-> p.id, offset |-> p.offsetRepeat_B]

RxOutput ==
  {AckChunk(rxAcks[a]) : a \in 1..Len(rxAcks)}
    \cup {RepeatChunk(rxFifo[i]) : i \in 1..Len(rxFifo)}

WriteAcknowledge(out) ==
  /\ rxAcks # <<>>
  /\ out = AckChunk(Head(rxAcks))
  /\ rxAcks' = Tail(rxAcks)
  /\ UNCHANGED <<rxFifo, frontPacketId, rxIsNew, rxLog>>

\* The cursor packetIdx decides which packet is asked for first: any may be.
WriteRepeatInfo(out) ==
  /\ rxAcks = <<>>
  /\ ~rxIsNew
  /\ \E k \in 0..Len(rxFifo) :
       /\ Drops(rxFifo, frontPacketId, k)
       /\ frontPacketId' = FrontAfter(rxFifo, frontPacketId, k)
       /\ rxLog' = rxLog \o Finals(rxFifo, k)
       /\ \E i \in (k + 1)..Len(rxFifo) :
            /\ rxFifo[i].isReliable /\ rxFifo[i].offsetRepeat_B # NoRepeat
            /\ out = RepeatChunk(rxFifo[i])
            /\ rxFifo' = SubSeq(Put(rxFifo, i, [rxFifo[i] EXCEPT
                                                 !.offsetRepeat_B = NoRepeat]),
                                k + 1, Len(rxFifo))
  /\ UNCHANGED <<rxIsNew, rxAcks>>

\* nothing to write, or no room for it: the fifo is processed all the same
WriteNoMeta ==
  /\ rxAcks = <<>>
  /\ ~rxIsNew
  /\ processRxFifo(rxFifo, frontPacketId, rxLog)
  /\ UNCHANGED <<rxIsNew, rxAcks>>

\* the clock passes the timeout_us of a packet
RxTimeout ==
  /\ \E i \in 1..Len(rxFifo) :
       /\ ~rxFifo[i].timedOut
       /\ rxFifo' = Put(rxFifo, i, [rxFifo[i] EXCEPT !.timedOut = TRUE])
  /\ UNCHANGED <<frontPacketId, rxIsNew, rxAcks, rxLog>>

-----------------------------------------------------------------------------
RxInit ==
  /\ rxFifo = <<>>
  /\ frontPacketId = 0
  /\ rxIsNew = TRUE
  /\ rxAcks = <<>>
  /\ rxLog = <<>>

RxNext ==
  \/ \E c \in DataChunk : ReadChunk(c)
  \/ \E out \in RxOutput : WriteAcknowledge(out) \/ WriteRepeatInfo(out)
  \/ WriteNoMeta
  \/ RxTimeout

RxSpec == RxInit /\ [][RxNext]_rxVars

-----------------------------------------------------------------------------
\* The state of RxStream has its types; in particular size_B and offset_B stay
\* numbers through all that readChunk does to them.
RxTypeOK ==
  /\ rxFifo \in Seq(RxPacket)
  /\ frontPacketId \in PacketId
  /\ rxIsNew \in BOOLEAN
  /\ rxAcks \in Seq(PacketId)
  /\ rxLog \in Seq(Call)

IsFinal(call) == call.status # "p"

\* README: "The order of packets is guaranteed within one stream."  onReceived
\* reports the end of a packet ('s' or 't') once per packet, in the order of
\* the ids, whatever chunks arrive in whatever order.
RxInOrder ==
  \A i, j \in 1..Len(rxLog) :
    i < j /\ IsFinal(rxLog[i]) /\ IsFinal(rxLog[j]) => rxLog[i].id < rxLog[j].id

\* The comments in emplace(): the fifo holds consecutive ids, so that get()
\* finds every id it is asked for and never reaches its assert(false).
RxConsecutive ==
  \A i \in 1..Len(rxFifo) : i > 1 => rxFifo[i].id = NextId(rxFifo[i - 1].id)

\* frontPacketId, below which chunks are dropped, never moves back
RxFrontAdvances == [][frontPacketId <= frontPacketId']_rxVars

\* An ack waits only for a packet that is received or behind frontPacketId:
\* never for one that is still being put together.
RxAcksSettled ==
  \A a \in 1..Len(rxAcks) :
    \/ rxAcks[a] < frontPacketId
    \/ \E i \in 1..Len(rxFifo) : rxFifo[i].id = rxAcks[a] /\ rxFifo[i].isReceived
=============================================================================
