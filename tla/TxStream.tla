------------------------------ MODULE TxStream ------------------------------
(***************************************************************************)
(* The sending half of one stream: send_ts and its queued command, the     *)
(* fifo of TxStream (Impl.hpp), writeDataChunk, processTxFifo and the      *)
(* handling of acks and RepeatInfo in readChunk (Stream.cpp).              *)
(*                                                                         *)
(* Any ack or RepeatInfo for a packet of the stream may arrive at any      *)
(* time.  The clock is abstracted to what the code asks of it: a TxPacket  *)
(* is expired once its timeout_us has passed; whether it rests (less than  *)
(* two RTT since begin_us, or already in this datagram) and whether the    *)
(* cursor returns to the front (fifoReturnTime_us) are choices, since both *)
(* depend on an RTT_us that moves up and down.                             *)
(***************************************************************************)
EXTENDS PacketIds

CONSTANTS MaxPackets,     \* bound on the packets sent
          CommandBound,   \* bound on the commands waiting for process_ts
          TxSizes,        \* packet sizes in units
          Reliabilities,  \* values of TxStream::isReliable
          Crc_B,          \* what BeginOfPacket carries besides the size: 4 bytes
          MaxSmall,       \* largest size a datagram can take, in units
          MaxPiece,       \* largest piece a datagram can take, in units
          TxWindow        \* 1 << 17 in the code

ASSUME TxAssumption ==
  /\ MaxPackets \in Nat /\ CommandBound \in Nat
  /\ TxSizes \subseteq Nat \ {0}
  /\ Reliabilities \subseteq BOOLEAN
  /\ Crc_B \in Nat /\ MaxSmall \in Nat /\ MaxPiece \in Nat \ {0} /\ TxWindow \in Nat

VARIABLES commands,       \* Connection::commands, the queued sends
          txFifo,         \* TxStream::fifo (fifoShadow is the ids in it)
          packetFifoIdx,  \* TxStream::packetFifoIdx, from 0
          nextPacketId,   \* TxStream::nextPacketId
          txLog           \* the calls of onDelivered so far

txVars == <<commands, txFifo, packetFifoIdx, nextPacketId, txLog>>

Command == [size : TxSizes, isReliable : Reliabilities]

\* hasBegun: begin_us is set; wasWritten: datagramId is set
TxPacket ==
  [id : PacketId, size_B : TxSizes, offset_B : Nat, isReliable : BOOLEAN,
   isAcknowledged : BOOLEAN, isStarted : BOOLEAN, hasBegun : BOOLEAN,
   wasWritten : BOOLEAN, expired : BOOLEAN]

Delivery == [id : PacketId, status : {"s", "t"}, isReliable : BOOLEAN]

\* the chunks writeDataChunk makes of a packet
SmallChunk(p, isFront) ==
  [type |-> "SmallPacket", id |-> p.id, isReliable |-> p.isReliable,
   isFront |-> isFront, size |-> p.size_B]

BeginChunk(p, isFront) ==
  [type |-> "BeginOfPacket", id |-> p.id, isReliable |-> p.isReliable,
   isFront |-> isFront, size |-> p.size_B]

PieceChunk(p, isFront, n) ==
  [type |-> "PieceOfPacket", id |-> p.id, isReliable |-> p.isReliable,
   isFront |-> isFront, offset |-> p.offset_B, size |-> n]

ChunksOf(p) ==
  IF p.isStarted
  THEN {PieceChunk(p, b, n) : b \in BOOLEAN, n \in 1..MaxPiece}
  ELSE {SmallChunk(p, b) : b \in BOOLEAN} \cup {BeginChunk(p, b) : b \in BOOLEAN}

TxOutput == UNION {ChunksOf(txFifo[i]) : i \in 1..Len(txFifo)}

\* the acks and RepeatInfo that may arrive: an offset lies in its packet
TxInput ==
  [type : {"Acknowledge"}, id : PacketId]
  \cup {c \in [type : {"RepeatInfo"}, id : PacketId,
              offset : UNION {0..(n - 1) : n \in TxSizes}] :
          \A i \in 1..Len(txFifo) :
            txFifo[i].id = c.id => c.offset < txFifo[i].size_B}

-----------------------------------------------------------------------------
(* send_ts and doCommands                                                  *)

\* The application queues a packet under the mutex.  Commands run in order,
\* so the reliability in force is that of the last setTxStreamPriority
\* before this send.
Send(size, isReliable) ==
  /\ Len(commands) < CommandBound
  /\ Len(txLog) + Len(txFifo) + Len(commands) < MaxPackets
  /\ commands' = Append(commands, [size |-> size, isReliable |-> isReliable])
  /\ UNCHANGED <<txFifo, packetFifoIdx, nextPacketId, txLog>>

NewTxPacket(id, command) ==
  [id |-> id, size_B |-> command.size, offset_B |-> 0,
   isReliable |-> command.isReliable, isAcknowledged |-> FALSE,
   isStarted |-> FALSE, hasBegun |-> FALSE, wasWritten |-> FALSE, expired |-> FALSE]

\* nextPacketId after n increments of a uint32_t
IdAfter(n) == (nextPacketId + n) % (UINT32_MAX + 1)

\* mutant: one increment for all the commands
DoCommands_OneId ==
  /\ commands # <<>>
  /\ txFifo' = txFifo \o
       [i \in 1..Len(commands) |-> NewTxPacket(nextPacketId, commands[i])]
  /\ nextPacketId' = IdAfter(1)
  /\ commands' = <<>>
  /\ UNCHANGED <<packetFifoIdx, txLog>>

DoCommands ==
  /\ commands # <<>>
  /\ txFifo' = txFifo \o
       [i \in 1..Len(commands) |-> NewTxPacket(IdAfter(i - 1), commands[i])]
  /\ nextPacketId' = IdAfter(Len(commands))
  /\ commands' = <<>>
  /\ UNCHANGED <<packetFifoIdx, txLog>>

-----------------------------------------------------------------------------
(* processTxFifo: report and drop packets from the front of the fifo       *)

\* mutant: the timeout is not looked at
Done_Waits(p) == p.isAcknowledged

Done(p) == p.isAcknowledged \/ p.expired

\* exactly the first k packets leave
Pops(f, k) ==
  /\ \A i \in 1..k : Done(f[i])
  /\ k < Len(f) => ~Done(f[k + 1])

Deliveries(f, k) ==
  [i \in 1..k |-> [id |-> f[i].id, isReliable |-> f[i].isReliable,
                   status |-> IF f[i].isAcknowledged THEN "s" ELSE "t"]]

\* mutant: the cursor stays where it was
CursorAfter_Stays(idx, k) == idx

CursorAfter(idx, k) == IF idx > k THEN idx - k ELSE 0

processTxFifo(f, idx, log) ==
  \E k \in 0..Len(f) :
    /\ Pops(f, k)
    /\ txFifo' = SubSeq(f, k + 1, Len(f))
    /\ packetFifoIdx' = CursorAfter(idx, k)
    /\ txLog' = log \o Deliveries(f, k)

-----------------------------------------------------------------------------
(* writeDataChunk; out is the chunk written                                *)

\* the packet may be passed over because it was sent a moment ago
MayRest(p) == p.wasWritten \/ (~p.isStarted /\ p.hasBegun)

\* From index start the cursor stops at index i.
Selects(f, start, i) ==
  /\ i \in (start + 1)..Len(f)
  /\ i - 1 <= TxWindow
  /\ \A j \in (start + 1)..(i - 1) : Done(f[j]) \/ MayRest(f[j])
  /\ ~Done(f[i])

\* From index start the cursor finds nothing and stops at index idx.
SelectsNone(f, start, idx) ==
  /\ \A j \in (start + 1)..idx : Done(f[j]) \/ MayRest(f[j])
  /\ start <= idx
  /\ \/ idx = Len(f) /\ idx <= TxWindow + 1
     \/ idx = TxWindow + 1 /\ idx <= Len(f)

\* where the cursor starts: at packetFifoIdx, or at 0 when it is time to return
Starts(f, idx) == IF f = <<>> THEN {idx} ELSE {idx, 0}

\* mutant: an unreliable packet is reported at once, wherever it stands
WriteSmallPacket_AtOnce(out, f, idx, i, log) ==
  /\ ~f[i].isStarted /\ ~f[i].isReliable
  /\ f[i].size_B <= MaxSmall
  /\ out = SmallChunk(f[i], idx = 0)
  /\ txFifo' = SubSeq(f, 1, i - 1) \o SubSeq(f, i + 1, Len(f))
  /\ packetFifoIdx' = idx
  /\ txLog' = Append(log, [id |-> f[i].id, isReliable |-> FALSE, status |-> "s"])

\* mutant: isFront is set for the first two packets of the fifo
WriteSmallPacket_FrontTwo(out, f, idx, i, log) ==
  /\ ~f[i].isStarted
  /\ f[i].size_B <= MaxSmall
  /\ out = SmallChunk(f[i], idx <= 1)
  /\ txFifo' = [f EXCEPT ![i].wasWritten = TRUE, ![i].hasBegun = TRUE]
  /\ packetFifoIdx' = idx
  /\ txLog' = log

WriteSmallPacket(out, f, idx, i, log) ==
  LET p == f[i]
  IN  /\ ~p.isStarted
      /\ p.size_B <= MaxSmall
      /\ out = SmallChunk(p, idx = 0)
      /\ IF p.isReliable
         THEN /\ txFifo' = [f EXCEPT ![i].wasWritten = TRUE, ![i].hasBegun = TRUE]
              /\ packetFifoIdx' = idx
              /\ txLog' = log
         ELSE processTxFifo([f EXCEPT ![i].isAcknowledged = TRUE,
                                      ![i].hasBegun = TRUE], idx, log)

WriteBeginOfPacket(out, f, idx, i, log) ==
  LET p == f[i]
  IN  /\ ~p.isStarted
      /\ p.size_B > Crc_B      \* or SmallPacket is no larger and comes first
      /\ out = BeginChunk(p, idx = 0)
      /\ txFifo' = [f EXCEPT ![i].isStarted = TRUE, ![i].hasBegun = TRUE]
      /\ packetFifoIdx' = idx
      /\ txLog' = log

\* mutant: the offset stays at the end after the last piece
WritePieceOfPacket_NoRewind(out, f, idx, i, log) ==
  /\ f[i].isStarted
  /\ out = PieceChunk(f[i], idx = 0, 1)
  /\ txFifo' = [f EXCEPT ![i].offset_B = @ + 1,
                         ![i].isStarted = f[i].offset_B + 1 < f[i].size_B]
  /\ packetFifoIdx' = idx
  /\ txLog' = log

WritePieceOfPacket(out, f, idx, i, log) ==
  LET p == f[i]
  IN  /\ p.isStarted
      /\ \E n \in 1..MaxPiece :
           LET end == p.offset_B + n
           IN  /\ end <= p.size_B
               /\ out = PieceChunk(p, idx = 0, n)
               /\ \/ /\ ~p.isReliable /\ end >= p.size_B
                     /\ processTxFifo([f EXCEPT ![i].isAcknowledged = TRUE,
                                                ![i].offset_B = end], idx, log)
                  \/ /\ p.isReliable \/ end < p.size_B
                     /\ txFifo' = [f EXCEPT
                          ![i].offset_B = IF end >= p.size_B THEN 0 ELSE end,
                          ![i].isStarted = end < p.size_B,
                          ![i].wasWritten = TRUE]
                     /\ packetFifoIdx' = idx
                     /\ txLog' = log

WriteDataChunk(out) ==
  /\ \E k \in 0..Len(txFifo) :
       LET f   == SubSeq(txFifo, k + 1, Len(txFifo))
           log == txLog \o Deliveries(txFifo, k)
       IN  /\ Pops(txFifo, k)
           /\ \E start \in Starts(f, CursorAfter(packetFifoIdx, k)), i \in 1..Len(f) :
                /\ Selects(f, start, i)
                /\ \/ WriteSmallPacket(out, f, i - 1, i, log)
                   \/ WriteBeginOfPacket(out, f, i - 1, i, log)
                   \/ WritePieceOfPacket(out, f, i - 1, i, log)
  /\ UNCHANGED <<commands, nextPacketId>>

\* writeDataChunk returns 0: nothing to write, or no room for what it selected.
WriteNoData ==
  /\ \E k \in 0..Len(txFifo) :
       LET f == SubSeq(txFifo, k + 1, Len(txFifo))
       IN  /\ Pops(txFifo, k)
           /\ \E start \in Starts(f, CursorAfter(packetFifoIdx, k)), idx \in 0..Len(f) :
                /\ SelectsNone(f, start, idx) \/ Selects(f, start, idx + 1)
                /\ packetFifoIdx' = idx
           /\ txFifo' = f
           /\ txLog' = txLog \o Deliveries(txFifo, k)
  /\ UNCHANGED <<commands, nextPacketId>>

-----------------------------------------------------------------------------
(* readChunk: acks and RepeatInfo.  findPacketIdx is the index of the id.   *)

\* mutant: an ack is taken for all the packets up to its id
ReadAcknowledge_Cumulative(c) ==
  /\ c.type = "Acknowledge"
  /\ processTxFifo([i \in 1..Len(txFifo) |-> [txFifo[i] EXCEPT
                     !.isAcknowledged = @ \/ txFifo[i].id <= c.id]],
                   packetFifoIdx, txLog)
  /\ UNCHANGED <<commands, nextPacketId>>

ReadAcknowledge(c) ==
  /\ c.type = "Acknowledge"
  /\ \/ /\ \A i \in 1..Len(txFifo) : txFifo[i].id # c.id
        /\ UNCHANGED <<txFifo, packetFifoIdx, txLog>>
     \/ \E i \in 1..Len(txFifo) :
          /\ txFifo[i].id = c.id
          /\ processTxFifo([txFifo EXCEPT ![i].isAcknowledged = TRUE],
                           packetFifoIdx, txLog)
  /\ UNCHANGED <<commands, nextPacketId>>

ReadRepeatInfo(c) ==
  /\ c.type = "RepeatInfo"
  /\ \/ /\ \A i \in 1..Len(txFifo) : txFifo[i].id = c.id => ~txFifo[i].isReliable
        /\ UNCHANGED txFifo
     \/ \E i \in 1..Len(txFifo) :
          /\ txFifo[i].id = c.id /\ txFifo[i].isReliable
          /\ txFifo' = [txFifo EXCEPT ![i].offset_B = c.offset,
                                      ![i].isStarted = @ /\ c.offset # 0]
  /\ UNCHANGED <<commands, packetFifoIdx, nextPacketId, txLog>>

\* the clock passes the timeout_us of a packet
TxExpire ==
  /\ \E i \in 1..Len(txFifo) :
       /\ ~txFifo[i].expired
       /\ txFifo' = [txFifo EXCEPT ![i].expired = TRUE]
  /\ UNCHANGED <<commands, packetFifoIdx, nextPacketId, txLog>>

TxInit ==
  /\ commands = <<>>
  /\ txFifo = <<>>
  /\ packetFifoIdx = 0
  /\ nextPacketId = 0
  /\ txLog = <<>>

TxNext ==
  \/ \E size \in TxSizes, isReliable \in Reliabilities : Send(size, isReliable)
  \/ DoCommands
  \/ \E out \in TxOutput : WriteDataChunk(out)
  \/ WriteNoData
  \/ \E c \in TxInput : ReadAcknowledge(c) \/ ReadRepeatInfo(c)
  \/ TxExpire

TxSpec == TxInit /\ [][TxNext]_txVars

\* The thread of process() never stops: every 10 ms it runs doCommands, and at
\* least every g_keepAlivePeriod_us a writePacket that calls writeDataChunk.
\* Time passes.  Nothing is asked of the network or of the application.
TxFairness ==
  /\ WF_txVars(DoCommands)
  /\ WF_txVars(WriteNoData \/ \E out \in TxOutput : WriteDataChunk(out))
  /\ WF_txVars(TxExpire)

TxFairSpec == TxSpec /\ TxFairness

-----------------------------------------------------------------------------
\* The state of TxStream has its types, and packetFifoIdx, which processTxFifo
\* moves from several places, never points past the end of the fifo.
TxTypeOK ==
  /\ commands \in Seq(Command)
  /\ txFifo \in Seq(TxPacket)
  /\ packetFifoIdx \in 0..Len(txFifo)
  /\ nextPacketId \in PacketId
  /\ txLog \in Seq(Delivery)

\* onDelivered is called once for each packet of the stream, in the order of
\* the sends: call number i is about packet i - 1.
TxReportsInOrder == \A i \in 1..Len(txLog) : txLog[i].id = i - 1

\* The fifo continues where the reports end, so findPacketIdx searches
\* consecutive ids and no packet is lost between send and onDelivered.
TxNothingLost ==
  /\ \A i \in 1..Len(txFifo) : txFifo[i].id = Len(txLog) + i - 1
  /\ nextPacketId = Len(txLog) + Len(txFifo)

Accepted == Len(txLog) + Len(txFifo) + Len(commands)

\* Every packet send accepted is reported to onDelivered in the end, even if
\* no chunk and no ack ever gets through.
TxEventuallyReported ==
  \A n \in 1..MaxPackets : Accepted >= n ~> Len(txLog) >= n
=============================================================================
