---------------------------- MODULE StreamProofs ----------------------------
(***************************************************************************)
(* Proofs about a whole stream: sender, network and receiver.  The ids of  *)
(* the stream stay below the wrap; the network loses, repeats and reorders *)
(* what it carries, and any number of chunks is in flight.                 *)
(***************************************************************************)
EXTENDS Stream, TxProofs, RxProofs

StreamNoWrap == NoWrap /\ MaxPackets <= MaxId + 1

-----------------------------------------------------------------------------
(* The inductive invariant of the stream                                   *)

Offsets == UNION {0..(n - 1) : n \in TxSizes}

\* the positions of packets sent so far that lie inside their packet, as far as the
\* sender still has it
Positions ==
  {x \in (0..(nextPacketId - 1)) \X Offsets :
     \A i \in 1..Len(txFifo) : txFifo[i].id = x[1] => x[2] < txFifo[i].size_B}

\* A chunk in flight: it is about a packet that was sent and a position inside it,
\* isFront is true of it, and an ack is of a packet the receiver is through with.
InFlight(c) ==
  /\ c.id \in 0..(nextPacketId - 1)
  /\ \/ /\ IsData(c)
        /\ c \in DataChunk
        /\ c.isFront => c.id <= Len(txLog)
        /\ c.type = "PieceOfPacket" => <<c.id, c.offset>> \in Positions
     \/ /\ c = [type |-> "Acknowledge", id |-> c.id]
        /\ c.id \in SettledIds
     \/ /\ c = [type |-> "RepeatInfo", id |-> c.id, offset |-> c.offset]
        /\ <<c.id, c.offset>> \in Positions

StreamInv ==
  /\ TxInv /\ RxTypeOK /\ RxInv
  /\ \A c \in net : InFlight(c)
  /\ Knows(rxFifo, frontPacketId, nextPacketId, Positions, {})
  /\ SoundHalf(txFifo, txLog, txLog, SettledIds, SizesOf(txFifo))

\* the chunks of a packet of the sender
LEMMA ChunkInPacket ==
  ASSUME NEW p \in TxPacket, p.id \in 0..MaxId, NEW isFront \in BOOLEAN,
         NEW n \in 1..p.size_B, p.offset_B < p.size_B
  PROVE  /\ SmallChunk(p, isFront) \in DataChunk /\ BeginChunk(p, isFront) \in DataChunk
         /\ PieceChunk(p, isFront, n) \in DataChunk
<1>1. /\ p.size_B \in Sizes /\ p.offset_B \in Nat /\ p.isReliable \in BOOLEAN
      /\ p.size_B \in Nat
  <2>1. p.size_B \in TxSizes /\ p.offset_B \in Nat /\ p.isReliable \in BOOLEAN
    BY TxPacketType
  <2>2. TxSizes = Sizes /\ TxSizes \subseteq Nat
    BY NetAssumption, TxAssumption
  <2> QED BY Zenon, <2>1, <2>2
<1>2. SmallChunk(p, isFront) \in DataChunk
  BY <1>1 DEF SmallChunk, DataChunk
<1>3. BeginChunk(p, isFront) \in DataChunk
  BY <1>1 DEF BeginChunk, DataChunk
<1>4. p.offset_B \in UNION {0..(m - 1) : m \in Sizes} /\ n \in UNION {1..m : m \in Sizes}
  <2>1. p.offset_B \in 0..(p.size_B - 1)
    BY <1>1
  <2> QED BY Zenon, <1>1, <2>1
<1>5. PieceChunk(p, isFront, n) \in DataChunk
  BY <1>1, <1>4 DEF PieceChunk, DataChunk
<1> QED BY Zenon, <1>2, <1>3, <1>5

\* what is written may arrive
LEMMA ChunkArrives ==
  ASSUME NEW out, NEW f, NEW log, Carries(out, f, log), out.id \in 0..MaxId
  PROVE  out \in DataChunk
<1>1. PICK p \in TxPacket : p.id = out.id /\ p.offset_B < p.size_B /\ ChunkOf(out, p)
  BY DEF Carries
<1>2. PICK isFront \in BOOLEAN, n \in 1..p.size_B :
        out \in {SmallChunk(p, isFront), BeginChunk(p, isFront), PieceChunk(p, isFront, n)}
  BY Zenon, <1>1 DEF ChunkOf
<1>3. /\ SmallChunk(p, isFront) \in DataChunk /\ BeginChunk(p, isFront) \in DataChunk
      /\ PieceChunk(p, isFront, n) \in DataChunk
  BY <1>1, ChunkInPacket
<1> QED BY Zenon, <1>2, <1>3

\* the bounds of both halves, as numbers
LEMMA Bounds ==
  ASSUME StreamNoWrap, TxInv
  PROVE  /\ NoWrap /\ TxNoWrap /\ MaxId \in Nat
         /\ nextPacketId \in Nat /\ nextPacketId <= MaxId + 1
         /\ 0..(nextPacketId - 1) \subseteq PacketId
<1>1. NoWrap /\ MaxPackets <= MaxId + 1 /\ MaxId \in Nat /\ MaxPackets \in Nat
      /\ MaxId + 1 < UINT32_MAX /\ UINT32_MAX \in Nat
  BY SmallIds, TxAssumption, IdSpaceAssumption DEF StreamNoWrap
<1>2. /\ Len(txLog) \in Nat /\ Len(txFifo) \in Nat /\ Len(commands) \in Nat
      /\ nextPacketId = Len(txLog) + Len(txFifo)
      /\ Len(txLog) + Len(txFifo) + Len(commands) <= MaxPackets
  BY DEF TxInv, Half, Accepted
<1>3. nextPacketId \in Nat /\ nextPacketId <= MaxId + 1
  BY <1>1, <1>2
<1>4. 0..(nextPacketId - 1) \subseteq PacketId
  BY <1>1, <1>3 DEF PacketId
<1> QED BY <1>1, <1>3, <1>4 DEF TxNoWrap

\* the members of SettledIds
Settled(f, front) ==
  0..(front - 1) \cup {f[i].id : i \in {j \in 1..Len(f) : f[j].isReceived}}

\* what it means that the receiver is through with a packet
LEMMA SettledMember ==
  ASSUME NEW f \in Seq(RxPacket), NEW front \in PacketId, NEW id
  PROVE  /\ id \in Settled(f, front) => id \in PacketId /\ (id < front \/ Received(f, id))
         /\ id \in PacketId /\ (id < front \/ Received(f, id)) => id \in Settled(f, front)
<1>1. front \in Nat /\ front <= UINT32_MAX /\ UINT32_MAX \in Nat
  BY IdSpaceAssumption DEF PacketId
<1>2. ASSUME id \in 0..(front - 1) PROVE id \in PacketId /\ id < front
  BY <1>1, <1>2 DEF PacketId
<1>3. ASSUME NEW i \in 1..Len(f), f[i].isReceived, id = f[i].id
      PROVE  id \in PacketId /\ Received(f, id)
  BY Zenon, <1>3, PacketType DEF Received
<1>4. ASSUME id \in PacketId, id < front PROVE id \in 0..(front - 1)
  BY <1>1, <1>4 DEF PacketId
<1>5. ASSUME Received(f, id) PROVE \E i \in {j \in 1..Len(f) : f[j].isReceived} : id = f[i].id
  BY Zenon, <1>5 DEF Received
<1>6. ASSUME id \in Settled(f, front) PROVE id \in PacketId /\ (id < front \/ Received(f, id))
  BY Zenon, <1>2, <1>3, <1>6 DEF Settled
<1>7. ASSUME id \in PacketId, id < front \/ Received(f, id) PROVE id \in Settled(f, front)
  BY Zenon, <1>4, <1>5, <1>7 DEF Settled
<1> QED BY Zenon, <1>6, <1>7

\* the receiver goes back on nothing
LEMMA SettledGrows ==
  ASSUME NEW f \in Seq(RxPacket), NEW front \in PacketId, NEW bound \in Nat, NEW asked,
         NEW settled \in SUBSET PacketId, Knows(f, front, bound, asked, settled)
  PROVE  settled \subseteq Settled(f, front) /\ Settled(f, front) \subseteq 0..(bound - 1)
<1>1. ASSUME NEW id \in settled PROVE id \in Settled(f, front)
  BY Zenon, <1>1, SettledMember DEF Knows
<1>2. ASSUME NEW id \in Settled(f, front) PROVE id \in 0..(bound - 1)
  <2>1. id \in PacketId /\ (id < front \/ Received(f, id))
    BY Zenon, <1>2, SettledMember
  <2>2. id \in Nat /\ front \in Nat /\ front <= bound
    BY <2>1, IdSpaceAssumption DEF PacketId, Knows
  <2>3. CASE Received(f, id)
    <3>1. id < bound
      BY Zenon, <2>3 DEF Received, Knows
    <3> QED BY <2>2, <3>1
  <2> QED BY <2>1, <2>2, <2>3
<1> QED BY Zenon, <1>1, <1>2

\* positions in packets stay where they are
LEMMA PositionsGrow ==
  ASSUME nextPacketId \in Nat, nextPacketId' \in Nat, nextPacketId <= nextPacketId',
         \A i \in 1..Len(txFifo') :
           txFifo'[i].id >= nextPacketId
             \/ <<txFifo'[i].id, txFifo'[i].size_B>> \in SizesOf(txFifo)
  PROVE  Positions \subseteq Positions'
<1> SUFFICES ASSUME NEW x \in Positions PROVE x \in Positions'
  OBVIOUS
<1>1. /\ x \in (0..(nextPacketId - 1)) \X Offsets
      /\ \A i \in 1..Len(txFifo) : txFifo[i].id = x[1] => x[2] < txFifo[i].size_B
  BY DEF Positions
<1>2. x[1] \in 0..(nextPacketId - 1) /\ x[2] \in Offsets /\ x = <<x[1], x[2]>>
  BY <1>1
<1>3. x \in (0..(nextPacketId' - 1)) \X Offsets /\ x[1] < nextPacketId /\ x[1] \in Nat
  BY <1>2
<1>4. ASSUME NEW i \in 1..Len(txFifo'), txFifo'[i].id = x[1] PROVE x[2] < txFifo'[i].size_B
  <2>1. <<txFifo'[i].id, txFifo'[i].size_B>> \in SizesOf(txFifo)
    BY <1>3, <1>4
  <2>2. PICK j \in 1..Len(txFifo) :
          <<txFifo'[i].id, txFifo'[i].size_B>> = <<txFifo[j].id, txFifo[j].size_B>>
    BY Zenon, <2>1 DEF SizesOf
  <2>3. txFifo'[i].id = txFifo[j].id /\ txFifo'[i].size_B = txFifo[j].size_B
    BY <2>2
  <2> QED BY Zenon, <1>1, <1>4, <2>3
<1>5. Offsets' = Offsets
  BY DEF Offsets
<1> QED BY Zenon, <1>3, <1>4, <1>5 DEF Positions

\* what is in flight stays true
LEMMA InFlightKept ==
  ASSUME nextPacketId \in Nat, nextPacketId' \in Nat, nextPacketId <= nextPacketId',
         Positions \subseteq Positions', SettledIds \subseteq SettledIds',
         Len(txLog) \in Nat, Len(txLog') \in Nat, Len(txLog) <= Len(txLog'),
         NEW c, InFlight(c)
  PROVE  InFlight(c)'
<1>1. c.id \in 0..(nextPacketId' - 1) /\ c.id \in Nat
  BY DEF InFlight
<1>2. c.id <= Len(txLog) => c.id <= Len(txLog')
  BY <1>1
<1> QED BY Zenon, <1>1, <1>2 DEF InFlight, IsData

-----------------------------------------------------------------------------
(* The steps of the sender                                                 *)

\* what a step of the sender leaves
SenderKeeps ==
  /\ TxInv' /\ UNCHANGED rxVars
  /\ nextPacketId <= nextPacketId' /\ Positions \subseteq Positions'
  /\ SoundHalf(txFifo', txLog', txLog', SettledIds, SizesOf(txFifo'))
  /\ ReportsKept(txLog, txLog')

\* the sender's steps keep what it holds to what the receiver settled
LEMMA SoundNextKeeps ==
  ASSUME StreamNoWrap, TxInv, TxInv', UNCHANGED rxVars, nextPacketId' = nextPacketId,
         SoundNext(SettledIds)
  PROVE  SenderKeeps
<1>1. nextPacketId \in Nat /\ nextPacketId' \in Nat /\ nextPacketId <= nextPacketId'
  BY Bounds
<1>2. \A i \in 1..Len(txFifo') : <<txFifo'[i].id, txFifo'[i].size_B>> \in SizesOf(txFifo)
  BY Zenon DEF SoundNext, SoundHalf, Sound
<1>3. Positions \subseteq Positions'
  BY Zenon, <1>1, <1>2, PositionsGrow
<1>4. \A i \in 1..Len(txFifo') : Sound(txFifo'[i], SettledIds, SizesOf(txFifo'))
  BY Zenon DEF SoundNext, SoundHalf, Sound, SizesOf
<1>5. txLog' \in Seq(Delivery)
  BY DEF TxInv, Half
<1>6. ReportsKept(txLog', txLog')
  BY Zenon, <1>5, ReportsSame
<1>7. SoundHalf(txFifo', txLog', txLog', SettledIds, SizesOf(txFifo'))
  BY Zenon, <1>4, <1>6 DEF SoundNext, SoundHalf
<1> QED BY Zenon, <1>1, <1>3, <1>7 DEF SenderKeeps, SoundNext, SoundHalf

\* doCommands: a new packet is not acknowledged and nothing of it was sent
LEMMA SoundDoCommands ==
  ASSUME StreamNoWrap, TxInv, TxInv', UNCHANGED rxVars, DoCommands,
         SoundHalf(txFifo, txLog, txLog, SettledIds, SizesOf(txFifo))
  PROVE  SenderKeeps /\ nextPacketId < nextPacketId' /\ txLog' = txLog
<1> DEFINE new == [i \in 1..Len(commands) |-> NewTxPacket(IdAfter(i - 1), commands[i])]
<1>1. /\ txFifo \in Seq(TxPacket) /\ txFifo' \in Seq(TxPacket) /\ commands \in Seq(Command)
      /\ commands' \in Seq(Command) /\ Len(txFifo) \in Nat /\ Len(txFifo') \in Nat
      /\ Len(txLog) \in Nat /\ txLog \in Seq(Delivery)
      /\ nextPacketId = Len(txLog) + Len(txFifo) /\ nextPacketId' = Len(txLog') + Len(txFifo')
      /\ \A i \in 1..Len(txFifo') : txFifo'[i].id = Len(txLog') + i - 1
  BY DEF TxInv, Half, Numbered
<1>2. commands # <<>> /\ txFifo' = txFifo \o new /\ txLog' = txLog
  BY Zenon DEF DoCommands
<1>3. new \in Seq(TxPacket) /\ Len(new) = Len(commands)
  <2>1. \A i \in 1..Len(commands) : NewTxPacket(IdAfter(i - 1), commands[i]) \in TxPacket
    <3> SUFFICES ASSUME NEW i \in 1..Len(commands)
                 PROVE  NewTxPacket(IdAfter(i - 1), commands[i]) \in TxPacket
      OBVIOUS
    <3>0. commands[i] \in Command
      BY <1>1
    <3>1. commands[i].size \in TxSizes /\ commands[i].isReliable \in BOOLEAN
      BY <3>0, TxAssumption DEF Command
    <3>2. IdAfter(i - 1) \in PacketId
      <4>1. nextPacketId + (i - 1) \in Nat /\ UINT32_MAX \in Nat
        BY <1>1, IdSpaceAssumption
      <4> QED BY <4>1 DEF IdAfter, PacketId
    <3> QED BY <3>1, <3>2 DEF NewTxPacket, TxPacket
  <2> QED BY <1>1, <2>1
<1>4. \A i \in 1..Len(new) :
        new[i].isAcknowledged = FALSE /\ new[i].offset_B = 0 /\ new[i].size_B \in TxSizes
  <2> SUFFICES ASSUME NEW i \in 1..Len(commands)
               PROVE  /\ new[i].isAcknowledged = FALSE /\ new[i].offset_B = 0
                      /\ new[i].size_B \in TxSizes
    BY Zenon, <1>3
  <2>1. new[i] = NewTxPacket(IdAfter(i - 1), commands[i])
    OBVIOUS
  <2>2. commands[i] \in Command
    BY <1>1
  <2>3. commands[i].size \in TxSizes
    BY <2>2 DEF Command
  <2> HIDE DEF new
  <2> QED BY <2>1, <2>3 DEF NewTxPacket
<1>5. Len(new) > 0
  BY <1>1, <1>2, <1>3
<1> HIDE DEF new
<1>6. /\ Len(txFifo') = Len(txFifo) + Len(new)
      /\ \A i \in 1..Len(txFifo) : txFifo'[i] = txFifo[i]
      /\ \A i \in (Len(txFifo) + 1)..Len(txFifo') :
           i - Len(txFifo) \in 1..Len(new) /\ txFifo'[i] = new[i - Len(txFifo)]
  BY <1>1, <1>2, <1>3
<1>7. nextPacketId \in Nat /\ nextPacketId' \in Nat /\ nextPacketId < nextPacketId'
  BY <1>1, <1>2, <1>3, <1>5, <1>6
<1>8. ASSUME NEW i \in 1..Len(txFifo')
      PROVE  /\ \/ txFifo'[i].id >= nextPacketId
                \/ <<txFifo'[i].id, txFifo'[i].size_B>> \in SizesOf(txFifo)
             /\ Sound(txFifo'[i], SettledIds, SizesOf(txFifo'))
  <2>1. CASE i \in 1..Len(txFifo)
    <3>1. Sound(txFifo[i], SettledIds, SizesOf(txFifo)) /\ txFifo'[i] = txFifo[i]
      BY Zenon, <1>6, <2>1 DEF SoundHalf
    <3> QED BY Zenon, <3>1 DEF Sound, SizesOf
  <2>2. CASE i \in (Len(txFifo) + 1)..Len(txFifo')
    <3>1. txFifo'[i].id >= nextPacketId
      BY SMTT(30), <1>1, <1>2, <2>2
    <3>2. i - Len(txFifo) \in 1..Len(new) /\ txFifo'[i] = new[i - Len(txFifo)]
      BY Zenon, <1>6, <2>2
    <3>3. /\ txFifo'[i].isAcknowledged = FALSE /\ txFifo'[i].offset_B = 0
          /\ txFifo'[i].size_B \in TxSizes
      BY Zenon, <1>4, <3>2
    <3>4. txFifo'[i].size_B \in Nat \ {0}
      BY Zenon, <3>3, TxAssumption
    <3>5. txFifo'[i].offset_B < txFifo'[i].size_B
      BY <3>3, <3>4
    <3> QED BY Zenon, <3>1, <3>3, <3>5 DEF Sound, SizesOf
  <2> QED BY <1>1, <2>1, <2>2
<1>9. Positions \subseteq Positions'
  <2>1. nextPacketId <= nextPacketId'
    BY <1>7
  <2> QED BY Zenon, <1>7, <1>8, <2>1, PositionsGrow
<1>10. ReportsKept(txLog, txLog)
  BY <1>1, ReportsSame
<1>11. SoundHalf(txFifo', txLog', txLog', SettledIds, SizesOf(txFifo'))
  BY Zenon, <1>2, <1>8, <1>10 DEF SoundHalf
<1>12. nextPacketId <= nextPacketId'
  BY <1>7
<1> QED BY Zenon, <1>2, <1>7, <1>9, <1>10, <1>11, <1>12 DEF SenderKeeps

\* chunks in flight are inputs of the half they are for
LEMMA InFlightType ==
  ASSUME StreamNoWrap, TxInv, NEW c, InFlight(c)
  PROVE  /\ IsData(c) => c \in DataChunk
         /\ ~IsData(c) => c \in TxInput
<1>1. c.id \in PacketId
  BY Zenon, Bounds DEF InFlight
<1>2. CASE c = [type |-> "Acknowledge", id |-> c.id]
  <2>1. c \in TxInput
    BY <1>1, <1>2 DEF TxInput
  <2>2. ~IsData(c)
    BY <1>2 DEF IsData
  <2> QED BY <2>1, <2>2
<1>3. CASE /\ c = [type |-> "RepeatInfo", id |-> c.id, offset |-> c.offset]
           /\ <<c.id, c.offset>> \in Positions
  <2>1. c.type = "RepeatInfo" /\ ~IsData(c)
    BY <1>3 DEF IsData
  <2>2. /\ c.offset \in Offsets
        /\ \A i \in 1..Len(txFifo) : txFifo[i].id = c.id => c.offset < txFifo[i].size_B
    BY <1>3 DEF Positions
  <2>3. c \in [type : {"RepeatInfo"}, id : PacketId, offset : Offsets]
    BY <1>1, <1>3, <2>2
  <2>4. c \in TxInput
    BY Zenon, <2>2, <2>3 DEF TxInput, Offsets
  <2> QED BY <2>1, <2>4
<1> QED BY Zenon, <1>2, <1>3 DEF InFlight

\* a step of the sender is one of TxStream, and takes a packet or reports some, not both
LEMMA SenderStep ==
  ASSUME StreamNoWrap, StreamInv, SenderSends \/ SenderWrites \/ SenderReads
  PROVE  /\ SenderKeeps /\ [TxNext]_txVars
         /\ nextPacketId' = nextPacketId \/ (nextPacketId < nextPacketId' /\ txLog' = txLog)
         /\ \A c \in net' : c \in net \/ InFlight(c)'
<1>0. /\ TxInv /\ SoundHalf(txFifo, txLog, txLog, SettledIds, SizesOf(txFifo))
      /\ TxNoWrap /\ nextPacketId \in Nat /\ nextPacketId <= MaxId + 1
  BY Bounds DEF StreamInv
<1>1. ASSUME [TxNext]_txVars PROVE TxInv'
  BY <1>0, <1>1, TxStep
<1>2. CASE SenderSends
  <2>1. UNCHANGED rxVars /\ net' = net /\ TxNext
    BY Zenon, <1>2 DEF SenderSends, TxNext
  <2>2. TxInv'
    BY <1>1, <2>1
  <2>3. ASSUME NEW size \in TxSizes, NEW isReliable \in Reliabilities, Send(size, isReliable)
        PROVE  SenderKeeps /\ nextPacketId' = nextPacketId
    <3>1. UNCHANGED <<txFifo, txLog, nextPacketId>>
      BY Zenon, <2>3 DEF Send
    <3>2. SoundNext(SettledIds)
      BY Zenon, <1>0, <3>1 DEF SoundNext
    <3> QED BY <1>0, <2>1, <2>2, <3>1, <3>2, SoundNextKeeps
  <2>4. CASE WriteNoData \/ TxExpire
    <3>1. nextPacketId' = nextPacketId
      BY Zenon, <2>4 DEF WriteNoData, TxExpire
    <3>2. SoundNext(SettledIds)
      BY <1>0, <2>4, SoundOther
    <3> QED BY <1>0, <2>1, <2>2, <3>1, <3>2, SoundNextKeeps
  <2>5. CASE DoCommands
    BY <1>0, <2>1, <2>2, <2>5, SoundDoCommands
  <2> QED BY Zenon, <1>2, <2>1, <2>3, <2>4, <2>5 DEF SenderSends
<1>3. CASE SenderWrites
  <2>1. PICK out \in TxOutput : WriteDataChunk(out) /\ Transmit(out) /\ UNCHANGED rxVars
    BY Zenon, <1>3 DEF SenderWrites
  <2>2. TxNext
    BY Zenon, <2>1 DEF TxNext
  <2>3. TxInv' /\ nextPacketId' = nextPacketId
    BY Zenon, <1>1, <2>1, <2>2 DEF WriteDataChunk
  <2>4. /\ SoundNext(SettledIds) /\ Carries(out, txFifo', txLog')
        /\ out.id \in PacketId /\ out.id < nextPacketId
    BY <1>0, <2>1, SoundWrite
  <2>5. SenderKeeps
    BY <1>0, <2>1, <2>3, <2>4, SoundNextKeeps
  <2>6. InFlight(out)'
    <3>1. out.id \in 0..(nextPacketId' - 1)
      BY <1>0, <2>3, <2>4, IdSpaceAssumption DEF PacketId
    <3>2. out \in DataChunk /\ IsData(out) /\ (out.isFront => out.id <= Len(txLog'))
      <4>1. out.id \in 0..MaxId
        BY <1>0, <2>3, <3>1, SmallIds DEF StreamNoWrap
      <4>2. out \in DataChunk
        BY Zenon, <2>4, <4>1, ChunkArrives
      <4>3. IsData(out)
        BY <4>2 DEF DataChunk, IsData
      <4> QED BY Zenon, <2>4, <4>2, <4>3 DEF Carries
    <3>3. ASSUME out.type = "PieceOfPacket" PROVE <<out.id, out.offset>> \in Positions'
      <4>1. out.offset \in UNION {0..(n - 1) : n \in Sizes}
        BY <3>2, <3>3 DEF DataChunk
      <4>2. out.offset \in Offsets
        BY Zenon, <4>1, NetAssumption DEF Offsets
      <4>3. \A i \in 1..Len(txFifo') : txFifo'[i].id = out.id => out.offset < txFifo'[i].size_B
        BY Zenon, <2>4, <3>3 DEF Carries
      <4>4. Offsets' = Offsets
        BY DEF Offsets
      <4> QED BY <3>1, <4>2, <4>3, <4>4 DEF Positions
    <3> QED BY Zenon, <3>1, <3>2, <3>3 DEF InFlight, IsData
  <2>7. net' \subseteq net \cup {out}
    BY <2>1 DEF Transmit
  <2> QED BY Zenon, <2>2, <2>3, <2>5, <2>6, <2>7
<1>4. CASE SenderReads
  <2>1. PICK c \in net : /\ ReadAcknowledge(c) \/ ReadRepeatInfo(c)
                         /\ Arrive(c) /\ UNCHANGED rxVars
    BY Zenon, <1>4 DEF SenderReads
  <2>2. InFlight(c)
    BY <2>1 DEF StreamInv
  <2>3. ~IsData(c)
    BY <2>1 DEF IsData, ReadAcknowledge, ReadRepeatInfo
  <2>4. c \in TxInput
    BY <1>0, <2>2, <2>3, InFlightType
  <2>5. TxNext /\ nextPacketId' = nextPacketId
    BY Zenon, <2>1, <2>4 DEF TxNext, ReadAcknowledge, ReadRepeatInfo
  <2>6. TxInv'
    BY <1>1, <2>5
  <2>7. c.type = "Acknowledge" => c.id \in SettledIds
    <3>1. c = [type |-> "RepeatInfo", id |-> c.id, offset |-> c.offset] => c.type # "Acknowledge"
      OBVIOUS
    <3> QED BY Zenon, <2>2, <2>3, <3>1 DEF InFlight
  <2>8. SoundNext(SettledIds)
    BY <1>0, <2>1, <2>4, <2>7, SoundRead
  <2>9. SenderKeeps
    BY <1>0, <2>1, <2>5, <2>6, <2>8, SoundNextKeeps
  <2>10. net' \subseteq net
    BY <2>1 DEF Arrive
  <2> QED BY Zenon, <2>5, <2>9, <2>10
<1> QED BY <1>2, <1>3, <1>4

-----------------------------------------------------------------------------
(* The steps of the receiver                                               *)

\* what a step of the receiver leaves
ReceiverKeeps ==
  /\ RxTypeOK' /\ RxInv' /\ UNCHANGED txVars
  /\ KnowsNext(nextPacketId, Positions, SettledIds)
  /\ SettledIds \subseteq SettledIds' /\ SettledIds' \subseteq 0..(nextPacketId - 1)

\* what the invariant says of the receiver, in terms of the packets it is through with
LEMMA ReceiverKnows ==
  ASSUME StreamNoWrap, StreamInv
  PROVE  /\ SettledIds \in SUBSET PacketId /\ SettledIds \subseteq 0..(nextPacketId - 1)
         /\ Knows(rxFifo, frontPacketId, nextPacketId, Positions, SettledIds)
         /\ NoWrap /\ RxTypeOK /\ RxInv /\ nextPacketId \in Nat
<1>0. /\ rxFifo \in Seq(RxPacket) /\ frontPacketId \in PacketId /\ nextPacketId \in Nat
      /\ SettledIds = Settled(rxFifo, frontPacketId)
      /\ Knows(rxFifo, frontPacketId, nextPacketId, Positions, {})
      /\ NoWrap /\ RxTypeOK /\ RxInv
  BY Bounds DEF StreamInv, RxTypeOK, SettledIds, Settled
<1>1. {} \in SUBSET PacketId
  OBVIOUS
<1>2. SettledIds \subseteq 0..(nextPacketId - 1)
  BY Zenon, <1>0, <1>1, SettledGrows
<1>3. SettledIds \in SUBSET PacketId
  BY Zenon, <1>0, SettledMember
<1>4. \A id \in SettledIds : id < frontPacketId \/ Received(rxFifo, id)
  BY Zenon, <1>0, SettledMember
<1>5. Knows(rxFifo, frontPacketId, nextPacketId, Positions, SettledIds)
  BY Zenon, <1>0, <1>4 DEF Knows
<1> QED BY Zenon, <1>0, <1>2, <1>3, <1>5

\* the receiver never goes back on a packet
LEMMA KnowsNextKeeps ==
  ASSUME StreamNoWrap, StreamInv, [RxNext]_rxVars, UNCHANGED txVars,
         KnowsNext(nextPacketId, Positions, SettledIds)
  PROVE  ReceiverKeeps
<1>0. /\ SettledIds \in SUBSET PacketId /\ nextPacketId \in Nat
      /\ NoWrap /\ RxTypeOK /\ RxInv
  BY ReceiverKnows
<1>1. RxTypeOK' /\ RxInv'
  BY <1>0, RxTypeStep, Step
<1>2. rxFifo' \in Seq(RxPacket) /\ frontPacketId' \in PacketId
  BY <1>1 DEF RxTypeOK
<1>3. SettledIds' = Settled(rxFifo', frontPacketId')
  BY DEF SettledIds, Settled
<1>4. SettledIds \subseteq SettledIds' /\ SettledIds' \subseteq 0..(nextPacketId - 1)
  BY Zenon, <1>0, <1>2, <1>3, SettledGrows DEF KnowsNext
<1> QED BY Zenon, <1>1, <1>4 DEF ReceiverKeeps

\* a step of the receiver is one of RxStream and a Deliver of the promise
LEMMA ReceiverStep ==
  ASSUME StreamNoWrap, StreamInv, ReceiverReads \/ ReceiverWrites \/ ReceiverWaits
  PROVE  /\ ReceiverKeeps /\ [RxNext]_rxVars
         /\ \A c \in net' : c \in net \/ InFlight(c)'
<1>0. /\ SettledIds \in SUBSET PacketId /\ SettledIds \subseteq 0..(nextPacketId - 1)
      /\ Knows(rxFifo, frontPacketId, nextPacketId, Positions, SettledIds)
      /\ NoWrap /\ RxTypeOK /\ RxInv /\ nextPacketId \in Nat /\ TxInv
  BY ReceiverKnows DEF StreamInv
<1>1. CASE ReceiverReads
  <2>1. PICK c \in net : IsData(c) /\ ReadChunk(c) /\ Arrive(c) /\ UNCHANGED txVars
    BY Zenon, <1>1 DEF ReceiverReads
  <2>2. InFlight(c)
    BY <2>1 DEF StreamInv
  <2>3. c \in DataChunk
    BY <1>0, <2>1, <2>2, InFlightType
  <2>4. RxNext
    BY Zenon, <2>1, <2>3 DEF RxNext
  <2>5. c.id < nextPacketId /\ c.id \in Nat
    BY <1>0, <2>2 DEF InFlight
  <2>6. ASSUME c.type = "PieceOfPacket"
        PROVE  <<c.id, 0>> \in Positions /\ <<c.id, c.offset>> \in Positions
    <3>1. c.type # "Acknowledge" /\ c.type # "RepeatInfo"
      BY <2>6
    <3>2. /\ c # [type |-> "Acknowledge", id |-> c.id]
          /\ c # [type |-> "RepeatInfo", id |-> c.id, offset |-> c.offset]
      BY <3>1
    <3>3. <<c.id, c.offset>> \in Positions
      BY Zenon, <2>2, <2>6, <3>2 DEF InFlight
    <3>4. c.id \in 0..(nextPacketId - 1) /\ c.offset \in Offsets
      BY <3>3 DEF Positions
    <3>5. 0 \in Offsets
      <4>1. PICK n \in TxSizes : c.offset \in 0..(n - 1)
        BY Zenon, <3>4 DEF Offsets
      <4>2. n \in Nat \ {0}
        BY Zenon, <4>1, TxAssumption
      <4>3. 0 \in 0..(n - 1)
        BY <4>2
      <4> QED BY Zenon, <4>1, <4>3 DEF Offsets
    <3>6. \A i \in 1..Len(txFifo) : 0 < txFifo[i].size_B
      <4> SUFFICES ASSUME NEW i \in 1..Len(txFifo) PROVE 0 < txFifo[i].size_B
        OBVIOUS
      <4>1. txFifo[i] \in TxPacket
        BY <1>0 DEF TxInv, Half
      <4>2. txFifo[i].size_B \in Nat \ {0}
        BY Zenon, <4>1, TxPacketType, TxAssumption
      <4> QED BY <4>2
    <3>7. <<c.id, 0>> \in Positions
      BY <3>4, <3>5, <3>6 DEF Positions
    <3> QED BY <3>3, <3>7
  <2>7. KnowsNext(nextPacketId, Positions, SettledIds)
    BY <1>0, <2>1, <2>3, <2>5, <2>6, KnowsChunk
  <2>8. ReceiverKeeps
    BY <2>1, <2>4, <2>7, KnowsNextKeeps
  <2>9. net' \subseteq net
    BY <2>1 DEF Arrive
  <2> QED BY Zenon, <2>4, <2>8, <2>9
<1>2. CASE ReceiverWrites
  <2>1. PICK out \in RxOutput : /\ WriteAcknowledge(out) \/ WriteRepeatInfo(out)
                                /\ Transmit(out) /\ UNCHANGED txVars
    BY Zenon, <1>2 DEF ReceiverWrites
  <2>2. RxNext
    BY Zenon, <2>1 DEF RxNext
  <2>3. net' \subseteq net \cup {out}
    BY <2>1 DEF Transmit
  <2>4. Positions' = Positions /\ nextPacketId' = nextPacketId
    BY <2>1 DEF txVars, Positions, Offsets
  <2>5. CASE WriteAcknowledge(out)
    <3>1. rxAcks \in Seq(PacketId) /\ rxAcks # <<>> /\ out = AckChunk(Head(rxAcks))
      BY <1>0, <2>5 DEF WriteAcknowledge, RxTypeOK
    <3>2. 1 \in 1..Len(rxAcks) /\ Head(rxAcks) = rxAcks[1] /\ rxAcks[1] \in PacketId
      BY <3>1
    <3>3. rxAcks[1] < frontPacketId \/ Received(rxFifo, rxAcks[1])
      BY Zenon, <1>0, <3>2 DEF RxInv, Acks
    <3>4. rxAcks[1] \in SettledIds
      <4>1. rxFifo \in Seq(RxPacket) /\ frontPacketId \in PacketId
        BY <1>0 DEF RxTypeOK
      <4>2. rxAcks[1] \in Settled(rxFifo, frontPacketId)
        BY Zenon, <3>2, <3>3, <4>1, SettledMember
      <4> QED BY Zenon, <4>2 DEF SettledIds, Settled
    <3>5. KnowsNext(nextPacketId, Positions, SettledIds)
      BY Zenon, <1>0, <2>1, <2>5, KnowsOther
    <3>6. ReceiverKeeps
      BY <2>1, <2>2, <3>5, KnowsNextKeeps
    <3>7. out = [type |-> "Acknowledge", id |-> out.id] /\ out.id = rxAcks[1]
      BY <3>1, <3>2 DEF AckChunk
    <3>8. InFlight(out)'
      BY Zenon, <1>0, <2>4, <3>4, <3>6, <3>7 DEF InFlight, ReceiverKeeps
    <3> QED BY Zenon, <2>2, <2>3, <3>6, <3>8
  <2>6. CASE WriteRepeatInfo(out)
    <3>1. /\ KnowsNext(nextPacketId, Positions, SettledIds)
          /\ out = [type |-> "RepeatInfo", id |-> out.id, offset |-> out.offset]
          /\ <<out.id, out.offset>> \in Positions
      BY <1>0, <2>6, KnowsRepeatInfo
    <3>2. ReceiverKeeps
      BY <2>1, <2>2, <3>1, KnowsNextKeeps
    <3>3. out.id \in 0..(nextPacketId - 1)
      BY <3>1 DEF Positions
    <3>4. InFlight(out)'
      BY Zenon, <2>4, <3>1, <3>3 DEF InFlight
    <3> QED BY Zenon, <2>2, <2>3, <3>2, <3>4
  <2> QED BY <2>1, <2>5, <2>6
<1>3. CASE ReceiverWaits
  <2>1. WriteNoMeta \/ RxTimeout
    BY <1>3 DEF ReceiverWaits
  <2>2. UNCHANGED txVars /\ net' = net
    BY <1>3 DEF ReceiverWaits
  <2>3. RxNext
    BY Zenon, <2>1 DEF RxNext
  <2>4. KnowsNext(nextPacketId, Positions, SettledIds)
    BY Zenon, <1>0, <2>1, KnowsOther
  <2>5. ReceiverKeeps
    BY <2>2, <2>3, <2>4, KnowsNextKeeps
  <2> QED BY Zenon, <2>2, <2>3, <2>5
<1> QED BY <1>1, <1>2, <1>3

-----------------------------------------------------------------------------
(* The invariant, and what each step is to OrderedDelivery                 *)

\* a step of the sender sends, reports or is hidden
LEMMA SenderPromise ==
  ASSUME StreamNoWrap, StreamInv, SenderKeeps,
         nextPacketId' = nextPacketId \/ (nextPacketId < nextPacketId' /\ txLog' = txLog)
  PROVE  [Promise!Next]_(Promise!vars)
<1>0. /\ nextPacketId \in Nat /\ txLog \in Seq(Delivery) /\ txLog' \in Seq(Delivery)
      /\ TxInv' /\ ReportsKept(txLog, txLog')
      /\ SoundHalf(txFifo', txLog', txLog', SettledIds, SizesOf(txFifo'))
  BY Bounds DEF StreamInv, TxInv, Half, SenderKeeps
<1>1. SettledIds' = SettledIds /\ rxLog' = rxLog
  BY DEF SenderKeeps, rxVars, SettledIds
<1>2. CASE nextPacketId < nextPacketId' /\ txLog' = txLog
  <2>1. nextPacketId' \in Nat /\ nextPacketId' > nextPacketId
    <3>1. nextPacketId' = Len(txLog') + Len(txFifo') /\ txFifo' \in Seq(TxPacket)
      BY <1>0 DEF TxInv, Half
    <3> QED BY <1>0, <1>2, <3>1
  <2> QED BY Zenon, <1>1, <1>2, <2>1 DEF Promise!Next, Promise!Send
<1>3. CASE nextPacketId' = nextPacketId /\ Len(txLog) = Len(txLog')
  <2>1. txLog' = txLog
    BY <1>0, <1>3 DEF CallsKept, ReportsKept, Promise!IsPrefixOf
  <2> QED BY Zenon, <1>1, <1>3, <2>1 DEF Promise!vars
<1>4. CASE nextPacketId' = nextPacketId /\ Len(txLog) # Len(txLog')
  <2>1. Len(txLog) < Len(txLog') /\ Len(txLog') \in Nat /\ Len(txLog) \in Nat
    BY <1>0, <1>4 DEF CallsKept, ReportsKept, Promise!IsPrefixOf
  <2>2. Len(txLog') <= nextPacketId
    BY <1>0, <1>4, <2>1 DEF TxInv, Half
  <2>3. ASSUME NEW n \in (Len(txLog) + 1)..Len(txLog')
        PROVE  /\ txLog'[n].id = n - 1
               /\ txLog'[n].status = "s" /\ txLog'[n].isReliable => n - 1 \in SettledIds
    <3>1. n \in 1..Len(txLog')
      BY <2>1
    <3>2. txLog'[n].id = n - 1
      BY <1>0, <3>1 DEF TxInv, Half, Numbered
    <3>3. SoundReport(txLog'[n], SettledIds)
      BY Zenon, <1>0, <3>1 DEF SoundHalf
    <3> QED BY Zenon, <3>2, <3>3 DEF SoundReport
  <2> QED BY Zenon, <1>0, <1>1, <1>4, <2>1, <2>2, <2>3 DEF Promise!Next, Promise!Report,
                  Promise!IsPrefixOf, ReportsKept
<1> QED BY <1>2, <1>3, <1>4

\* a step of the receiver is a Deliver
LEMMA ReceiverPromise ==
  ASSUME StreamNoWrap, StreamInv, ReceiverKeeps
  PROVE  Promise!Deliver
<1>0. /\ Fifo(rxFifo', frontPacketId') /\ Log(rxLog', Base(rxFifo', frontPacketId'))
      /\ rxFifo' \in Seq(RxPacket) /\ frontPacketId' \in PacketId /\ rxLog' \in Seq(Call)
      /\ rxLog \in Seq(Call)
      /\ CallsKept(rxLog, rxLog')
  BY DEF ReceiverKeeps, RxInv, RxTypeOK, KnowsNext, StreamInv
<1>1. nextPacketId' = nextPacketId /\ txLog' = txLog
  BY DEF ReceiverKeeps, txVars
<1>2. SettledIds' = Settled(rxFifo', frontPacketId')
  BY DEF SettledIds, Settled
<1>3. ASSUME NEW j \in 1..Len(rxLog'), IsFinal(rxLog'[j])
      PROVE  rxLog'[j].id \in SettledIds'
  <2>1. rxLog'[j] \in Call
    BY <1>0
  <2>2. rxLog'[j].id \in PacketId
    BY <2>1 DEF Call
  <2>3. rxLog'[j].id < Base(rxFifo', frontPacketId')
    BY Zenon, <1>0, <1>3 DEF Log
  <2>4. Base(rxFifo', frontPacketId') \in PacketId /\ Base(rxFifo', frontPacketId') <= frontPacketId'
    <3>1. CASE rxFifo' = <<>>
      BY <1>0, <3>1, IdSpaceAssumption DEF Base, PacketId
    <3>2. CASE rxFifo' # <<>>
      <4>1. 1 \in 1..Len(rxFifo')
        BY <1>0, <3>2
      <4>2. rxFifo'[1].id \in PacketId /\ rxFifo'[1].id <= frontPacketId'
        BY Zenon, <1>0, <3>2, <4>1, PacketType DEF Fifo
      <4> QED BY Zenon, <3>2, <4>2 DEF Base
    <3> QED BY <3>1, <3>2
  <2>5. rxLog'[j].id < frontPacketId'
    <3>1. PacketId \subseteq Nat
      BY IdSpaceAssumption DEF PacketId
    <3>2. rxLog'[j].id \in Nat /\ Base(rxFifo', frontPacketId') \in Nat /\ frontPacketId' \in Nat
      BY Zenon, <1>0, <2>2, <2>4, <3>1
    <3> QED BY <2>3, <2>4, <3>2
  <2> QED BY Zenon, <1>0, <1>2, <2>2, <2>5, SettledMember
<1>4. ASSUME NEW j \in (Len(rxLog) + 1)..Len(rxLog'), Promise!IsEnd(rxLog'[j])
      PROVE  /\ rxLog'[j].id \in SettledIds'
             /\ \A i \in 1..(j - 1) :
                  Promise!IsEnd(rxLog'[i]) => rxLog'[i].id < rxLog'[j].id
  <2>1. j \in 1..Len(rxLog') /\ IsFinal(rxLog'[j])
    BY <1>0, <1>4 DEF Promise!IsEnd, IsFinal
  <2>2. ASSUME NEW i \in 1..(j - 1), Promise!IsEnd(rxLog'[i])
        PROVE  rxLog'[i].id < rxLog'[j].id
    <3>1. i \in 1..Len(rxLog') /\ i < j
      BY <1>0, <2>1
    <3>2. IsFinal(rxLog'[i])
      BY Zenon, <2>2 DEF Promise!IsEnd, IsFinal
    <3> QED BY Zenon, <1>0, <2>1, <3>1, <3>2 DEF Log
  <2> QED BY Zenon, <1>3, <2>1, <2>2
<1> QED BY Zenon, <1>0, <1>1, <1>4 DEF Promise!Deliver, ReceiverKeeps,
               Promise!IsPrefixOf, CallsKept

\* every step keeps StreamInv and maps to steps of the halves and of the promise
LEMMA StreamStep ==
  ASSUME StreamNoWrap, StreamInv, [Next]_vars
  PROVE  /\ StreamInv' /\ [TxNext]_txVars /\ [RxNext]_rxVars
         /\ [Promise!Next]_(Promise!vars)
<1>0. /\ TxInv /\ RxTypeOK /\ RxInv /\ NoWrap /\ nextPacketId \in Nat
      /\ \A c \in net : InFlight(c)
      /\ Knows(rxFifo, frontPacketId, nextPacketId, Positions, {})
      /\ SoundHalf(txFifo, txLog, txLog, SettledIds, SizesOf(txFifo))
      /\ txLog \in Seq(Delivery) /\ Len(txLog) \in Nat
  BY Bounds DEF StreamInv, TxInv, Half
<1>1. CASE SenderSends \/ SenderWrites \/ SenderReads
  <2>1. /\ SenderKeeps /\ [TxNext]_txVars
        /\ nextPacketId' = nextPacketId \/ (nextPacketId < nextPacketId' /\ txLog' = txLog)
        /\ \A c \in net' : c \in net \/ InFlight(c)'
    BY <1>1, SenderStep
  <2>2. [Promise!Next]_(Promise!vars)
    BY <2>1, SenderPromise
  <2>3. /\ TxInv' /\ UNCHANGED rxVars /\ nextPacketId <= nextPacketId'
        /\ Positions \subseteq Positions' /\ ReportsKept(txLog, txLog')
        /\ SoundHalf(txFifo', txLog', txLog', SettledIds, SizesOf(txFifo'))
    BY Zenon, <2>1 DEF SenderKeeps
  <2>4. RxTypeOK' /\ RxInv' /\ SettledIds' = SettledIds
        /\ rxFifo' = rxFifo /\ frontPacketId' = frontPacketId
    <3>1. UNCHANGED <<rxFifo, frontPacketId, rxIsNew, rxAcks, rxLog>>
      BY <2>3 DEF rxVars
    <3> QED BY <1>0, <3>1 DEF RxTypeOK, RxInv, SettledIds
  <2>5. nextPacketId' \in Nat /\ Len(txLog') \in Nat /\ Len(txLog) <= Len(txLog')
    <3>1. nextPacketId' = Len(txLog') + Len(txFifo') /\ Len(txFifo') \in Nat /\ Len(txLog') \in Nat
      BY <2>3 DEF TxInv, Half
    <3> QED BY <2>3, <3>1 DEF CallsKept, ReportsKept, Promise!IsPrefixOf
  <2>6. \A c \in net' : InFlight(c)'
    BY Zenon, <1>0, <2>1, <2>3, <2>4, <2>5, InFlightKept
  <2>7. Knows(rxFifo', frontPacketId', nextPacketId', Positions', {})
    <3>1. frontPacketId \in Nat /\ PacketId \subseteq Nat /\ rxFifo \in Seq(RxPacket)
      BY <1>0, IdSpaceAssumption DEF RxTypeOK, PacketId
    <3>2. frontPacketId <= nextPacketId'
      BY <1>0, <2>3, <2>5, <3>1 DEF Knows
    <3>3. ASSUME NEW i \in 1..Len(rxFifo)
          PROVE  /\ rxFifo[i].id < nextPacketId'
                 /\ rxFifo[i].offsetRepeat_B # NoRepeat
                      => <<rxFifo[i].id, rxFifo[i].offsetRepeat_B>> \in Positions'
      <4>1. rxFifo[i].id \in Nat
        BY Zenon, <3>1, PacketType
      <4>2. rxFifo[i].id < nextPacketId
        BY Zenon, <1>0 DEF Knows
      <4>3. rxFifo[i].id < nextPacketId'
        BY <1>0, <2>3, <2>5, <4>1, <4>2
      <4>4. rxFifo[i].offsetRepeat_B # NoRepeat
              => <<rxFifo[i].id, rxFifo[i].offsetRepeat_B>> \in Positions
        BY Zenon, <1>0 DEF Knows
      <4> QED BY Zenon, <2>3, <4>3, <4>4
    <3> QED BY Zenon, <2>4, <3>2, <3>3 DEF Knows
  <2>8. SoundHalf(txFifo', txLog', txLog', SettledIds', SizesOf(txFifo'))
    BY Zenon, <2>3, <2>4
  <2>9. StreamInv'
    BY Zenon, <2>3, <2>4, <2>6, <2>7, <2>8 DEF StreamInv
  <2>10. [RxNext]_rxVars
    BY <2>3
  <2> QED BY Zenon, <2>1, <2>2, <2>9, <2>10
<1>2. CASE ReceiverReads \/ ReceiverWrites \/ ReceiverWaits
  <2>1. /\ ReceiverKeeps /\ [RxNext]_rxVars
        /\ \A c \in net' : c \in net \/ InFlight(c)'
    BY <1>2, ReceiverStep
  <2>2. Promise!Deliver
    BY <2>1, ReceiverPromise
  <2>3. /\ RxTypeOK' /\ RxInv' /\ UNCHANGED txVars
        /\ Knows(rxFifo', frontPacketId', nextPacketId, Positions, SettledIds)
        /\ SettledIds \subseteq SettledIds'
    BY Zenon, <2>1 DEF ReceiverKeeps, KnowsNext
  <2>4. UNCHANGED <<commands, txFifo, packetFifoIdx, nextPacketId, txLog>>
    BY <2>3 DEF txVars
  <2>5. TxInv' /\ Positions' = Positions
    BY <1>0, <2>4 DEF TxInv, Accepted, Positions, Offsets
  <2>6. \A c \in net' : InFlight(c)'
    <3>1. nextPacketId <= nextPacketId' /\ Len(txLog) <= Len(txLog') /\ Len(txLog') \in Nat
          /\ nextPacketId' \in Nat /\ Positions \subseteq Positions'
      BY <1>0, <2>4, <2>5
    <3> QED BY Zenon, <1>0, <2>1, <2>3, <3>1, InFlightKept
  <2>7. Knows(rxFifo', frontPacketId', nextPacketId', Positions', {})
    BY Zenon, <2>3, <2>4, <2>5 DEF Knows
  <2>8. SoundHalf(txFifo', txLog', txLog', SettledIds', SizesOf(txFifo'))
    <3>1. /\ \A i \in 1..Len(txFifo) : Sound(txFifo[i], SettledIds', SizesOf(txFifo))
          /\ \A i \in 1..Len(txLog) : SoundReport(txLog[i], SettledIds')
      BY Zenon, <1>0, <2>3 DEF SoundHalf, Sound, SoundReport
    <3>2. SoundHalf(txFifo, txLog, txLog, SettledIds', SizesOf(txFifo))
      BY Zenon, <1>0, <3>1 DEF SoundHalf
    <3> QED BY Zenon, <2>4, <3>2
  <2>9. StreamInv'
    BY Zenon, <2>3, <2>5, <2>6, <2>7, <2>8 DEF StreamInv
  <2> QED BY Zenon, <2>1, <2>2, <2>3, <2>9 DEF Promise!Next
<1>3. CASE UNCHANGED vars
  <2>1. UNCHANGED <<commands, txFifo, packetFifoIdx, nextPacketId, txLog>>
    BY <1>3 DEF vars, txVars
  <2>2. UNCHANGED <<rxFifo, frontPacketId, rxIsNew, rxAcks, rxLog>>
    BY <1>3 DEF vars, rxVars
  <2>3. UNCHANGED net /\ UNCHANGED txVars /\ UNCHANGED rxVars
    BY <1>3 DEF vars
  <2>4. SettledIds' = SettledIds /\ Positions' = Positions
    BY <2>1, <2>2 DEF SettledIds, Positions, Offsets
  <2>5. \A c : InFlight(c) => InFlight(c)'
    BY Zenon, <2>1, <2>4 DEF InFlight, IsData
  <2>6. TxInv' /\ RxTypeOK' /\ RxInv'
    BY <1>0, <2>1, <2>2 DEF TxInv, Accepted, RxTypeOK, RxInv
  <2>7. StreamInv'
    BY Zenon, <1>0, <2>1, <2>2, <2>3, <2>4, <2>5, <2>6 DEF StreamInv
  <2>8. UNCHANGED Promise!vars
    BY <2>1, <2>2, <2>4 DEF Promise!vars
  <2> QED BY Zenon, <2>3, <2>7, <2>8
<1> QED BY Zenon, <1>1, <1>2, <1>3 DEF Next

-----------------------------------------------------------------------------
(* The theorems                                                            *)

\* the initial states map to initial states
LEMMA StreamStart == ASSUME StreamNoWrap, Init PROVE StreamInv /\ Promise!Init
<1>1. TxInv
  BY TxAssumption DEF Init, TxInit, TxInv, Half, Numbered, Accepted
<1>2. RxTypeOK /\ RxInv
  BY Start, IdSpaceAssumption DEF Init, RxInit, RxTypeOK, PacketId, StreamNoWrap
<1>3. Knows(rxFifo, frontPacketId, nextPacketId, Positions, {})
  BY DEF Init, TxInit, RxInit, Knows
<1>4. SoundHalf(txFifo, txLog, txLog, SettledIds, SizesOf(txFifo))
  BY DEF Init, TxInit, SoundHalf, ReportsKept
<1>5. SettledIds = {}
  BY DEF Init, RxInit, SettledIds
<1>6. net = {} /\ nextPacketId = 0 /\ rxLog = <<>> /\ txLog = <<>>
  BY DEF Init, TxInit, RxInit
<1> QED BY Zenon, <1>1, <1>2, <1>3, <1>4, <1>5, <1>6 DEF StreamInv, Promise!Init

\* The inductive invariant holds of every behaviour of the stream, over any network
\* that loses, repeats and reorders what it carries.
THEOREM StreamInvariant == ASSUME StreamNoWrap PROVE Spec => []StreamInv
<1>1. Init => StreamInv
  BY StreamStart
<1>2. StreamInv /\ [Next]_vars => StreamInv'
  BY StreamStep
<1> QED BY <1>1, <1>2, PTL DEF Spec

\* What writeDataChunk and writeMetaChunk put in flight is what readChunk of the
\* other half takes.
THEOREM StreamNetType == ASSUME StreamNoWrap PROVE Spec => []NetTypeOK
<1>1. StreamInv => NetTypeOK
  <2> SUFFICES ASSUME StreamInv, NEW c \in net
               PROVE  IF IsData(c) THEN c \in DataChunk ELSE c \in TxInput
    BY DEF NetTypeOK
  <2>1. TxInv /\ InFlight(c)
    BY DEF StreamInv
  <2> QED BY <2>1, InFlightType
<1> QED BY <1>1, StreamInvariant, PTL

\* isFront lets readChunk drop every packet before the chunk's; however late it
\* arrives, the sender has finished with all of those.
THEOREM StreamFrontIsTrue == ASSUME StreamNoWrap PROVE Spec => []FrontIsTrue
<1>1. StreamInv => FrontIsTrue
  <2> SUFFICES ASSUME StreamInv, NEW c \in net, IsData(c), c.isFront
               PROVE  c.id <= Len(txLog)
    BY DEF FrontIsTrue
  <2>1. InFlight(c)
    BY DEF StreamInv
  <2>2. /\ c # [type |-> "Acknowledge", id |-> c.id]
        /\ c # [type |-> "RepeatInfo", id |-> c.id, offset |-> c.offset]
    BY DEF IsData
  <2> QED BY Zenon, <2>1, <2>2 DEF InFlight
<1> QED BY <1>1, StreamInvariant, PTL

\* Whatever RepeatInfo comes back, a piece that is written lies inside its packet.
THEOREM StreamOffsets == ASSUME StreamNoWrap PROVE Spec => []OffsetsInPacket
<1>1. StreamInv => OffsetsInPacket
  BY Zenon DEF StreamInv, SoundHalf, Sound, OffsetsInPacket
<1> QED BY <1>1, StreamInvariant, PTL

\* onDelivered says 's' of a packet of a reliable stream only if the receiver is
\* through with it.
THEOREM StreamConfirmed == ASSUME StreamNoWrap PROVE Spec => []ConfirmedIsSettled
<1>1. StreamInv => ConfirmedIsSettled
  BY Zenon DEF StreamInv, SoundHalf, SoundReport, ConfirmedIsSettled, Confirmed
<1> QED BY <1>1, StreamInvariant, PTL

\* Connected to a sender by a network, the receiving half does what RxStream allows
\* it: the theorems about RxSpec hold of the stream.
THEOREM StreamReceives == ASSUME StreamNoWrap PROVE Spec => RxSpec
<1>1. Init => RxInit
  BY DEF Init
<1>2. StreamInv /\ [Next]_vars => [RxNext]_rxVars
  BY StreamStep
<1> QED BY <1>1, <1>2, StreamInvariant, PTL DEF Spec, RxSpec

\* The sending half does what TxStream allows it, so the theorems about TxSpec hold
\* of the stream too.
THEOREM StreamSends == ASSUME StreamNoWrap PROVE Spec => TxSpec
<1>1. Init => TxInit
  BY DEF Init
<1>2. StreamInv /\ [Next]_vars => [TxNext]_txVars
  BY StreamStep
<1> QED BY <1>1, <1>2, StreamInvariant, PTL DEF Spec, TxSpec

\* The stream implements OrderedDelivery: the receiving application hears of the
\* packets in order, and the sending one of a reliable packet never prematurely.
THEOREM StreamPromise == ASSUME StreamNoWrap PROVE Spec => StreamKeepsPromise
<1>1. Init => Promise!Init
  BY StreamStart
<1>2. StreamInv /\ [Next]_vars => [Promise!Next]_(Promise!vars)
  BY StreamStep
<1> QED BY <1>1, <1>2, StreamInvariant, PTL DEF Spec, StreamKeepsPromise, Promise!Spec
=============================================================================
