------------------------------ MODULE RxProofs ------------------------------
(***************************************************************************)
(* Proofs about the receiving half of a stream (RxStream).                 *)
(***************************************************************************)
EXTENDS RxStream, TLAPS

-----------------------------------------------------------------------------
(* Packet ids                                                              *)

\* The ids updateFrontPacketId and the increment of an id produce are ids.
LEMMA FrontType ==
  ASSUME NEW front \in PacketId, NEW id \in PacketId, NEW b \in BOOLEAN,
         NEW shadow \in Seq(PacketId)
  PROVE  updateFrontPacketId(front, shadow, b, id) \in PacketId
  BY DEF updateFrontPacketId, Advance

\* the id after an id is an id
LEMMA NextIdType ==
  ASSUME NEW id \in PacketId PROVE NextId(id) \in PacketId
  BY IdSpaceAssumption DEF NextId, PacketId

\* Every packet of a fifo is an RxPacket, and its fields have their types.
LEMMA PacketType ==
  ASSUME NEW f \in Seq(RxPacket), NEW i \in 1..Len(f)
  PROVE  /\ f[i] \in RxPacket
         /\ f[i].id \in PacketId
         /\ f[i].size_B \in Nat /\ f[i].offset_B \in Nat
         /\ f[i].isReceived \in BOOLEAN /\ f[i].timedOut \in BOOLEAN
         /\ f[i].isReliable \in BOOLEAN /\ f[i].hasCopy \in BOOLEAN
<1>1. f[i] \in RxPacket
  OBVIOUS
<1> QED  BY <1>1 DEF RxPacket

\* fifoShadow is a sequence of ids
LEMMA ShadowType ==
  ASSUME NEW f \in Seq(RxPacket) PROVE Shadow(f) \in Seq(PacketId)
<1>1. \A i \in 1..Len(f) : f[i].id \in PacketId
  BY PacketType
<1> QED  BY <1>1 DEF Shadow

\* the bounds of the quarters are naturals
LEMMA QuarterType == Quarter \in Nat /\ ThreeQuarters \in Nat
  BY IdSpaceAssumption DEF Quarter, ThreeQuarters

-----------------------------------------------------------------------------
(* Types of the fifo operations                                            *)

\* a packet emplace creates is an RxPacket
LEMMA NewPacketType ==
  ASSUME NEW id \in PacketId PROVE NewRxPacket(id) \in RxPacket
  BY DEF NewRxPacket, RxPacket, NoRepeat

\* and so are those of a range of ids
LEMMA NewPacketsType ==
  ASSUME NEW first \in PacketId, NEW last \in PacketId
  PROVE  NewRxPackets(first, last) \in Seq(RxPacket)
<1>1. CASE last < first
  BY <1>1, IdSpaceAssumption DEF NewRxPackets, PacketId
<1>2. CASE first <= last
  <2>1. \A i \in 1..(last - first + 1) : NewRxPacket(first + i - 1) \in RxPacket
    BY <1>2, NewPacketType, IdSpaceAssumption DEF PacketId
  <2> QED  BY <1>2, <2>1, IdSpaceAssumption DEF NewRxPackets, PacketId
<1> QED  BY <1>1, <1>2, IdSpaceAssumption DEF PacketId

\* emplace() extends the fifo: what was in it stays in its place.
LEMMA EmplaceType ==
  ASSUME NEW f \in Seq(RxPacket), NEW id \in PacketId
  PROVE  emplace(f, id) \in Seq(RxPacket) /\ emplace(f, id) # <<>>
<1>1. CASE f = <<>>
  BY <1>1, NewPacketType DEF emplace
<1>2. CASE f # <<>>
  <2> DEFINE back == f[Len(f)].id
  <2>1. back \in PacketId
    BY <1>2, PacketType
  <2>2. back < id => back + 1 \in PacketId
    BY <2>1, IdSpaceAssumption DEF PacketId
  <2>3. 0 \in PacketId /\ UINT32_MAX \in PacketId
    BY IdSpaceAssumption DEF PacketId
  <2>4. /\ back < id => NewRxPackets(back + 1, id) \in Seq(RxPacket)
        /\ NewRxPackets(back, UINT32_MAX) \in Seq(RxPacket)
        /\ NewRxPackets(0, id) \in Seq(RxPacket)
    BY Zenon, <2>1, <2>2, <2>3, NewPacketsType
  <2> HIDE DEF back
  <2>5. emplace(f, id) \in {f, f \o NewRxPackets(back + 1, id),
             f \o NewRxPackets(back, UINT32_MAX) \o NewRxPackets(0, id)}
    BY <1>2 DEF emplace, back
  <2>6. /\ back < id => f \o NewRxPackets(back + 1, id) \in Seq(RxPacket) \ {<<>>}
        /\ f \o NewRxPackets(back, UINT32_MAX) \o NewRxPackets(0, id)
             \in Seq(RxPacket) \ {<<>>}
    BY <1>2, <2>4
  <2> QED  BY <1>2, <2>5, <2>6 DEF emplace, back
<1> QED  BY <1>1, <1>2

\* get leaves a fifo that is not empty
LEMMA GetType ==
  ASSUME NEW f \in Seq(RxPacket), NEW front \in PacketId, NEW id \in PacketId
  PROVE  get(f, front, id) \in Seq(RxPacket) /\ get(f, front, id) # <<>>
  BY EmplaceType DEF get

\* the packet get returns is in the fifo
LEMMA IndexType ==
  ASSUME NEW f \in Seq(RxPacket), f # <<>>, NEW id
  PROVE  indexOf(f, id) \in 1..Len(f)
  BY DEF indexOf

\* processRxFifo reports calls of onReceived
LEMMA FinalsType ==
  ASSUME NEW f \in Seq(RxPacket), NEW k \in 0..Len(f)
  PROVE  Finals(f, k) \in Seq(Call)
<1>1. \A i \in 1..k : Final(f[i]) \in Call
  BY PacketType DEF Final, Call
<1> QED  BY <1>1 DEF Finals

\* frontPacketId is an id after packets were dropped
LEMMA FrontAfterType ==
  ASSUME NEW f \in Seq(RxPacket), NEW front \in PacketId, NEW k \in 0..Len(f)
  PROVE  FrontAfter(f, front, k) \in PacketId
<1>1. CASE k = 0
  BY <1>1 DEF FrontAfter
<1>2. CASE k # 0
  <2>1. f[k].id \in PacketId
    BY <1>2, PacketType
  <2>2. <<f[k].id>> \in Seq(PacketId) /\ NextId(f[k].id) \in PacketId
    BY <2>1, NextIdType
  <2> QED  BY Zenon, <1>2, <2>2, FrontType DEF FrontAfter
<1> QED  BY <1>1, <1>2

\* processRxFifo keeps the types
LEMMA ProcessType ==
  ASSUME NEW f \in Seq(RxPacket), NEW front \in PacketId, NEW log \in Seq(Call),
         processRxFifo(f, front, log)
  PROVE  /\ rxFifo' \in Seq(RxPacket)
         /\ frontPacketId' \in PacketId
         /\ rxLog' \in Seq(Call)
<1>1. PICK k \in 0..Len(f) :
        /\ rxFifo' = SubSeq(f, k + 1, Len(f))
        /\ frontPacketId' = FrontAfter(f, front, k)
        /\ rxLog' = log \o Finals(f, k)
  BY Zenon DEF processRxFifo
<1>2. SubSeq(f, k + 1, Len(f)) \in Seq(RxPacket)
  OBVIOUS
<1> QED  BY <1>1, <1>2, FrontAfterType, FinalsType

\* queueing an ack keeps the type of acks
LEMMA AcknowledgeType ==
  ASSUME NEW acks \in Seq(PacketId), NEW id \in PacketId
  PROVE  acknowledge(acks, id) \in Seq(PacketId)
  BY DEF acknowledge

-----------------------------------------------------------------------------
(* Types of the handlers                                                   *)

\* the fields of a data chunk
LEMMA ChunkType ==
  ASSUME NEW c \in DataChunk
  PROVE  /\ c.id \in PacketId /\ c.id \in 0..MaxId
         /\ c.isReliable \in BOOLEAN /\ c.isFront \in BOOLEAN
         /\ c.type \in {"SmallPacket", "BeginOfPacket"} => c.size \in Nat \ {0}
         /\ c.type = "PieceOfPacket" => c.offset \in Nat /\ c.size \in Nat \ {0}
<1>1. CASE c \in [type : {"SmallPacket", "BeginOfPacket"}, id : 0..MaxId,
                  isReliable : BOOLEAN, isFront : BOOLEAN, size : Sizes]
  <2>1. c.id \in 0..MaxId /\ c.size \in Sizes
    BY <1>1
  <2>2. c.id \in PacketId
    BY <2>1, RxAssumption, IdSpaceAssumption DEF PacketId
  <2>3. c.size \in Nat \ {0}
    BY Zenon, <2>1, RxAssumption
  <2> QED  BY <1>1, <2>2, <2>3
<1>2. CASE c \in [type : {"PieceOfPacket"}, id : 0..MaxId,
                  isReliable : BOOLEAN, isFront : BOOLEAN,
                  offset : UNION {0..(n - 1) : n \in Sizes},
                  size : UNION {1..n : n \in Sizes}]
  <2>1. PICK n \in Sizes : c.offset \in 0..(n - 1)
    BY <1>2
  <2>2. PICK m \in Sizes : c.size \in 1..m
    BY <1>2
  <2>3. n \in Nat /\ m \in Nat
    BY RxAssumption
  <2>4. c.offset \in Nat /\ c.size \in Nat \ {0}
    BY <2>1, <2>2, <2>3
  <2> QED  BY <1>2, <2>4, RxAssumption, IdSpaceAssumption DEF PacketId
<1> QED  BY <1>1, <1>2 DEF DataChunk

\* assigning a packet keeps the type of the fifo
LEMMA PutType ==
  ASSUME NEW f \in Seq(RxPacket), NEW i \in 1..Len(f), NEW p \in RxPacket
  PROVE  /\ Put(f, i, p) \in Seq(RxPacket)
         /\ Len(Put(f, i, p)) = Len(f)
         /\ Put(f, i, p)[i] = p
         /\ \A j \in 1..Len(f) : j # i => Put(f, i, p)[j] = f[j]
  BY DEF Put

\* Assigning to the fields of a packet leaves an RxPacket.
LEMMA AssignType ==
  ASSUME NEW p \in RxPacket, NEW b \in BOOLEAN, NEW b2 \in BOOLEAN,
         NEW n \in Nat, NEW o \in Nat, NEW s \in SUBSET Nat
  PROVE  /\ Renewed(p) \in RxPacket
         /\ [p EXCEPT !.timedOut = TRUE] \in RxPacket
         /\ [p EXCEPT !.isReceived = TRUE] \in RxPacket
         /\ [p EXCEPT !.size_B = n, !.hasCopy = TRUE, !.bytes = s] \in RxPacket
         /\ [p EXCEPT !.size_B = n, !.isReliable = b, !.hasCopy = b2] \in RxPacket
         /\ [p EXCEPT !.offsetRepeat_B = 0, !.isReliable = b] \in RxPacket
         /\ [p EXCEPT !.offset_B = o, !.offsetRepeat_B = o] \in RxPacket
         /\ [p EXCEPT !.offset_B = 0, !.offsetRepeat_B = 0] \in RxPacket
         /\ [p EXCEPT !.offsetRepeat_B = NoRepeat] \in RxPacket
         /\ [p EXCEPT !.offset_B = o, !.bytes = @ \cup s,
                      !.isReceived = @ \/ b] \in RxPacket
  BY ZenonT(60) DEF RxPacket, NoRepeat, Renewed
\* what the handlers of readChunk leave has its type
RxTypesNext ==
  /\ rxFifo' \in Seq(RxPacket)
  /\ frontPacketId' \in PacketId
  /\ rxAcks' \in Seq(PacketId)
  /\ rxLog' \in Seq(Call)

\* readChunk of a SmallPacket keeps the types
LEMMA SmallPacketType ==
  ASSUME NEW c \in DataChunk, NEW f \in Seq(RxPacket), NEW i \in 1..Len(f),
         NEW front \in PacketId, RxTypeOK, ReadSmallPacket(c, f, i, front)
  PROVE  RxTypesNext
<1> DEFINE p == [Renewed(f[i]) EXCEPT !.isReceived = TRUE]
           q == [p EXCEPT !.size_B = c.size, !.hasCopy = TRUE,
                          !.bytes = 0..(c.size - 1)]
           log == Append(rxLog, [id |-> c.id, status |-> "s", whole |-> TRUE])
           next == updateFrontPacketId(front, Shadow(f), TRUE, NextId(c.id))
<1>1. c.id \in PacketId /\ c.size \in Nat
  BY ChunkType DEF ReadSmallPacket
<1>2. p \in RxPacket
  BY ZenonT(60), PacketType, AssignType
<1>3. q \in RxPacket
  <2>1. 0..(c.size - 1) \in SUBSET Nat
    BY <1>1
  <2> QED  BY ZenonT(60), <1>1, <1>2, <2>1, AssignType
<1>4. /\ Put(f, i, p) \in Seq(RxPacket) /\ Len(Put(f, i, p)) = Len(f)
      /\ Put(f, i, q) \in Seq(RxPacket)
  BY <1>2, <1>3, PutType
<1>5. Tail(Put(f, i, p)) \in Seq(RxPacket)
  BY <1>4
<1>6. log \in Seq(Call) /\ rxLog \in Seq(Call)
  BY <1>1 DEF RxTypeOK, Call
<1>7. next \in PacketId
  BY Zenon, <1>1, ShadowType, NextIdType, FrontType
<1>8. rxAcks' \in Seq(PacketId)
  BY Zenon, <1>1, AcknowledgeType DEF ReadSmallPacket, RxTypeOK
<1>9. \/ processRxFifo(Put(f, i, p), front, rxLog)
      \/ processRxFifo(Tail(Put(f, i, p)), next, log)
      \/ processRxFifo(Put(f, i, q), front, rxLog)
  BY Zenon DEF ReadSmallPacket
<1> HIDE DEF p, q, log, next
<1> QED  BY Zenon, <1>4, <1>5, <1>6, <1>7, <1>8, <1>9, ProcessType DEF RxTypesNext

\* readChunk of a BeginOfPacket keeps the types
LEMMA BeginOfPacketType ==
  ASSUME NEW c \in DataChunk, NEW f \in Seq(RxPacket), NEW i \in 1..Len(f),
         NEW front \in PacketId, RxTypeOK, ReadBeginOfPacket(c, f, i, front)
  PROVE  RxTypesNext
<1> DEFINE p == Renewed(f[i])
           r == [p EXCEPT !.size_B = c.size, !.isReliable = c.isReliable,
                          !.hasCopy = c.size <= Threshold]
           q == IF p.size_B # 0 THEN p ELSE r
<1>1. c.isReliable \in BOOLEAN /\ c.size \in Nat
  BY ChunkType DEF ReadBeginOfPacket
<1>2. p \in RxPacket
  BY ZenonT(60), PacketType, AssignType
<1>3. r \in RxPacket
  <2>1. (c.size <= Threshold) \in BOOLEAN
    OBVIOUS
  <2> HIDE DEF p
  <2> QED  BY ZenonT(60), <1>1, <1>2, <2>1, AssignType
<1>4. Put(f, i, q) \in Seq(RxPacket)
  BY Zenon, <1>2, <1>3, PutType
<1>5. processRxFifo(Put(f, i, q), front, rxLog) /\ UNCHANGED rxAcks
  BY DEF ReadBeginOfPacket
<1> HIDE DEF q
<1> QED  BY <1>4, <1>5, ProcessType DEF RxTypesNext, RxTypeOK
\* readChunk of a PieceOfPacket keeps the types
LEMMA PieceOfPacketType ==
  ASSUME NEW c \in DataChunk, NEW f \in Seq(RxPacket), NEW i \in 1..Len(f),
         NEW front \in PacketId, RxTypeOK, ReadPieceOfPacket(c, f, i, front)
  PROVE  RxTypesNext
<1> DEFINE p    == Renewed(f[i])
           end  == c.offset + c.size
           done == end >= p.size_B
           q1   == [p EXCEPT !.offsetRepeat_B = 0, !.isReliable = c.isReliable]
           q2   == [p EXCEPT !.offset_B = c.offset, !.offsetRepeat_B = c.offset]
           q3   == [p EXCEPT !.offset_B = 0, !.offsetRepeat_B = 0]
           q4   == [p EXCEPT !.offset_B = end, !.bytes = @ \cup c.offset..(end - 1),
                             !.isReceived = @ \/ done]
           log  == Append(rxLog, [id |-> c.id, status |-> "p", whole |-> FALSE])
<1>1. /\ c.id \in PacketId /\ c.isReliable \in BOOLEAN
      /\ c.offset \in Nat /\ c.size \in Nat
  BY ChunkType DEF ReadPieceOfPacket
<1>2. p \in RxPacket
  BY ZenonT(60), PacketType, AssignType
<1>3. /\ end \in Nat /\ c.offset..(end - 1) \in SUBSET Nat
      /\ done \in BOOLEAN
  <2> HIDE DEF p
  <2> QED  BY <1>1
<1>4. /\ q1 \in RxPacket /\ q2 \in RxPacket /\ q3 \in RxPacket /\ q4 \in RxPacket
  <2> HIDE DEF p, end, done
  <2>1. q1 \in RxPacket /\ q2 \in RxPacket /\ q3 \in RxPacket
    BY ZenonT(60), <1>1, <1>2, AssignType
  <2>2. q4 \in RxPacket
    BY Zenon, <1>2, <1>3 DEF RxPacket
  <2> QED  BY <2>1, <2>2
<1>5. \A q \in {p, q1, q2, q3, q4} : Put(f, i, q) \in Seq(RxPacket)
  <2> HIDE DEF p, q1, q2, q3, q4
  <2>1. \A q \in {p, q1, q2, q3, q4} : q \in RxPacket
    BY Zenon, <1>2, <1>4
  <2>2. \A q \in RxPacket : Put(f, i, q) \in Seq(RxPacket)
    BY Zenon, PutType
  <2> QED  BY Zenon, <2>1, <2>2
<1>6. log \in Seq(Call) /\ rxLog \in Seq(Call) /\ rxAcks \in Seq(PacketId)
  BY <1>1 DEF RxTypeOK, Call
<1>7. acknowledge(rxAcks, c.id) \in Seq(PacketId)
  BY <1>1, <1>6, AcknowledgeType
<1>8. \/ \E q \in {p, q1, q2, q3} : Return(Put(f, i, q), front)
      \/ TakePiece(c, f, i, front)
  BY DEF ReadPieceOfPacket
<1>9. CASE \E q \in {p, q1, q2, q3} : Return(Put(f, i, q), front)
  <2> HIDE DEF p, q1, q2, q3, q4
  <2> QED  BY <1>5, <1>6, <1>9 DEF Return, RxTypesNext
<1>10. CASE TakePiece(c, f, i, front)
  <2>1. PICK l \in {rxLog, log} :
          /\ rxAcks' \in {rxAcks, acknowledge(rxAcks, c.id)}
          /\ \/ rxFifo' = Put(f, i, q4) /\ frontPacketId' = front /\ rxLog' = l
             \/ processRxFifo(Put(f, i, q4), front, l)
    BY <1>10 DEF TakePiece
  <2> HIDE DEF p, q1, q2, q3, q4, log
  <2> QED  BY ZenonT(60), <1>5, <1>6, <1>7, <2>1, ProcessType DEF RxTypesNext
<1> QED  BY <1>8, <1>9, <1>10

\* readChunk keeps the types, its early returns included
LEMMA ReadChunkType ==
  ASSUME NEW c \in DataChunk, RxTypeOK, ReadChunk(c)
  PROVE  RxTypeOK'
<1> DEFINE front == updateFrontPacketId(frontPacketId, Shadow(Opened), c.isFront, c.id)
           f     == get(Opened, front, c.id)
           i     == indexOf(f, c.id)
<1>1. c.id \in PacketId /\ c.isFront \in BOOLEAN
  BY ChunkType
<1>2. Opened \in Seq(RxPacket)
  <2>1. 0 \in PacketId
    BY IdSpaceAssumption DEF PacketId
  <2> QED  BY <2>1, NewPacketType DEF Opened, RxTypeOK
<1>3. front \in PacketId
  BY Zenon, <1>1, <1>2, ShadowType, FrontType DEF RxTypeOK
<1>4. f \in Seq(RxPacket) /\ i \in 1..Len(f)
  BY ZenonT(60), <1>1, <1>2, <1>3, GetType, IndexType
<1>5. /\ rxIsNew' = FALSE
      /\ \/ ReadIgnored(c, Opened, front)
         \/ Return(f, front)
         \/ ReadSmallPacket(c, f, i, front)
         \/ ReadBeginOfPacket(c, f, i, front)
         \/ ReadPieceOfPacket(c, f, i, front)
  BY DEF ReadChunk
<1> HIDE DEF front, f, i
<1>6. CASE ReadIgnored(c, Opened, front)
  BY Zenon, <1>1, <1>2, <1>3, <1>5, <1>6, AcknowledgeType DEF ReadIgnored, RxTypeOK
<1>7. CASE Return(f, front)
  BY Zenon, <1>3, <1>4, <1>5, <1>7 DEF Return, RxTypeOK
<1>8. CASE \/ ReadSmallPacket(c, f, i, front)
           \/ ReadBeginOfPacket(c, f, i, front)
           \/ ReadPieceOfPacket(c, f, i, front)
  <2>1. RxTypesNext
    BY <1>3, <1>4, <1>8, SmallPacketType, BeginOfPacketType, PieceOfPacketType
  <2> QED  BY ZenonT(60), <1>5, <2>1 DEF RxTypesNext, RxTypeOK
<1> QED  BY <1>5, <1>6, <1>7, <1>8
\* every step keeps the types
LEMMA RxTypeStep ==
  ASSUME RxTypeOK, [RxNext]_rxVars PROVE RxTypeOK'
<1>1. ASSUME NEW c \in DataChunk, ReadChunk(c) PROVE RxTypeOK'
  BY <1>1, ReadChunkType
<1>2. ASSUME NEW out \in RxOutput, WriteAcknowledge(out) PROVE RxTypeOK'
  BY <1>2 DEF WriteAcknowledge, RxTypeOK
<1>3. ASSUME NEW out \in RxOutput, WriteRepeatInfo(out) PROVE RxTypeOK'
  <2>0. rxFifo \in Seq(RxPacket)
    BY DEF RxTypeOK
  <2>1. PICK k \in 0..Len(rxFifo) :
          /\ frontPacketId' = FrontAfter(rxFifo, frontPacketId, k)
          /\ rxLog' = rxLog \o Finals(rxFifo, k)
          /\ \E i \in (k + 1)..Len(rxFifo) :
               rxFifo' = SubSeq(Put(rxFifo, i, [rxFifo[i] EXCEPT
                                                 !.offsetRepeat_B = NoRepeat]),
                                k + 1, Len(rxFifo))
    BY Zenon, <1>3 DEF WriteRepeatInfo
  <2>i. PICK i \in (k + 1)..Len(rxFifo) :
          rxFifo' = SubSeq(Put(rxFifo, i, [rxFifo[i] EXCEPT
                                            !.offsetRepeat_B = NoRepeat]),
                           k + 1, Len(rxFifo))
    BY Zenon, <2>1
  <2> DEFINE g == Put(rxFifo, i, [rxFifo[i] EXCEPT !.offsetRepeat_B = NoRepeat])
  <2>2. /\ rxFifo \in Seq(RxPacket) /\ i \in 1..Len(rxFifo)
        /\ frontPacketId \in PacketId /\ rxLog \in Seq(Call)
    BY <2>0 DEF RxTypeOK
  <2>3. g \in Seq(RxPacket) /\ Len(g) = Len(rxFifo)
    <3>1. [rxFifo[i] EXCEPT !.offsetRepeat_B = NoRepeat] \in RxPacket
      BY ZenonT(60), <2>2, PacketType, AssignType
    <3> QED  BY <2>2, <3>1, PutType
  <2>4. SubSeq(g, k + 1, Len(rxFifo)) \in Seq(RxPacket)
    <3> HIDE DEF g
    <3> QED  BY <2>2, <2>3
  <2>5. frontPacketId' \in PacketId /\ rxLog' \in Seq(Call)
    BY <2>1, <2>2, FrontAfterType, FinalsType
  <2> QED  BY Zenon, <1>3, <2>i, <2>4, <2>5 DEF WriteRepeatInfo, RxTypeOK
<1>4. CASE WriteNoMeta
  BY <1>4, ProcessType DEF WriteNoMeta, RxTypeOK
<1>5. CASE RxTimeout
  <2>1. PICK i \in 1..Len(rxFifo) :
          rxFifo' = Put(rxFifo, i, [rxFifo[i] EXCEPT !.timedOut = TRUE])
    BY Zenon, <1>5 DEF RxTimeout
  <2>2. rxFifo' \in Seq(RxPacket)
    BY ZenonT(60), <2>1, PacketType, AssignType, PutType DEF RxTypeOK
  <2> QED  BY <1>5, <2>2 DEF RxTimeout, RxTypeOK
<1>6. CASE UNCHANGED rxVars
  BY <1>6 DEF rxVars, RxTypeOK
<1> QED  BY <1>1, <1>2, <1>3, <1>4, <1>5, <1>6 DEF RxNext

\* All variables of the receiving half keep their types, for every value of
\* the constants and whatever chunks arrive, across the wrap of the ids too.
THEOREM RxTypeCorrect == RxSpec => []RxTypeOK
<1>1. RxInit => RxTypeOK
  BY IdSpaceAssumption DEF RxInit, RxTypeOK, PacketId
<1>2. RxTypeOK /\ [RxNext]_rxVars => RxTypeOK'
  BY RxTypeStep
<1> QED  BY <1>1, <1>2, PTL DEF RxSpec

-----------------------------------------------------------------------------
(* Order.  As long as the ids of the stream stay in the first quarter of   *)
(* the id space isReceivedBefore is "<" and the branches for wrapped ids    *)
(* are not taken.                                                           *)

NoWrap == MaxId + 1 <= Quarter

\* The fifo holds consecutive ids of the stream and does not start after front.
Fifo(f, front) ==
  /\ \A i \in 1..Len(f) : f[i].id = f[1].id + (i - 1) /\ f[i].id <= MaxId
  /\ f # <<>> => f[1].id <= front
  /\ front <= MaxId + 1

\* the id of the next packet to be reported
Base(f, front) == IF f = <<>> THEN front ELSE f[1].id

\* Reports of ends of packets are in order, all of packets before base.
Log(log, base) ==
  /\ \A i, j \in 1..Len(log) :
       i < j /\ IsFinal(log[i]) /\ IsFinal(log[j]) => log[i].id < log[j].id
  /\ \A i \in 1..Len(log) : IsFinal(log[i]) => log[i].id < base

Received(f, id) == \E i \in 1..Len(f) : f[i].id = id /\ f[i].isReceived

Acks(acks, f, front) ==
  \A a \in 1..Len(acks) : acks[a] < front \/ Received(f, acks[a])

\* the inductive invariant
RxInv ==
  /\ Fifo(rxFifo, frontPacketId)
  /\ Log(rxLog, Base(rxFifo, frontPacketId))
  /\ Acks(rxAcks, rxFifo, frontPacketId)
  /\ rxIsNew => rxFifo = <<>> /\ frontPacketId = 0
-----------------------------------------------------------------------------
(* Ids without the wrap                                                    *)

\* the elements of a concatenation
LEMMA Concatenation ==
  ASSUME NEW S, NEW s \in Seq(S), NEW t \in Seq(S)
  PROVE  /\ Len(s \o t) = Len(s) + Len(t)
         /\ \A i \in 1..Len(s) : (s \o t)[i] = s[i]
         /\ \A i \in (Len(s) + 1)..(Len(s) + Len(t)) : (s \o t)[i] = t[i - Len(s)]
  OBVIOUS

\* the same for a sequence of length m and one of length k
LEMMA Join ==
  ASSUME NEW S, NEW s \in Seq(S), NEW t \in Seq(S),
         NEW m \in Nat, m = Len(s), NEW k \in Nat, k = Len(t)
  PROVE  /\ Len(s \o t) = m + k
         /\ \A i \in 1..m : (s \o t)[i] = s[i]
         /\ \A i \in (m + 1)..(m + k) : (s \o t)[i] = t[i - m]
  OBVIOUS

\* ids up to MaxId + 1 are clear of the wrap
LEMMA SmallIds ==
  ASSUME NoWrap
  PROVE  /\ MaxId \in Nat /\ MaxId + 1 < UINT32_MAX
         /\ MaxId + 1 <= Quarter /\ MaxId + 1 < ThreeQuarters
         /\ \A id \in 0..(MaxId + 1) : id \in PacketId
  BY RxAssumption, IdSpaceAssumption
     DEF NoWrap, PacketId, Quarter, ThreeQuarters

\* without the wrap the comparison by quarters never takes an id for a wrapped one
LEMMA NoneWrapped ==
  ASSUME NoWrap, NEW low, NEW high \in 0..(MaxId + 1)
  PROVE  ~Wrapped(low, high)
  BY SmallIds, QuarterType DEF Wrapped

\* isReceivedBefore is "<"
LEMMA ReceivedBefore ==
  ASSUME NoWrap, NEW front \in 0..(MaxId + 1), NEW id \in 0..MaxId
  PROVE  isReceivedBefore(front, id) <=> id < front
  BY SmallIds, QuarterType DEF isReceivedBefore

\* updateFrontPacketId takes the larger id
LEMMA UpdateFront ==
  ASSUME NoWrap, NEW f \in Seq(RxPacket), NEW front \in PacketId, Fifo(f, front),
         NEW b \in BOOLEAN, NEW id \in 0..(MaxId + 1)
  PROVE  updateFrontPacketId(front, Shadow(f), b, id)
           = IF b /\ front < id THEN id ELSE front
<1>1. front \in 0..(MaxId + 1)
  BY SmallIds DEF Fifo, PacketId
<1>2. \A x \in 0..(MaxId + 1) : Advance(front, x) = IF front < x THEN x ELSE front
  BY <1>1, NoneWrapped DEF Advance
<1>3. CASE f = <<>>
  <2>1. Shadow(f) = <<>>
    BY <1>3 DEF Shadow
  <2> QED  BY <1>2, <2>1 DEF updateFrontPacketId
<1>4. CASE f # <<>>
  <2>1. Shadow(f) # <<>> /\ Head(Shadow(f)) = f[1].id
    BY <1>4 DEF Shadow
  <2>2. f[1].id \in PacketId /\ f[1].id <= front
    <3>1. 1 \in 1..Len(f)
      BY <1>4
    <3> QED  BY <1>4, <3>1, PacketType DEF Fifo
  <2>3. Advance(front, f[1].id) = front
    BY <1>1, <1>2, <2>2, SmallIds, IdSpaceAssumption DEF PacketId
  <2> QED  BY <1>2, <2>1, <2>3 DEF updateFrontPacketId
<1> QED  BY <1>3, <1>4

-----------------------------------------------------------------------------
(* emplace and get                                                         *)

\* the ids of the packets that emplace appends
LEMMA NewPackets ==
  ASSUME NEW back \in Nat, NEW m \in Nat
  PROVE  /\ Len(NewRxPackets(back + 1, back + m)) = m
         /\ \A i \in 1..m : NewRxPackets(back + 1, back + m)[i].id = back + i
         /\ \A i \in 1..m : NewRxPackets(back + 1, back + m)[i].offsetRepeat_B = NoRepeat
<1>1. NewRxPackets(back + 1, back + m) = [i \in 1..m |-> NewRxPacket(back + i)]
  BY DEF NewRxPackets
<1>2. \A i \in 1..m : /\ NewRxPacket(back + i).id = back + i
                      /\ NewRxPacket(back + i).offsetRepeat_B = NoRepeat
  BY DEF NewRxPacket
<1>3. /\ Len(NewRxPackets(back + 1, back + m)) = m
      /\ \A i \in 1..m : NewRxPackets(back + 1, back + m)[i] = NewRxPacket(back + i)
  BY <1>1
<1> QED  BY Zenon, <1>2, <1>3

\* f is a fifo of consecutive ids up to MaxId
Ids(f) == \A i \in 1..Len(f) : f[i].id = f[1].id + (i - 1) /\ f[i].id <= MaxId

\* g is f extended with new packets up to id, to reach at least id
Extends(g, f, id) ==
  /\ g \in Seq(RxPacket) /\ g # <<>>
  /\ Ids(g)
  /\ id <= g[Len(g)].id
  /\ Len(f) <= Len(g)
  /\ \A i \in 1..Len(f) : g[i] = f[i]
  /\ \A i \in 1..Len(g) : i > Len(f) => g[i].id <= id /\ g[i].offsetRepeat_B = NoRepeat

\* emplace keeps the packets of the fifo and extends it with consecutive ids up to id
LEMMA Emplace ==
  ASSUME NoWrap, NEW f \in Seq(RxPacket), Ids(f), NEW id \in 0..MaxId
  PROVE  /\ Extends(emplace(f, id), f, id)
         /\ f = <<>> => emplace(f, id)[1].id = id
<1>0. id \in PacketId /\ MaxId \in Nat /\ id \in Nat /\ id <= MaxId
  BY SmallIds
<1>1. emplace(f, id) \in Seq(RxPacket) /\ emplace(f, id) # <<>>
  BY <1>0, EmplaceType
<1>2. CASE f = <<>>
  <2>1. /\ emplace(f, id) = <<NewRxPacket(id)>> /\ NewRxPacket(id).id = id
        /\ NewRxPacket(id).offsetRepeat_B = NoRepeat
    BY <1>2 DEF emplace, NewRxPacket
  <2> HIDE DEF NewRxPacket
  <2> QED  BY <1>0, <1>1, <1>2, <2>1 DEF Extends, Ids
<1>3. CASE f # <<>>
  <2>0. 1 \in 1..Len(f) /\ Len(f) \in 1..Len(f)
    BY <1>3
  <2>1. PICK back \in Nat :
          back = f[Len(f)].id /\ back <= MaxId /\ back = f[1].id + (Len(f) - 1)
    <3>1. f[Len(f)].id \in Nat
      <4>1. f[Len(f)].id \in PacketId
        BY Zenon, <2>0, PacketType
      <4> QED  BY <4>1, IdSpaceAssumption DEF PacketId
    <3>2. f[Len(f)].id = f[1].id + (Len(f) - 1) /\ f[Len(f)].id <= MaxId
      BY Zenon, <2>0 DEF Ids
    <3> QED  BY Zenon, <3>1, <3>2
  <2>2. CASE back < id
    <3>1. PICK m \in Nat : id = back + m
      <4>1. id - back \in Nat /\ id = back + (id - back)
        BY <1>0, <2>2
      <4> QED  BY <4>1
    <3>2. PICK n \in Nat : n = Len(f) /\ n >= 1
      BY <2>0
    <3>3. PICK a \in Nat : a = f[1].id /\ back = a + (n - 1)
      BY <2>0, <2>1, <3>2, PacketType DEF PacketId
    <3> DEFINE new == NewRxPackets(back + 1, id)
               g   == f \o new
    <3>4. new \in Seq(RxPacket)
      <4>1. back + 1 \in PacketId
        BY <1>0, <2>2, SmallIds
      <4> QED  BY <1>0, <4>1, NewPacketsType
    <3>5. Len(new) = m /\ \A i \in 1..m : new[i].id = back + i /\ new[i].offsetRepeat_B = NoRepeat
      <4>1. back \in Nat /\ new = NewRxPackets(back + 1, back + m)
        BY <1>0, <3>1
      <4> HIDE DEF new
      <4> QED BY Zenon, <4>1, NewPackets
    <3>6. emplace(f, id) = g
      BY <1>3, <2>1, <2>2 DEF emplace
    <3> HIDE DEF new
    <3>7. /\ Len(g) = n + m
          /\ \A i \in 1..n : g[i] = f[i]
          /\ \A i \in (n + 1)..(n + m) : g[i] = new[i - n]
      <4>1. /\ Len(f \o new) = Len(f) + Len(new)
            /\ \A i \in 1..Len(f) : (f \o new)[i] = f[i]
            /\ \A i \in (Len(f) + 1)..(Len(f) + Len(new)) :
                 (f \o new)[i] = new[i - Len(f)]
        BY Zenon, <3>4, Concatenation
      <4>2. Len(f) = n /\ Len(new) = m
        BY Zenon, <3>2, <3>5
      <4> QED  BY Zenon, <4>1, <4>2
    <3> HIDE DEF g
    <3>8. \A i \in (n + 1)..(n + m) : /\ g[i].id = back + (i - n)
                                     /\ g[i].offsetRepeat_B = NoRepeat
      <4> SUFFICES ASSUME NEW i \in (n + 1)..(n + m)
                   PROVE  g[i].id = back + (i - n) /\ g[i].offsetRepeat_B = NoRepeat
        BY Zenon
      <4>1. i - n \in 1..m
        OBVIOUS
      <4> QED  BY Zenon, <3>5, <3>7, <4>1
    <3>9. ASSUME NEW i \in 1..(n + m)
          PROVE  g[i].id = f[1].id + (i - 1) /\ g[i].id <= MaxId
      <4>1. CASE i \in 1..n
        BY <3>2, <3>7, <4>1 DEF Ids
      <4>2. CASE i \in (n + 1)..(n + m)
        <5>1. g[i].id = back + (i - n)
          BY <3>8, <4>2
        <5>2. back + (i - n) = a + (i - 1)
          <6>1. back = a + (n - 1)
            BY <3>3
          <6> QED  BY <6>1
        <5>3. back + (i - n) <= MaxId
          BY <1>0, <3>1, <4>2
        <5> QED  BY <3>3, <5>1, <5>2, <5>3
      <4> QED  BY <4>1, <4>2
    <3>10. g[n + m].id = id /\ g[1] = f[1]
      BY <1>0, <2>2, <3>1, <3>2, <3>7, <3>8
    <3>11. /\ id <= g[Len(g)].id /\ Len(f) <= Len(g)
           /\ \A i \in 1..Len(f) : g[i] = f[i]
      BY <1>0, <3>2, <3>7, <3>10
    <3>12. Ids(g)
      BY <3>7, <3>9, <3>10 DEF Ids
    <3>13. \A i \in 1..Len(g) : i > Len(f) => g[i].id <= id /\ g[i].offsetRepeat_B = NoRepeat
      <4> SUFFICES ASSUME NEW i \in 1..(n + m), i > n
                   PROVE  g[i].id <= id /\ g[i].offsetRepeat_B = NoRepeat
        BY Zenon, <3>2, <3>7
      <4>1. i \in (n + 1)..(n + m) /\ back + (i - n) <= id
        BY <3>1, <3>2
      <4> QED  BY <3>8, <4>1
    <3> QED  BY Zenon, <1>1, <1>3, <3>6, <3>11, <3>12, <3>13 DEF Extends
  <2>3. CASE ~(back < id)
    <3>1. emplace(f, id) = f
      BY <1>0, <1>3, <2>1, <2>3, SmallIds, QuarterType DEF emplace
    <3>2. id <= f[Len(f)].id /\ Len(f) <= Len(f) /\ \A i \in 1..Len(f) : ~(i > Len(f))
      BY <1>0, <2>1, <2>3
    <3> QED  BY Zenon, <1>1, <1>3, <3>1, <3>2 DEF Extends
  <2> QED  BY <1>0, <2>2, <2>3
<1> QED  BY <1>2, <1>3

\* get(id) leaves a fifo that starts where it started and holds id.
LEMMA Get ==
  ASSUME NoWrap, NEW f \in Seq(RxPacket), NEW front \in PacketId, Fifo(f, front),
         NEW id \in 0..MaxId, front <= id
  PROVE  /\ Extends(get(f, front, id), f, id)
         /\ Fifo(get(f, front, id), front)
         /\ Base(get(f, front, id), front) = Base(f, front)
<1>0. id \in PacketId /\ MaxId \in Nat /\ front \in 0..MaxId
  BY SmallIds DEF PacketId
<1>1. ~Wrapped(id, front)
  BY <1>0, NoneWrapped
<1>2. Ids(f)
  BY DEF Fifo, Ids
<1>3. CASE front < id
  <2> DEFINE g == emplace(f, front)
             h == emplace(g, id)
  <2>1. get(f, front, id) = h
    BY <1>3 DEF get
  <2>2. Extends(g, f, front) /\ (f = <<>> => g[1].id = front)
    BY <1>0, <1>2, Emplace
  <2>3. Extends(h, g, id)
    BY <1>0, <2>2, Emplace DEF Extends
  <2> HIDE DEF g, h
  <2>4. Extends(h, f, id)
    <3>1. Len(f) \in Nat /\ Len(g) \in Nat /\ Len(h) \in Nat
      BY <2>2, <2>3 DEF Extends
    <3>2. Len(f) <= Len(g) /\ Len(g) <= Len(h)
      BY <2>2, <2>3 DEF Extends
    <3>3. \A i \in 1..Len(f) : h[i] = f[i]
      BY <3>1, <3>2, <2>2, <2>3 DEF Extends
    <3>4. Len(f) <= Len(h)
      BY <3>1, <3>2
    <3>5. \A i \in 1..Len(h) : i > Len(f) => h[i].id <= id /\ h[i].offsetRepeat_B = NoRepeat
      <4> SUFFICES ASSUME NEW i \in 1..Len(h), i > Len(f)
                   PROVE  h[i].id <= id /\ h[i].offsetRepeat_B = NoRepeat
        BY Zenon
      <4>1. CASE i > Len(g)
        BY Zenon, <2>3, <4>1 DEF Extends
      <4>2. CASE i \in 1..Len(g)
        <5>1. h[i] = g[i] /\ g[i].id <= front /\ g[i].offsetRepeat_B = NoRepeat
          BY Zenon, <2>2, <2>3, <4>2 DEF Extends
        <5>2. h[i].id \in Nat
          BY <2>3, PacketType DEF Extends, PacketId
        <5> QED  BY <1>0, <1>3, <5>1, <5>2
      <4> QED  BY <3>1, <4>1, <4>2
    <3> QED  BY Zenon, <2>3, <3>3, <3>4, <3>5 DEF Extends
  <2>5. h # <<>> /\ h[1] = g[1] /\ (f # <<>> => h[1] = f[1])
    BY <2>2, <2>3, <2>4 DEF Extends
  <2>6. Base(h, front) = Base(f, front) /\ h[1].id <= front
    BY <2>2, <2>5, <1>0 DEF Base, Fifo, PacketId
  <2> QED  BY <2>1, <2>3, <2>4, <2>5, <2>6 DEF Extends, Ids, Fifo
<1>4. CASE front = id
  <2> DEFINE h == emplace(f, id)
  <2>1. get(f, front, id) = h
    BY <1>0, <1>1, <1>4 DEF get
  <2>2. Extends(h, f, id) /\ (f = <<>> => h[1].id = id)
    BY <1>0, <1>2, Emplace
  <2> HIDE DEF h
  <2>3. h # <<>> /\ (f # <<>> => h[1] = f[1])
    BY <2>2 DEF Extends
  <2>4. Base(h, front) = Base(f, front) /\ h[1].id <= front
    BY <1>0, <1>4, <2>2, <2>3 DEF Base, Fifo, PacketId
  <2> QED  BY <2>1, <2>2, <2>3, <2>4 DEF Extends, Ids, Fifo
<1> QED  BY <1>0, <1>3, <1>4

\* get(id) finds the packet: its assert(false) is not reached.
LEMMA Index ==
  ASSUME NoWrap, NEW f \in Seq(RxPacket), NEW front \in PacketId, Fifo(f, front),
         NEW id \in 0..MaxId, front <= id, f # <<>>, id <= f[Len(f)].id
  PROVE  indexOf(f, id) \in 1..Len(f) /\ f[indexOf(f, id)].id = id
<1>0. 1 \in 1..Len(f) /\ Len(f) \in 1..Len(f) /\ MaxId \in Nat
  BY SmallIds
<1>1. PICK a \in Nat : a = f[1].id
  BY <1>0, PacketType DEF PacketId
<1>2. PICK n \in Nat : n = Len(f)
  BY <1>0
<1>3. \A j \in 1..n : f[j].id = a + (j - 1)
  BY <1>1, <1>2 DEF Fifo
<1>4. a <= id /\ id <= a + (n - 1)
  <2>1. a <= front
    BY <1>1 DEF Fifo
  <2>2. id <= f[n].id /\ f[n].id = a + (n - 1)
    BY <1>0, <1>2, <1>3
  <2> QED  BY <1>0, <2>1, <2>2 DEF PacketId
<1>5. PICK i \in 1..n : id = a + (i - 1)
  <2>1. id - a + 1 \in 1..n /\ id = a + ((id - a + 1) - 1)
    BY <1>0, <1>4
  <2> QED  BY <2>1
<1>6. f[i].id = id /\ \A j \in (i + 1)..n : f[j].id # id
  BY <1>0, <1>3, <1>5
<1>7. \E j \in 1..Len(f) : LastAt(f, id, j)
  BY <1>2, <1>6 DEF LastAt
<1>8. LastAt(f, id, indexOf(f, id)) /\ indexOf(f, id) \in 1..Len(f)
  BY SMTT(30), <1>7 DEF indexOf
<1> QED  BY <1>8 DEF LastAt
-----------------------------------------------------------------------------
(* processRxFifo                                                           *)

\* frontPacketId after k packets are dropped
LEMMA FrontDropped ==
  ASSUME NoWrap, NEW f \in Seq(RxPacket), NEW front \in PacketId, Fifo(f, front),
         NEW k \in 1..Len(f)
  PROVE  FrontAfter(f, front, k) = IF front < f[k].id + 1 THEN f[k].id + 1 ELSE front
<1>1. PICK x \in Nat : x = f[k].id /\ x <= MaxId
  BY SMTT(30), PacketType DEF Fifo, PacketId
<1>2. MaxId \in Nat /\ x \in 0..(MaxId + 1) /\ x + 1 \in 0..(MaxId + 1)
  BY <1>1, SmallIds
<1>3. front \in 0..(MaxId + 1)
  BY <1>2 DEF Fifo, PacketId
<1>4. NextId(x) = x + 1
  BY <1>1, <1>2, SmallIds DEF NextId
<1>5. \A y, z \in 0..(MaxId + 1) : Advance(y, z) = IF y < z THEN z ELSE y
  BY <1>2, NoneWrapped DEF Advance
<1>6. FrontAfter(f, front, k) = Advance(Advance(front, x), x + 1)
  BY <1>1, <1>4 DEF FrontAfter, updateFrontPacketId
<1>7. Advance(Advance(front, x), x + 1) = IF front < x + 1 THEN x + 1 ELSE front
  BY <1>2, <1>3, <1>5
<1> QED  BY <1>1, <1>6, <1>7

\* g and h are a fifo and a front that follow f and front
Dropped(f, front, log, k, g, h) ==
  /\ Fifo(g, h)
  /\ Log(log \o Finals(f, k), Base(g, h))
  /\ h \in PacketId /\ front <= h
  /\ \A id \in PacketId :
       id < front \/ Received(f, id) => id < h \/ Received(g, id)

\* Whatever number k of packets is dropped, the fifo stays consecutive, the
\* reports stay in order and a packet that was settled stays settled.
LEMMA Drop ==
  ASSUME NoWrap, NEW f \in Seq(RxPacket), NEW front \in PacketId, Fifo(f, front),
         NEW log \in Seq(Call), Log(log, Base(f, front)), NEW k \in 0..Len(f)
  PROVE  Dropped(f, front, log, k, SubSeq(f, k + 1, Len(f)), FrontAfter(f, front, k))
<1> SUFFICES ASSUME NEW g, g = SubSeq(f, k + 1, Len(f)),
                    NEW h, h = FrontAfter(f, front, k)
             PROVE  Dropped(f, front, log, k, g, h)
  BY Zenon
<1> USE DEF Dropped
<1>1. CASE k = 0
  <2>1. g = f
    BY <1>1
  <2>2. h = front
    BY <1>1 DEF FrontAfter
  <2>3. log \o Finals(f, k) = log
    BY <1>1 DEF Finals
  <2>4. front <= front
    BY IdSpaceAssumption DEF PacketId
  <2> QED  BY ZenonT(60), <2>1, <2>2, <2>3, <2>4
<1>2. CASE k \in 1..Len(f)
  <2>0. MaxId \in Nat /\ UINT32_MAX \in Nat /\ front \in Nat
    BY SmallIds, IdSpaceAssumption DEF PacketId
  <2>1. PICK n \in Nat : n = Len(f) /\ k \in 1..n
    BY <1>2
  <2>2. PICK a \in Nat : a = f[1].id /\ a <= front
    <3>1. 1 \in 1..Len(f) /\ f # <<>>
      BY <1>2
    <3>2. f[1].id \in Nat
      BY SMTT(30), <3>1, PacketType DEF PacketId
    <3>3. f[1].id <= front
      BY <3>1 DEF Fifo
    <3> QED  BY SMTT(30), <3>2, <3>3
  <2>3. \A i \in 1..n : f[i].id = a + (i - 1) /\ f[i].id <= MaxId
    BY <2>1, <2>2 DEF Fifo
  <2>4. h = IF front < a + k THEN a + k ELSE front
    <3>1. f[k].id = a + (k - 1)
      BY <2>1, <2>3
    <3>2. (a + (k - 1)) + 1 = a + k
      BY <2>1
    <3> QED  BY ZenonT(60), <1>2, <3>1, <3>2, FrontDropped
  <2>5. h \in PacketId
    BY FrontAfterType
  <2>6. h \in Nat /\ front <= h /\ a + k <= h /\ h <= MaxId + 1
    <3>1. a + (k - 1) <= MaxId
      BY SMTT(30), <2>1, <2>3
    <3>2. front <= MaxId + 1
      BY DEF Fifo
    <3> QED  BY SMTT(30), <2>0, <2>1, <2>4, <3>1, <3>2
  <2>7. /\ Len(g) = n - k
        /\ \A i \in 1..(n - k) : g[i] = f[k + i]
    BY <2>1
  <2>8. \A i \in 1..(n - k) : g[i].id = (a + k) + (i - 1) /\ g[i].id <= MaxId
    <3> SUFFICES ASSUME NEW i \in 1..(n - k)
                 PROVE  g[i].id = (a + k) + (i - 1) /\ g[i].id <= MaxId
      BY Zenon
    <3>1. k + i \in 1..n /\ a + ((k + i) - 1) = (a + k) + (i - 1)
      BY <2>1
    <3> QED  BY SMTT(30), <2>3, <2>7, <3>1
  <2>9. Fifo(g, h)
    <3>1. g # <<>> => 1 \in 1..(n - k)
      BY <2>1, <2>7
    <3>2. g # <<>> => g[1].id = a + k
      BY <2>1, <2>8, <3>1
    <3>3. g # <<>> => g[1].id <= h
      BY SMTT(30), <2>6, <3>2
    <3>4. \A i \in 1..Len(g) : g[i].id = g[1].id + (i - 1)
      <4> SUFFICES ASSUME NEW i \in 1..(n - k) PROVE g[i].id = g[1].id + (i - 1)
        BY Zenon, <2>7
      <4>1. Len(g) # 0
        BY <2>1, <2>7
      <4>2. g # <<>>
        BY ZenonT(60), <4>1
      <4> QED  BY Zenon, <2>8, <3>2, <4>2
    <3>5. \A i \in 1..Len(g) : g[i].id <= MaxId
      BY <2>7, <2>8
    <3> QED  BY Zenon, <2>6, <3>3, <3>4, <3>5 DEF Fifo
  <2>10. Base(g, h) \in Nat /\ a + k <= Base(g, h)
    <3>1. CASE g = <<>>
      BY <2>6, <3>1 DEF Base
    <3>2. CASE g # <<>>
      <4>1. 1 \in 1..(n - k)
        BY <2>1, <2>7, <3>2
      <4>2. g[1].id = a + k
        BY SMTT(30), <2>1, <2>8, <4>1
      <4> QED  BY <2>1, <3>2, <4>2 DEF Base
    <3> QED  BY <3>1, <3>2
  <2>11. Log(log \o Finals(f, k), Base(g, h))
    <3> DEFINE new == log \o Finals(f, k)
    <3>1. PICK m \in Nat : m = Len(log)
      OBVIOUS
    <3>2. Finals(f, k) \in Seq(Call) /\ Len(Finals(f, k)) = k
      BY <1>2, FinalsType DEF Finals
    <3>3. \A i \in 1..k : Finals(f, k)[i].id = a + (i - 1)
      <4> SUFFICES ASSUME NEW i \in 1..k PROVE Finals(f, k)[i].id = a + (i - 1)
        BY Zenon
      <4>1. Finals(f, k)[i].id = f[i].id
        BY DEF Finals, Final
      <4> QED  BY <2>1, <2>3, <4>1
    <3>4. /\ Len(new) = m + k
          /\ \A i \in 1..m : new[i] = log[i]
          /\ \A i \in (m + 1)..(m + k) : new[i] = Finals(f, k)[i - m]
      <4> DEFINE t == Finals(f, k)
      <4>1. t \in Seq(Call) /\ k = Len(t) /\ k \in Nat
        BY <2>1, <3>2
      <4> HIDE DEF t
      <4>2. /\ Len(log \o t) = m + k
            /\ \A i \in 1..m : (log \o t)[i] = log[i]
            /\ \A i \in (m + 1)..(m + k) : (log \o t)[i] = t[i - m]
        BY <3>1, <4>1, Join
      <4> QED  BY Zenon, <4>2 DEF t
    <3>5. \A i \in (m + 1)..(m + k) : new[i].id = a + (i - (m + 1))
      <4> SUFFICES ASSUME NEW i \in (m + 1)..(m + k)
                   PROVE  new[i].id = a + (i - (m + 1))
        BY ZenonT(60)
      <4>1. i - m \in 1..k /\ a + ((i - m) - 1) = a + (i - (m + 1))
        BY <2>1
      <4> QED  BY Zenon, <3>3, <3>4, <4>1
    <3>6. Base(f, front) = a
      BY <2>1, <2>2 DEF Base
    <3>7. \A i \in 1..m : IsFinal(new[i]) => new[i].id < a
      BY <3>1, <3>4, <3>6 DEF Log
    <3>8. \A i, j \in 1..m : i < j /\ IsFinal(new[i]) /\ IsFinal(new[j])
                               => new[i].id < new[j].id
      BY SMTT(30), <3>1, <3>4 DEF Log
    <3>9. \A i \in 1..(m + k) : new[i].id \in Nat
      <4>1. \A i \in 1..(m + k) : new[i] \in Call
        BY <3>1, <3>2, <3>4
      <4>2. \A c \in Call : c.id \in Nat
        BY <2>0 DEF Call, PacketId
      <4> QED  BY ZenonT(60), <4>1, <4>2
    <3> HIDE DEF new
    <3>10. ASSUME NEW i \in 1..(m + k), NEW j \in 1..(m + k),
                  i < j, IsFinal(new[i]), IsFinal(new[j])
           PROVE  new[i].id < new[j].id
      <4>1. CASE j <= m
        <5>1. i \in 1..m /\ j \in 1..m
          BY <2>1, <3>10, <4>1
        <5> QED  BY ZenonT(60), <3>8, <3>10, <5>1
      <4>2. CASE i <= m /\ j > m
        <5>1. new[i].id < a /\ i \in 1..m
          BY <2>1, <3>7, <3>10, <4>2
        <5>2. new[j].id = a + (j - (m + 1)) /\ j - (m + 1) >= 0
          BY <2>1, <3>5, <4>2
        <5> QED  BY SMTT(30), <2>1, <3>9, <5>1, <5>2
      <4>3. CASE i > m
        <5>1. new[i].id = a + (i - (m + 1)) /\ new[j].id = a + (j - (m + 1))
          BY <2>1, <3>5, <3>10, <4>3
        <5> QED  BY <2>1, <3>9, <3>10, <5>1
      <4> QED  BY SMTT(30), <2>1, <3>10, <4>1, <4>2, <4>3
    <3>11. ASSUME NEW i \in 1..(m + k), IsFinal(new[i])
           PROVE  new[i].id < Base(g, h)
      <4>1. CASE i <= m
        <5>1. new[i].id < a
          BY <2>1, <3>7, <3>11, <4>1
        <5> QED  BY SMTT(30), <2>1, <2>10, <3>9, <5>1
      <4>2. CASE i > m
        <5>1. new[i].id = a + (i - (m + 1)) /\ i - (m + 1) < k
          BY SMTT(30), <2>1, <3>5, <4>2
        <5> QED  BY SMTT(30), <2>1, <2>10, <3>9, <5>1
      <4> QED  BY <2>1, <4>1, <4>2
    <3> QED  BY Zenon, <3>4, <3>10, <3>11 DEF Log, new
  <2>12. ASSUME NEW id \in PacketId, id < front \/ Received(f, id)
         PROVE  id < h \/ Received(g, id)
    <3>1. id \in Nat
      BY DEF PacketId
    <3>2. CASE id < front
      BY <2>0, <2>6, <3>1, <3>2
    <3>3. CASE Received(f, id)
      <4>1. PICK i \in 1..n : f[i].id = id /\ f[i].isReceived
        BY <2>1, <3>3 DEF Received
      <4>2. CASE i <= k
        <5>1. id = a + (i - 1)
          BY <2>3, <4>1
        <5> QED  BY <2>1, <2>6, <4>2, <5>1
      <4>3. CASE i > k
        <5>1. i - k \in 1..(n - k) /\ k + (i - k) = i
          BY <2>1, <4>3
        <5>2. g[i - k] = f[i]
          BY Zenon, <2>7, <5>1
        <5> QED  BY Zenon, <2>7, <4>1, <5>1, <5>2 DEF Received
      <4> QED  BY <2>1, <4>2, <4>3
    <3> QED  BY <2>12, <3>2, <3>3
  <2> QED  BY <2>5, <2>6, <2>9, <2>11, <2>12
<1> QED  BY <1>1, <1>2
-----------------------------------------------------------------------------
(* What the handlers do to the invariant                                   *)

\* The invariant, before or after a step, on the state it speaks of.
State(f, front, acks, log) ==
  /\ f \in Seq(RxPacket) /\ front \in PacketId
  /\ acks \in Seq(PacketId) /\ log \in Seq(Call)
  /\ Fifo(f, front)
  /\ Log(log, Base(f, front))
  /\ Acks(acks, f, front)

\* processRxFifo preserves the invariant on any fifo that satisfies it
LEMMA Process ==
  ASSUME NoWrap, NEW f, NEW front, NEW log, State(f, front, rxAcks', log),
         processRxFifo(f, front, log)
  PROVE  /\ State(rxFifo', frontPacketId', rxAcks', rxLog')
         /\ front <= frontPacketId'
<1>0. /\ f \in Seq(RxPacket) /\ front \in PacketId
      /\ rxAcks' \in Seq(PacketId) /\ log \in Seq(Call)
      /\ Fifo(f, front) /\ Log(log, Base(f, front)) /\ Acks(rxAcks', f, front)
  BY DEF State
<1>1. PICK k \in 0..Len(f) :
        /\ rxFifo' = SubSeq(f, k + 1, Len(f))
        /\ frontPacketId' = FrontAfter(f, front, k)
        /\ rxLog' = log \o Finals(f, k)
  BY ZenonT(60) DEF processRxFifo
<1>2. /\ Fifo(rxFifo', frontPacketId')
      /\ Log(rxLog', Base(rxFifo', frontPacketId'))
      /\ front <= frontPacketId'
      /\ \A id \in PacketId : id < front \/ Received(f, id)
           => id < frontPacketId' \/ Received(rxFifo', id)
  <2>1. Dropped(f, front, log, k, rxFifo', frontPacketId')
    BY <1>0, <1>1, Drop
  <2> QED  BY <1>1, <2>1 DEF Dropped
<1>3. Acks(rxAcks', rxFifo', frontPacketId')
  <2> SUFFICES ASSUME NEW a \in 1..Len(rxAcks')
               PROVE  rxAcks'[a] < frontPacketId' \/ Received(rxFifo', rxAcks'[a])
    BY DEF Acks
  <2>1. rxAcks'[a] \in PacketId
    BY <1>0
  <2>2. rxAcks'[a] < front \/ Received(f, rxAcks'[a])
    BY <1>0 DEF Acks
  <2> QED  BY <1>2, <2>1, <2>2
<1>4. /\ rxFifo' \in Seq(RxPacket) /\ frontPacketId' \in PacketId
      /\ rxLog' \in Seq(Call)
  BY <1>0, ProcessType
<1> QED  BY <1>0, <1>2, <1>3, <1>4 DEF State

\* Assignments to a packet that keep its id, and isReceived once it is set,
\* keep the invariant.
LEMMA Assign ==
  ASSUME NEW f, NEW front, NEW acks, NEW log, State(f, front, acks, log),
         NEW i \in 1..Len(f), NEW p \in RxPacket,
         p.id = f[i].id, f[i].isReceived => p.isReceived
  PROVE  /\ State(Put(f, i, p), front, acks, log)
         /\ Len(Put(f, i, p)) = Len(f)
         /\ \A j \in 1..Len(f) : Put(f, i, p)[j].id = f[j].id
         /\ Put(f, i, p)[i] = p
<1>0. /\ f \in Seq(RxPacket) /\ front \in PacketId
      /\ acks \in Seq(PacketId) /\ log \in Seq(Call)
      /\ Fifo(f, front) /\ Log(log, Base(f, front)) /\ Acks(acks, f, front)
  BY ZenonT(60) DEF State
<1> DEFINE g == Put(f, i, p)
<1>1. /\ g \in Seq(RxPacket) /\ Len(g) = Len(f) /\ g[i] = p
      /\ \A j \in 1..Len(f) : j # i => g[j] = f[j]
  BY ZenonT(60), <1>0, PutType
<1> HIDE DEF g
<1>2. \A j \in 1..Len(f) : g[j].id = f[j].id /\ (f[j].isReceived => g[j].isReceived)
  BY <1>1
<1>3. f # <<>> /\ g # <<>> /\ 1 \in 1..Len(f)
  BY <1>0, <1>1
<1>4. Fifo(g, front)
  BY <1>0, <1>1, <1>2, <1>3 DEF Fifo
<1>5. Base(g, front) = Base(f, front)
  BY <1>2, <1>3 DEF Base
<1>6. Acks(acks, g, front)
  BY <1>0, <1>1, <1>2 DEF Acks, Received
<1> QED  BY SMTT(30), <1>0, <1>1, <1>2, <1>4, <1>5, <1>6 DEF State, g

\* An ack is queued for a packet that is settled.
LEMMA Acknowledge ==
  ASSUME NEW f, NEW front, NEW acks, NEW log, State(f, front, acks, log),
         NEW id \in PacketId, id < front \/ Received(f, id)
  PROVE  State(f, front, acknowledge(acks, id), log)
<1>0. acks \in Seq(PacketId) /\ Acks(acks, f, front)
  BY DEF State
<1>1. CASE acknowledge(acks, id) = acks
  BY <1>1
<1>2. CASE acknowledge(acks, id) = Append(acks, id)
  <2> DEFINE new == Append(acks, id)
  <2>1. /\ new \in Seq(PacketId) /\ Len(new) = Len(acks) + 1
        /\ \A a \in 1..Len(acks) : new[a] = acks[a]
        /\ new[Len(acks) + 1] = id
    BY <1>0
  <2>2. \A a \in 1..Len(new) : a \in 1..Len(acks) \/ a = Len(acks) + 1
    BY <1>0, <2>1
  <2> HIDE DEF new
  <2>3. Acks(new, f, front)
    BY SMTT(30), <1>0, <2>1, <2>2 DEF Acks
  <2> QED  BY <1>2, <2>1, <2>3 DEF State, new
<1> QED  BY <1>1, <1>2 DEF acknowledge

\* Handing over a piece ('p') does not report the end of a packet.
LEMMA HandOver ==
  ASSUME NEW f, NEW front, NEW acks, NEW log, State(f, front, acks, log),
         NEW e \in Call, ~IsFinal(e)
  PROVE  State(f, front, acks, Append(log, e))
<1>0. log \in Seq(Call) /\ Log(log, Base(f, front))
  BY DEF State
<1> DEFINE new == Append(log, e)
<1>1. /\ new \in Seq(Call) /\ Len(new) = Len(log) + 1
      /\ \A i \in 1..Len(log) : new[i] = log[i]
      /\ new[Len(log) + 1] = e
  BY <1>0
<1>2. \A i \in 1..Len(new) : IsFinal(new[i]) => i \in 1..Len(log)
  BY SMTT(30), <1>0, <1>1
<1> HIDE DEF new
<1>3. Log(new, Base(f, front))
  BY SMTT(30), <1>0, <1>1, <1>2 DEF Log
<1> QED  BY <1>1, <1>3 DEF State, new

\* The packet at the front is handed over at once and dropped.
LEMMA Deliver ==
  ASSUME NoWrap, NEW f, NEW front, NEW acks, NEW log, State(f, front, acks, log),
         f # <<>>, NEW e \in Call, e.id = f[1].id, IsFinal(e)
  PROVE  /\ State(Tail(f), FrontAfter(f, front, 1), acks, Append(log, e))
         /\ front <= FrontAfter(f, front, 1)
         /\ f[1].id < FrontAfter(f, front, 1)
<1>0. /\ f \in Seq(RxPacket) /\ front \in PacketId
      /\ acks \in Seq(PacketId) /\ log \in Seq(Call)
      /\ Fifo(f, front) /\ Log(log, Base(f, front)) /\ Acks(acks, f, front)
  BY DEF State
<1> DEFINE g == Tail(f)
           h == FrontAfter(f, front, 1)
           l == log \o Finals(f, 1)
           m == Append(log, e)
<1>1. /\ g = SubSeq(f, 1 + 1, Len(f)) /\ g \in Seq(RxPacket)
      /\ 1 \in 0..Len(f) /\ 1 \in 1..Len(f)
  BY <1>0
<1>2. Dropped(f, front, log, 1, g, h)
  BY ZenonT(60), <1>0, <1>1, Drop
<1>3. f[1].id < h
  <2>1. PICK x \in Nat : x = f[1].id
    BY <1>0, <1>1, PacketType DEF PacketId
  <2>2. PICK y \in Nat : y = front
    BY <1>0, IdSpaceAssumption DEF PacketId
  <2>3. h = IF y < x + 1 THEN x + 1 ELSE y
    BY <1>0, <1>1, <2>1, <2>2, FrontDropped
  <2>4. x < (IF y < x + 1 THEN x + 1 ELSE y)
    OBVIOUS
  <2> QED  BY SMTT(30), <2>1, <2>3, <2>4
<1>4. /\ l \in Seq(Call) /\ m \in Seq(Call)
      /\ Len(l) = Len(log) + 1 /\ Len(m) = Len(log) + 1
      /\ \A i \in 1..Len(log) : l[i] = log[i] /\ m[i] = log[i]
      /\ l[Len(log) + 1] = Final(f[1]) /\ m[Len(log) + 1] = e
  <2>1. Finals(f, 1) = <<Final(f[1])>> /\ Final(f[1]) \in Call
    <3>1. Finals(f, 1) = [i \in 1..1 |-> Final(f[i])]
      BY DEF Finals
    <3>2. Finals(f, 1) \in Seq(Call) /\ 1 \in 1..1
      BY <1>0, <1>1, FinalsType
    <3>3. Finals(f, 1) = <<Final(f[1])>>
      BY <3>1
    <3>4. Final(f[1]) \in Call
      BY SMTT(30), <3>1, <3>2
    <3> QED  BY <3>3, <3>4
  <2> DEFINE c == Final(f[1])
  <2>2. l = Append(log, c) /\ c \in Call
    <3>1. c \in Call /\ l = log \o <<c>>
      BY ZenonT(60), <1>0, <2>1
    <3> HIDE DEF c
    <3> QED BY <1>0, <3>1
  <2> HIDE DEF c, l
  <2>3. ASSUME NEW x \in Call
        PROVE  /\ Append(log, x) \in Seq(Call)
               /\ Len(Append(log, x)) = Len(log) + 1
               /\ \A i \in 1..Len(log) : Append(log, x)[i] = log[i]
               /\ Append(log, x)[Len(log) + 1] = x
    BY <1>0
  <2> QED  BY <2>2, <2>3 DEF c
<1>5. Final(f[1]).id = e.id /\ IsFinal(Final(f[1]))
  BY DEF Final, IsFinal
<1> HIDE DEF g, h, l, m
<1>6. \A i \in 1..Len(m) : l[i].id = m[i].id /\ (IsFinal(l[i]) <=> IsFinal(m[i]))
  <2>1. \A i \in 1..Len(m) : i \in 1..Len(log) \/ i = Len(log) + 1
    BY <1>0, <1>4
  <2> QED  BY SMTT(30), <1>4, <1>5, <2>1
<1>7. Log(l, Base(g, h))
  BY <1>2 DEF Dropped, l
<1>8. Log(m, Base(g, h))
  BY <1>4, <1>6, <1>7 DEF Log
<1>9. Acks(acks, g, h)
  BY SMTT(30), <1>0, <1>2 DEF Acks, Dropped
<1> QED  BY SMTT(60), ZenonT(60), <1>0, <1>1, <1>2, <1>3, <1>4, <1>8, <1>9 DEF State, Dropped, g, h, m

\* the invariant after the step, with the front id no smaller than before
Kept(front) ==
  State(rxFifo', frontPacketId', rxAcks', rxLog') /\ front <= frontPacketId'

\* readChunk of a SmallPacket preserves the invariant
LEMMA SmallPacket ==
  ASSUME NoWrap, NEW c \in DataChunk, NEW f, NEW front,
         State(f, front, rxAcks, rxLog), NEW i \in 1..Len(f), f[i].id = c.id,
         ReadSmallPacket(c, f, i, front)
  PROVE  Kept(front)
<1> DEFINE p == [Renewed(f[i]) EXCEPT !.isReceived = TRUE]
           q == [p EXCEPT !.size_B = c.size, !.hasCopy = TRUE,
                          !.bytes = 0..(c.size - 1)]
           e == [id |-> c.id, status |-> "s", whole |-> TRUE]
<1>0. f \in Seq(RxPacket) /\ front \in PacketId /\ Fifo(f, front)
  BY DEF State
<1>1. c.id \in PacketId /\ c.size \in Nat
  BY ChunkType DEF ReadSmallPacket
<1>2. f[i] \in RxPacket
  BY <1>0
<1>3. p \in RxPacket /\ p.id = c.id /\ p.isReceived
  <2>1. p \in RxPacket
    BY ZenonT(60), <1>2, AssignType
  <2>2. p.id = f[i].id /\ p.isReceived
    BY <1>2 DEF Renewed, RxPacket
  <2> QED  BY <2>1, <2>2
<1> HIDE DEF p
<1>4. q \in RxPacket /\ q.id = c.id /\ q.isReceived
  <2>1. 0..(c.size - 1) \in SUBSET Nat
    BY SMTT(30), <1>1
  <2>2. q \in RxPacket
    BY ZenonT(60), <1>1, <1>3, <2>1, AssignType
  <2>3. q.id = p.id /\ q.isReceived = p.isReceived
    BY ZenonT(60), <1>3 DEF RxPacket
  <2> QED  BY <1>3, <2>2, <2>3
<1> HIDE DEF q
<1>5. ASSUME NEW r \in {p, q} PROVE
        /\ State(Put(f, i, r), front, rxAcks', rxLog)
        /\ Len(Put(f, i, r)) = Len(f)
        /\ \A j \in 1..Len(f) : Put(f, i, r)[j].id = f[j].id
  <2> DEFINE g == Put(f, i, r)
  <2>1. /\ State(g, front, rxAcks, rxLog) /\ Len(g) = Len(f) /\ g[i] = r
        /\ \A j \in 1..Len(f) : g[j].id = f[j].id
    <3>1. r \in RxPacket /\ r.id = f[i].id /\ r.isReceived
      BY Zenon, <1>3, <1>4
    <3>2. f[i].isReceived => r.isReceived
      BY Zenon, <3>1
    <3>3. State(g, front, rxAcks, rxLog)
      BY ZenonT(60), <3>1, <3>2, Assign
    <3>4. Len(g) = Len(f) /\ g[i] = r /\ \A j \in 1..Len(f) : j # i => g[j] = f[j]
      BY ZenonT(60), <1>0, <3>1, PutType
    <3> QED BY Zenon, <3>1, <3>3, <3>4
  <2> HIDE DEF g
  <2>2. Received(g, c.id)
    BY SMTT(30), <1>3, <1>4, <2>1 DEF Received
  <2>3. State(g, front, acknowledge(rxAcks, c.id), rxLog)
    BY <1>1, <2>1, <2>2, Acknowledge
  <2>4. rxAcks' \in {rxAcks, acknowledge(rxAcks, c.id)}
    BY SMTT(30) DEF ReadSmallPacket
  <2> QED  BY SMTT(60), ZenonT(60), <2>1, <2>3, <2>4 DEF g
<1>6. CASE \E r \in {p, q} : processRxFifo(Put(f, i, r), front, rxLog)
  <2> PICK r \in {p, q} : processRxFifo(Put(f, i, r), front, rxLog)
    BY <1>6
  <2> QED  BY ZenonT(60), <1>5, Process DEF Kept
<1>7. CASE /\ f[1].id = c.id
           /\ processRxFifo(Tail(Put(f, i, p)),
                updateFrontPacketId(front, Shadow(f), TRUE, NextId(c.id)),
                Append(rxLog, e))
  <2> DEFINE g == Put(f, i, p)
  <2>1. /\ State(g, front, rxAcks', rxLog) /\ Len(g) = Len(f)
        /\ \A j \in 1..Len(f) : g[j].id = f[j].id
    BY <1>5
  <2>2. e \in Call /\ IsFinal(e) /\ e.id = c.id
    BY ZenonT(60), <1>1 DEF Call, IsFinal
  <2>3. 1 \in 1..Len(f) /\ f # <<>> /\ g # <<>> /\ g[1].id = c.id
    BY SMTT(30), <1>0, <1>7, <2>1 DEF State
  <2>4. updateFrontPacketId(front, Shadow(f), TRUE, NextId(c.id))
          = FrontAfter(g, front, 1)
    <3>1. Shadow(f) # <<>> /\ Head(Shadow(f)) = c.id
      BY SMTT(30), <1>0, <1>7, <2>3 DEF Shadow
    <3> QED  BY <2>3, <3>1 DEF FrontAfter, updateFrontPacketId
  <2> HIDE DEF g, e
  <2>5. /\ State(Tail(g), FrontAfter(g, front, 1), rxAcks', Append(rxLog, e))
        /\ front <= FrontAfter(g, front, 1)
    BY ZenonT(60), <2>1, <2>2, <2>3, Deliver
  <2>6. processRxFifo(Tail(g), FrontAfter(g, front, 1), Append(rxLog, e))
    BY ZenonT(60), <1>7, <2>4 DEF g
  <2>7. /\ State(rxFifo', frontPacketId', rxAcks', rxLog')
        /\ FrontAfter(g, front, 1) <= frontPacketId'
    BY ZenonT(60), <2>5, <2>6, Process
  <2>8. front <= frontPacketId'
    <3>1. FrontAfter(g, front, 1) \in PacketId /\ frontPacketId' \in PacketId
      BY Zenon, <2>5, <2>7 DEF State
    <3> QED BY SMTT(60), ZenonT(60), <1>0, <2>5, <2>7, <3>1, IdSpaceAssumption DEF PacketId
  <2> QED  BY ZenonT(60), <2>7, <2>8 DEF Kept
<1>8. \/ \E r \in {p, q} : processRxFifo(Put(f, i, r), front, rxLog)
      \/ /\ f[1].id = c.id
         /\ processRxFifo(Tail(Put(f, i, p)),
              updateFrontPacketId(front, Shadow(f), TRUE, NextId(c.id)),
              Append(rxLog, e))
  BY Zenon DEF ReadSmallPacket, p, q
<1> QED  BY Zenon, <1>6, <1>7, <1>8
\* readChunk of a BeginOfPacket preserves the invariant
LEMMA BeginOfPacket ==
  ASSUME NoWrap, NEW c \in DataChunk, NEW f, NEW front,
         State(f, front, rxAcks, rxLog), NEW i \in 1..Len(f), f[i].id = c.id,
         ReadBeginOfPacket(c, f, i, front)
  PROVE  Kept(front)
<1> DEFINE p == Renewed(f[i])
           q == [p EXCEPT !.size_B = c.size, !.isReliable = c.isReliable,
                          !.hasCopy = c.size <= Threshold]
<1>0. f \in Seq(RxPacket) /\ f[i] \in RxPacket
  BY DEF State
<1>1. c.size \in Nat /\ c.isReliable \in BOOLEAN /\ (c.size <= Threshold) \in BOOLEAN
  BY ChunkType DEF ReadBeginOfPacket
<1>2. /\ p \in RxPacket /\ p.id = f[i].id /\ p.isReceived = f[i].isReceived
  <2>1. p.id = f[i].id /\ p.isReceived = f[i].isReceived
    BY <1>0 DEF Renewed, RxPacket
  <2> QED  BY ZenonT(60), <1>0, <2>1, AssignType
<1> HIDE DEF p
<1>3. /\ q \in RxPacket /\ q.id = f[i].id /\ q.isReceived = f[i].isReceived
  <2>1. q \in RxPacket
    BY ZenonT(60), <1>1, <1>2, AssignType
  <2>2. q.id = p.id /\ q.isReceived = p.isReceived
    BY <1>2 DEF RxPacket
  <2> QED  BY SMTT(30), <1>2, <2>1, <2>2
<1>4. PICK r \in {p, q} : processRxFifo(Put(f, i, r), front, rxLog)
  BY SMTT(30) DEF ReadBeginOfPacket, p, q
<1> HIDE DEF q
<1>5. State(Put(f, i, r), front, rxAcks, rxLog)
  BY <1>2, <1>3, Assign
<1>6. rxAcks' = rxAcks
  BY DEF ReadBeginOfPacket
<1> QED  BY ZenonT(60), <1>4, <1>5, <1>6, Process DEF Kept
\* readChunk of a PieceOfPacket preserves the invariant
LEMMA PieceOfPacket ==
  ASSUME NoWrap, NEW c \in DataChunk, NEW f, NEW front,
         State(f, front, rxAcks, rxLog), NEW i \in 1..Len(f), f[i].id = c.id,
         ReadPieceOfPacket(c, f, i, front)
  PROVE  Kept(front)
<1> DEFINE p    == Renewed(f[i])
           end  == c.offset + c.size
           done == end >= p.size_B
           q1   == [p EXCEPT !.offsetRepeat_B = 0, !.isReliable = c.isReliable]
           q2   == [p EXCEPT !.offset_B = c.offset, !.offsetRepeat_B = c.offset]
           q3   == [p EXCEPT !.offset_B = 0, !.offsetRepeat_B = 0]
           q4   == [p EXCEPT !.offset_B = end, !.bytes = @ \cup c.offset..(end - 1),
                             !.isReceived = @ \/ done]
           e    == [id |-> c.id, status |-> "p", whole |-> FALSE]
           log  == Append(rxLog, e)
<1>0. f \in Seq(RxPacket) /\ f[i] \in RxPacket /\ front \in PacketId
  BY DEF State
<1>1. /\ c.id \in PacketId /\ c.isReliable \in BOOLEAN
      /\ c.offset \in Nat /\ c.size \in Nat
  BY ZenonT(60), ChunkType DEF ReadPieceOfPacket
<1>2. /\ p \in RxPacket /\ p.id = f[i].id /\ p.isReceived = f[i].isReceived
      /\ p.isReceived \in BOOLEAN
  <2>1. p.id = f[i].id /\ p.isReceived = f[i].isReceived /\ p.isReceived \in BOOLEAN
    BY <1>0 DEF Renewed, RxPacket
  <2> QED  BY ZenonT(60), <1>0, <2>1, AssignType
<1>3. /\ end \in Nat /\ c.offset..(end - 1) \in SUBSET Nat
      /\ done \in BOOLEAN
  BY <1>1
<1>4. \A q \in {q1, q2, q3} :
        q \in RxPacket /\ q.id = f[i].id /\ q.isReceived = f[i].isReceived
  <2> HIDE DEF p, end, done
  <2>1. q1 \in RxPacket /\ q2 \in RxPacket /\ q3 \in RxPacket
    BY ZenonT(60), <1>1, <1>2, AssignType
  <2>2. \A q \in {q1, q2, q3} : q.id = p.id /\ q.isReceived = p.isReceived
    BY ZenonT(60), <1>2 DEF RxPacket
  <2> QED  BY Zenon, <1>2, <2>1, <2>2
<1>5. /\ q4 \in RxPacket /\ q4.id = f[i].id
      /\ f[i].isReceived => q4.isReceived
      /\ done => q4.isReceived
  <2> HIDE DEF p, end, done
  <2>1. q4 \in RxPacket
    BY Zenon, <1>2, <1>3 DEF RxPacket
  <2>2. q4.id = p.id /\ q4.isReceived = (p.isReceived \/ done)
    BY <1>2 DEF RxPacket
  <2> QED  BY ZenonT(60), <1>2, <2>1, <2>2
<1>6. \/ \E q \in {p, q1, q2, q3} : Return(Put(f, i, q), front)
      \/ TakePiece(c, f, i, front)
  BY DEF ReadPieceOfPacket
<1>7. front <= front
  BY SMTT(30), <1>0, IdSpaceAssumption DEF PacketId
<1>8. CASE \E q \in {p, q1, q2, q3} : Return(Put(f, i, q), front)
  <2> HIDE DEF p, q1, q2, q3, q4
  <2>1. PICK q \in {p, q1, q2, q3} : Return(Put(f, i, q), front)
    BY SMTT(30), <1>8
  <2>2. State(Put(f, i, q), front, rxAcks, rxLog)
    <3>1. q \in RxPacket /\ q.id = f[i].id /\ (f[i].isReceived => q.isReceived)
      BY Zenon, <1>2, <1>4
    <3> QED BY ZenonT(60), <3>1, Assign
  <2> QED  BY SMTT(30), <1>7, <2>1, <2>2 DEF Return, Kept
<1>9. CASE TakePiece(c, f, i, front)
  <2>1. PICK l \in {rxLog, log} :
          \/ /\ rxFifo' = Put(f, i, q4) /\ frontPacketId' = front /\ rxLog' = l
             /\ rxAcks' = rxAcks
          \/ /\ done
             /\ rxAcks' \in {rxAcks, acknowledge(rxAcks, c.id)}
             /\ processRxFifo(Put(f, i, q4), front, l)
    BY <1>9 DEF TakePiece
  <2>2. e \in Call /\ ~IsFinal(e)
    BY SMTT(30), <1>1 DEF Call, IsFinal
  <2> HIDE DEF p, q1, q2, q3, q4, e, done
  <2> DEFINE g == Put(f, i, q4)
  <2>3. /\ State(g, front, rxAcks, rxLog) /\ Len(g) = Len(f) /\ g[i] = q4
    <3>1. q4 \in RxPacket /\ q4.id = f[i].id /\ (f[i].isReceived => q4.isReceived)
      BY Zenon, <1>5
    <3>2. State(g, front, rxAcks, rxLog)
      BY ZenonT(60), <3>1, Assign
    <3>3. Len(g) = Len(f) /\ g[i] = q4
      BY ZenonT(60), <1>0, <3>1, PutType
    <3> QED BY Zenon, <3>2, <3>3
  <2> HIDE DEF g
  <2>4. State(g, front, rxAcks, log)
    BY ZenonT(60), <2>2, <2>3, HandOver
  <2> HIDE DEF log
  <2>5. State(g, front, rxAcks, l)
    BY SMTT(30), <2>1, <2>3, <2>4
  <2>6. done => State(g, front, acknowledge(rxAcks, c.id), l)
    <3>1. done => Received(g, c.id)
      BY SMTT(30), <1>5, <2>3 DEF Received
    <3> QED  BY ZenonT(60), <1>1, <2>5, <3>1, Acknowledge
  <2>7. CASE /\ rxFifo' = g /\ frontPacketId' = front /\ rxLog' = l
             /\ rxAcks' = rxAcks
    BY SMTT(30), <1>7, <2>5, <2>7 DEF Kept
  <2>8. CASE /\ done
             /\ rxAcks' \in {rxAcks, acknowledge(rxAcks, c.id)}
             /\ processRxFifo(g, front, l)
    BY ZenonT(60), <2>5, <2>6, <2>8, Process DEF Kept
  <2> QED  BY <2>1, <2>7, <2>8 DEF g
<1> QED  BY SMTT(30), <1>6, <1>8, <1>9
-----------------------------------------------------------------------------
(* The steps                                                               *)

\* What get() works on: frontPacketId may have moved forward before it.
LEMMA Advanced ==
  ASSUME NoWrap, NEW f, NEW front, NEW acks, NEW log, State(f, front, acks, log),
         NEW h \in 0..(MaxId + 1), front <= h
  PROVE  State(f, h, acks, log)
<1>0. /\ f \in Seq(RxPacket) /\ front \in PacketId
      /\ acks \in Seq(PacketId) /\ log \in Seq(Call)
      /\ Fifo(f, front) /\ Log(log, Base(f, front)) /\ Acks(acks, f, front)
      /\ h \in PacketId
  BY SmallIds DEF State
<1>1. front \in Nat /\ h \in Nat /\ h <= MaxId + 1 /\ MaxId \in Nat
  BY SMTT(30), <1>0, SmallIds DEF PacketId
<1>2. f # <<>> => f[1].id \in Nat
  <2>1. f # <<>> => 1 \in 1..Len(f)
    BY SMTT(30), <1>0
  <2> QED  BY <1>0, <2>1, PacketType DEF PacketId
<1>3. Fifo(f, h)
  <2>1. f # <<>> => f[1].id <= h
    BY <1>0, <1>1, <1>2 DEF Fifo
  <2> QED  BY SMTT(30), <1>0, <1>1, <2>1 DEF Fifo
<1>4. Base(f, front) \in Nat /\ Base(f, h) \in Nat /\ Base(f, front) <= Base(f, h)
  BY SMTT(30), <1>1, <1>2 DEF Base
<1>5. \A j \in 1..Len(log) : log[j].id \in Nat
  <2>1. \A e \in Call : e.id \in Nat
    BY SMTT(30), IdSpaceAssumption DEF Call, PacketId
  <2> QED  BY <1>0, <2>1
<1>6. Log(log, Base(f, h))
  <2>1. \A j \in 1..Len(log) : IsFinal(log[j]) => log[j].id < Base(f, h)
    BY SMTT(60), ZenonT(60), <1>0, <1>4, <1>5 DEF Log
  <2> QED  BY SMTT(30), <1>0, <2>1 DEF Log
<1>7. Acks(acks, f, h)
  <2>1. \A a \in 1..Len(acks) : acks[a] \in PacketId
    BY <1>0
  <2>2. \A x \in PacketId : x \in Nat
    BY IdSpaceAssumption DEF PacketId
  <2> SUFFICES ASSUME NEW a \in 1..Len(acks) PROVE acks[a] < h \/ Received(f, acks[a])
    BY DEF Acks
  <2>3. acks[a] < front \/ Received(f, acks[a])
    BY <1>0 DEF Acks
  <2>4. PICK x \in Nat : x = acks[a]
    BY <2>1, <2>2
  <2>5. x < front => x < h
    BY <1>1
  <2> QED  BY <2>3, <2>4, <2>5
<1> QED  BY SMTT(30), <1>0, <1>3, <1>6, <1>7 DEF State

\* get(id) keeps the invariant.
LEMMA Extended ==
  ASSUME NEW f, NEW front, NEW acks, NEW log, State(f, front, acks, log),
         NEW g, NEW id, Extends(g, f, id), Fifo(g, front),
         Base(g, front) = Base(f, front)
  PROVE  State(g, front, acks, log)
<1>1. \A x : Received(f, x) => Received(g, x)
  <2>1. Len(f) \in Nat /\ Len(g) \in Nat /\ Len(f) <= Len(g)
    BY DEF State, Extends
  <2>2. \A j \in 1..Len(f) : j \in 1..Len(g) /\ g[j] = f[j]
    BY <2>1 DEF Extends
  <2> QED  BY <2>2 DEF Received
<1>2. Acks(acks, g, front)
  BY SMTT(30), <1>1 DEF State, Acks
<1> QED  BY <1>2 DEF State, Extends
\* What readChunk works on: the fifo once the stream is known, and the front id the
\* chunk has moved.
LEMMA Opening ==
  ASSUME NoWrap, NEW c \in DataChunk, RxTypeOK, RxInv,
         NEW front, front = updateFrontPacketId(frontPacketId, Shadow(Opened), c.isFront, c.id)
  PROVE  /\ State(Opened, front, rxAcks, rxLog)
         /\ front \in {c.id, frontPacketId}
         /\ front \in 0..(MaxId + 1) /\ front \in PacketId
         /\ frontPacketId \in Nat /\ frontPacketId <= front
         /\ \A j \in 1..Len(Opened) :
              \/ j \in 1..Len(rxFifo) /\ Opened[j] = rxFifo[j]
              \/ Opened[j].id = 0 /\ Opened[j].offsetRepeat_B = NoRepeat
         /\ \A id : Received(rxFifo, id) => Received(Opened, id)
<1> DEFINE opened == Opened
<1>0. /\ c.id \in PacketId /\ c.id \in 0..MaxId /\ c.id \in 0..(MaxId + 1)
      /\ c.isFront \in BOOLEAN /\ MaxId \in Nat
  BY ChunkType, SmallIds
<1>1. State(rxFifo, frontPacketId, rxAcks, rxLog)
  BY DEF RxTypeOK, RxInv, State
<1>2. State(opened, frontPacketId, rxAcks, rxLog)
  <2>1. CASE ~rxIsNew
    BY <1>1, <2>1 DEF Opened
  <2>2. CASE rxIsNew
    <3>1. 0 \in PacketId /\ 0 \in 0..MaxId
      BY <1>0, IdSpaceAssumption DEF PacketId
    <3>2. rxFifo = <<>> /\ frontPacketId = 0 /\ opened = <<NewRxPacket(0)>>
      BY SMTT(30), <2>2 DEF RxInv, Opened
    <3>3. get(rxFifo, frontPacketId, 0) = opened
      <4>1. ~Wrapped(0, 0)
        BY <1>0, NoneWrapped
      <4> QED  BY <3>2, <4>1 DEF get, emplace
    <3>4. rxFifo \in Seq(RxPacket) /\ Fifo(rxFifo, frontPacketId) /\ frontPacketId <= 0
      BY <1>1, <3>2 DEF State
    <3>5. /\ Extends(opened, rxFifo, 0) /\ Fifo(opened, frontPacketId)
          /\ Base(opened, frontPacketId) = Base(rxFifo, frontPacketId)
      BY ZenonT(60), <3>1, <3>2, <3>3, <3>4, Get
    <3> HIDE DEF opened
    <3> QED  BY <1>1, <3>5, Extended
  <2> QED  BY <2>1, <2>2 DEF RxTypeOK
<1> HIDE DEF opened
<1>6. front = IF c.isFront /\ frontPacketId < c.id THEN c.id ELSE frontPacketId
  BY <1>0, <1>2, UpdateFront DEF State, opened
<1>3. /\ front \in 0..(MaxId + 1) /\ front \in PacketId
      /\ frontPacketId \in Nat /\ frontPacketId <= front
  <2>2. frontPacketId \in 0..(MaxId + 1)
    BY <1>0, <1>1 DEF State, Fifo, PacketId
  <2>3. front \in 0..(MaxId + 1) /\ frontPacketId <= front
    BY <1>0, <1>6, <2>2
  <2> QED  BY <2>2, <2>3, SmallIds
<1>4. State(opened, front, rxAcks, rxLog)
  BY <1>2, <1>3, Advanced
<1>7. /\ \A j \in 1..Len(opened) :
           \/ j \in 1..Len(rxFifo) /\ opened[j] = rxFifo[j]
           \/ opened[j].id = 0 /\ opened[j].offsetRepeat_B = NoRepeat
      /\ \A id : Received(rxFifo, id) => Received(opened, id)
  <2>1. CASE rxIsNew
    <3>1. opened = <<NewRxPacket(0)>> /\ rxFifo = <<>>
      BY Zenon, <2>1 DEF opened, Opened, RxInv
    <3>2. NewRxPacket(0).id = 0 /\ NewRxPacket(0).offsetRepeat_B = NoRepeat
      BY DEF NewRxPacket
    <3> HIDE DEF NewRxPacket
    <3>3. \A j \in 1..Len(opened) : opened[j] = NewRxPacket(0)
      BY <3>1
    <3>4. \A id : ~Received(rxFifo, id)
      BY <3>1 DEF Received
    <3> QED  BY Zenon, <3>2, <3>3, <3>4
  <2>2. CASE ~rxIsNew
    BY Zenon, <2>2 DEF opened, Opened
  <2> QED  BY <2>1, <2>2 DEF RxTypeOK
<1> QED  BY Zenon, <1>3, <1>4, <1>6, <1>7 DEF opened

\* f is what get() makes of g, and its packet at i is the one with the id
Got(f, g, front, i, id) ==
  /\ State(f, front, rxAcks, rxLog)
  /\ Extends(f, g, id)
  /\ i \in 1..Len(f) /\ f[i].id = id

\* What the handlers of readChunk work on: the fifo after get() holds the packet.
LEMMA Getting ==
  ASSUME NoWrap, NEW c \in DataChunk, NEW g, NEW front, State(g, front, rxAcks, rxLog),
         front \in 0..(MaxId + 1), ~isReceivedBefore(front, c.id)
  PROVE  Got(get(g, front, c.id), g, front, indexOf(get(g, front, c.id), c.id), c.id)
<1> SUFFICES ASSUME NEW f, f = get(g, front, c.id), NEW i, i = indexOf(f, c.id)
             PROVE  Got(f, g, front, i, c.id)
  BY Zenon
<1>0. c.id \in PacketId /\ c.id \in 0..MaxId /\ MaxId \in Nat
  BY ChunkType, SmallIds
<1>1. front <= c.id
  BY <1>0, ReceivedBefore
<1>2. g \in Seq(RxPacket) /\ Fifo(g, front) /\ front \in PacketId
  BY DEF State
<1>3. /\ Extends(f, g, c.id) /\ Fifo(f, front)
      /\ Base(f, front) = Base(g, front)
  BY SMTT(30), <1>0, <1>1, <1>2, Get
<1>4. State(f, front, rxAcks, rxLog)
  BY ZenonT(60), <1>3, Extended
<1>5. i \in 1..Len(f) /\ f[i].id = c.id
  BY ZenonT(60), <1>0, <1>1, <1>2, <1>3, Index DEF Extends
<1> QED  BY Zenon, <1>3, <1>4, <1>5 DEF Got

\* readChunk preserves the invariant, its early returns included
LEMMA Chunk ==
  ASSUME NoWrap, NEW c \in DataChunk, RxTypeOK, RxInv, ReadChunk(c)
  PROVE  Kept(frontPacketId)
<1> DEFINE opened == Opened
           front  == updateFrontPacketId(frontPacketId, Shadow(opened), c.isFront, c.id)
           f      == get(opened, front, c.id)
           i      == indexOf(f, c.id)
<1>0. c.id \in PacketId /\ c.id \in 0..MaxId
  BY ChunkType
<1>4. State(opened, front, rxAcks, rxLog)
  BY Zenon, Opening
<1>3. /\ front \in 0..(MaxId + 1) /\ front \in PacketId
      /\ frontPacketId \in Nat /\ frontPacketId <= front
  BY Zenon, Opening
<1> HIDE DEF opened, front
<1>5. CASE ReadIgnored(c, opened, front)
           /\ (Len(opened) >= RxFifoLimit \/ isReceivedBefore(front, c.id))
  <2>1. \/ rxAcks' = rxAcks
        \/ rxAcks' = acknowledge(rxAcks, c.id) /\ isReceivedBefore(front, c.id)
    <3>1. Len(opened) \in Nat
      BY <1>4 DEF State
    <3> QED  BY <1>5, <3>1, RxAssumption DEF ReadIgnored
  <2>2. isReceivedBefore(front, c.id) => c.id < front
    BY <1>0, <1>3, ReceivedBefore
  <2>3. State(opened, front, rxAcks', rxLog)
    BY ZenonT(60), <1>0, <1>4, <2>1, <2>2, Acknowledge
  <2> QED  BY <1>3, <1>5, <2>3 DEF ReadIgnored, Kept
<1>6. CASE ~isReceivedBefore(front, c.id)
           /\ (f[i].id # c.id \/ ReadSmallPacket(c, f, i, front)
               \/ ReadBeginOfPacket(c, f, i, front)
               \/ ReadPieceOfPacket(c, f, i, front))
  <2>1. /\ State(f, front, rxAcks, rxLog)
        /\ i \in 1..Len(f) /\ f[i].id = c.id
    <3>1. Got(f, opened, front, i, c.id)
      BY Zenon, <1>3, <1>4, <1>6, Getting
    <3> HIDE DEF f, i
    <3> QED BY Zenon, <3>1 DEF Got
  <2> HIDE DEF f, i
  <2>6. Kept(front)
    BY <1>6, <2>1, SmallPacket, BeginOfPacket, PieceOfPacket
  <2>7. frontPacketId' \in Nat /\ front <= frontPacketId'
    BY <2>6, IdSpaceAssumption DEF Kept, State, PacketId
  <2>8. frontPacketId <= frontPacketId'
    BY SMTT(30), <1>3, <2>7
  <2> QED  BY SMTT(30), <2>6, <2>8 DEF Kept
<1>7. \/ ReadIgnored(c, opened, front)
         /\ (Len(opened) >= RxFifoLimit \/ isReceivedBefore(front, c.id))
      \/ ~isReceivedBefore(front, c.id)
         /\ (f[i].id # c.id \/ ReadSmallPacket(c, f, i, front)
             \/ ReadBeginOfPacket(c, f, i, front)
             \/ ReadPieceOfPacket(c, f, i, front))
  BY ZenonT(60) DEF ReadChunk, opened, front
<1> QED  BY <1>5, <1>6, <1>7

\* writeMetaChunk with a RepeatInfo preserves the invariant
LEMMA RepeatInfo ==
  ASSUME NoWrap, RxTypeOK, RxInv, NEW out, WriteRepeatInfo(out)
  PROVE  Kept(frontPacketId)
<1>1. State(rxFifo, frontPacketId, rxAcks, rxLog)
  BY DEF RxTypeOK, RxInv, State
<1>2. PICK k \in 0..Len(rxFifo) :
        /\ frontPacketId' = FrontAfter(rxFifo, frontPacketId, k)
        /\ rxLog' = rxLog \o Finals(rxFifo, k)
        /\ \E i \in (k + 1)..Len(rxFifo) :
             rxFifo' = SubSeq(Put(rxFifo, i, [rxFifo[i] EXCEPT
                                               !.offsetRepeat_B = NoRepeat]),
                              k + 1, Len(rxFifo))
  BY Zenon DEF WriteRepeatInfo
<1>3. PICK i \in (k + 1)..Len(rxFifo) :
        rxFifo' = SubSeq(Put(rxFifo, i, [rxFifo[i] EXCEPT
                                          !.offsetRepeat_B = NoRepeat]),
                         k + 1, Len(rxFifo))
  BY Zenon, <1>2
<1> DEFINE p == [rxFifo[i] EXCEPT !.offsetRepeat_B = NoRepeat]
           g == Put(rxFifo, i, p)
<1>4. i \in 1..Len(rxFifo) /\ rxFifo[i] \in RxPacket /\ rxFifo \in Seq(RxPacket)
  BY <1>1 DEF State
<1>5. p \in RxPacket /\ p.id = rxFifo[i].id /\ p.isReceived = rxFifo[i].isReceived
  <2>1. p.id = rxFifo[i].id /\ p.isReceived = rxFifo[i].isReceived
    BY SMTT(30), <1>4 DEF RxPacket
  <2> QED  BY ZenonT(60), <1>4, <2>1, AssignType
<1> HIDE DEF p
<1>6. State(g, frontPacketId, rxAcks, rxLog) /\ Len(g) = Len(rxFifo)
  BY SMTT(60), ZenonT(60), <1>1, <1>4, <1>5, Assign
<1>7. \A j \in 1..k : g[j] = rxFifo[j]
  <2>1. \A j \in 1..k : j \in 1..Len(rxFifo) /\ j # i
    BY SMTT(30), <1>2, <1>3, <1>4
  <2>2. \A j \in 1..Len(rxFifo) : j # i => g[j] = rxFifo[j]
    BY ZenonT(60), <1>4, <1>5, PutType
  <2> HIDE DEF g
  <2> QED  BY <2>1, <2>2
<1>8. rxFifo' = SubSeq(g, k + 1, Len(g))
  BY Zenon, <1>3, <1>6 DEF p
<1> HIDE DEF g
<1>9. FrontAfter(g, frontPacketId, k) = FrontAfter(rxFifo, frontPacketId, k)
  <2>1. k = 0 \/ k \in 1..k
    BY <1>2
  <2> QED  BY Zenon, <1>7, <2>1 DEF FrontAfter
<1>10. Finals(g, k) = Finals(rxFifo, k)
  BY <1>7 DEF Finals
<1>11. Dropped(g, frontPacketId, rxLog, k, rxFifo', frontPacketId')
  <2>1. k \in 0..Len(g)
    BY <1>2, <1>6
  <2> QED  BY ZenonT(60), <1>2, <1>6, <1>8, <1>9, <2>1, Drop DEF State
<1>12. rxFifo' \in Seq(RxPacket) /\ rxLog' \in Seq(Call)
  <2>1. Finals(rxFifo, k) \in Seq(Call)
    BY <1>2, <1>4, FinalsType
  <2>2. SubSeq(g, k + 1, Len(g)) \in Seq(RxPacket)
    BY SMTT(30), <1>2, <1>6 DEF State
  <2>3. rxLog \in Seq(Call)
    BY DEF RxTypeOK
  <2>4. rxLog \o Finals(rxFifo, k) \in Seq(Call)
    BY <2>1, <2>3
  <2> QED  BY ZenonT(60), <1>2, <1>8, <2>2, <2>4
<1>13. Acks(rxAcks, rxFifo', frontPacketId')
  <2>1. \A a \in 1..Len(rxAcks) : rxAcks[a] \in PacketId
    BY DEF RxTypeOK
  <2> QED  BY <1>6, <1>11, <2>1 DEF State, Acks, Dropped
<1>14. rxAcks' = rxAcks
  BY DEF WriteRepeatInfo
<1> QED  BY ZenonT(60), <1>1, <1>2, <1>10, <1>11, <1>12, <1>13, <1>14 DEF State, Dropped, Kept
-----------------------------------------------------------------------------
(* The theorems                                                            *)

\* every step keeps the invariant and does not move frontPacketId back
LEMMA Step ==
  ASSUME NoWrap, RxTypeOK, RxInv, [RxNext]_rxVars
  PROVE  RxInv' /\ frontPacketId <= frontPacketId'
<1>0. State(rxFifo, frontPacketId, rxAcks, rxLog)
  BY DEF RxTypeOK, RxInv, State
<1>1. frontPacketId <= frontPacketId
  BY IdSpaceAssumption DEF RxTypeOK, PacketId
<1>2. ASSUME Kept(frontPacketId), ~rxIsNew'
      PROVE  RxInv' /\ frontPacketId <= frontPacketId'
  BY <1>2 DEF Kept, State, RxInv
<1>3. ASSUME NEW c \in DataChunk, ReadChunk(c) PROVE Kept(frontPacketId) /\ ~rxIsNew'
  <2>1. ~rxIsNew'
    BY ZenonT(60), <1>3 DEF ReadChunk
  <2> QED  BY ZenonT(60), <1>3, <2>1, Chunk
<1>4. ASSUME NEW out \in RxOutput, WriteAcknowledge(out)
      PROVE  RxInv' /\ frontPacketId <= frontPacketId'
  <2>1. /\ rxAcks \in Seq(PacketId) /\ rxAcks # <<>> /\ rxAcks' = Tail(rxAcks)
        /\ UNCHANGED <<rxFifo, frontPacketId, rxIsNew, rxLog>>
    BY <1>4 DEF WriteAcknowledge, RxTypeOK
  <2>2. Acks(rxAcks', rxFifo, frontPacketId)
    <3>1. \A a \in 1..Len(Tail(rxAcks)) :
            a + 1 \in 1..Len(rxAcks) /\ Tail(rxAcks)[a] = rxAcks[a + 1]
      BY <2>1
    <3> QED  BY <1>0, <2>1, <3>1 DEF State, Acks
  <2> QED  BY <1>1, <2>1, <2>2 DEF RxInv
<1>5. ASSUME NEW out \in RxOutput, WriteRepeatInfo(out)
      PROVE  Kept(frontPacketId) /\ ~rxIsNew'
  <2>1. ~rxIsNew'
    BY <1>5 DEF WriteRepeatInfo
  <2> QED  BY <1>5, <2>1, RepeatInfo
<1>6. CASE WriteNoMeta
  <2>1. ~rxIsNew' /\ rxAcks' = rxAcks /\ processRxFifo(rxFifo, frontPacketId, rxLog)
    BY <1>6 DEF WriteNoMeta
  <2> QED  BY <1>0, <1>2, <2>1, Process DEF Kept
<1>7. CASE RxTimeout
  <2>1. PICK i \in 1..Len(rxFifo) :
          rxFifo' = Put(rxFifo, i, [rxFifo[i] EXCEPT !.timedOut = TRUE])
    BY Zenon, <1>7 DEF RxTimeout
  <2> DEFINE p == [rxFifo[i] EXCEPT !.timedOut = TRUE]
  <2>2. rxFifo[i] \in RxPacket /\ rxFifo # <<>>
    BY <1>0 DEF State
  <2>3. p \in RxPacket /\ p.id = rxFifo[i].id /\ p.isReceived = rxFifo[i].isReceived
    <3>1. p.id = rxFifo[i].id /\ p.isReceived = rxFifo[i].isReceived
      BY <2>2 DEF RxPacket
    <3> QED  BY ZenonT(60), <2>2, <3>1, AssignType
  <2>4. State(rxFifo', frontPacketId, rxAcks, rxLog)
    <3>1. rxFifo' = Put(rxFifo, i, p)
      BY SMTT(30), <2>1
    <3> HIDE DEF p
    <3>2. State(Put(rxFifo, i, p), frontPacketId, rxAcks, rxLog)
      BY <1>0, <2>3, Assign
    <3> QED  BY <3>1, <3>2
  <2>5. UNCHANGED <<frontPacketId, rxIsNew, rxAcks, rxLog>> /\ ~rxIsNew
    BY SMTT(30), <1>7, <2>2 DEF RxTimeout, RxInv, RxTypeOK
  <2> QED  BY <1>1, <1>2, <2>4, <2>5 DEF Kept
<1>8. CASE UNCHANGED rxVars
  BY <1>1, <1>8 DEF rxVars, RxInv
<1> QED  BY <1>2, <1>3, <1>4, <1>5, <1>6, <1>7, <1>8 DEF RxNext

\* the invariant holds of a new stream
LEMMA Start == ASSUME NoWrap, RxInit PROVE RxInv
<1>1. MaxId \in Nat
  BY SmallIds
<1> QED  BY <1>1 DEF RxInit, RxInv, Fifo, Log, Base, Acks

\* The inductive invariant holds of every behaviour of the receiving half.
THEOREM RxInvariant == ASSUME NoWrap PROVE RxSpec => []RxInv
<1>1. RxInit => RxInv
  BY Start
<1>2. RxTypeOK /\ RxInv /\ [RxNext]_rxVars => RxInv'
  BY Step
<1> QED  BY <1>1, <1>2, RxTypeCorrect, PTL DEF RxSpec

\* Whatever chunks arrive in whatever order, the ends of packets are reported
\* in the order of the ids and once each.
THEOREM RxOrder == ASSUME NoWrap PROVE RxSpec => []RxInOrder
<1>1. RxInv => RxInOrder
  BY DEF RxInv, Log, RxInOrder
<1> QED  BY <1>1, RxInvariant, PTL

\* The fifo holds consecutive ids, so that get() finds what it looks for.
THEOREM RxFifoConsecutive == ASSUME NoWrap PROVE RxSpec => []RxConsecutive
<1>1. RxTypeOK /\ RxInv => RxConsecutive
  <2> SUFFICES ASSUME RxTypeOK, RxInv, NEW i \in 1..Len(rxFifo), i > 1
               PROVE  rxFifo[i].id = NextId(rxFifo[i - 1].id)
    BY DEF RxConsecutive
  <2>0. rxFifo \in Seq(RxPacket) /\ 1 \in 1..Len(rxFifo) /\ i - 1 \in 1..Len(rxFifo)
    BY SMTT(30) DEF RxTypeOK
  <2>1. PICK a \in Nat : a = rxFifo[1].id
    BY SMTT(30), <2>0, PacketType DEF PacketId
  <2>2. rxFifo[i].id = a + (i - 1) /\ rxFifo[i - 1].id = a + ((i - 1) - 1)
    BY SMTT(30), <2>0, <2>1 DEF RxInv, Fifo
  <2>3. a + ((i - 1) - 1) <= MaxId
    BY <2>0, <2>2 DEF RxInv, Fifo
  <2>4. PICK x \in Nat : x = a + ((i - 1) - 1) /\ a + (i - 1) = x + 1
    <3>1. a + ((i - 1) - 1) \in Nat /\ a + (i - 1) = (a + ((i - 1) - 1)) + 1
      OBVIOUS
    <3> QED  BY <3>1
  <2>5. NextId(x) = x + 1
    BY SMTT(30), <2>3, <2>4, SmallIds, IdSpaceAssumption DEF NextId
  <2> QED  BY <2>2, <2>4, <2>5
<1> QED  BY <1>1, RxInvariant, RxTypeCorrect, PTL

\* An acknowledgement is only ever queued for a settled packet.
THEOREM RxAcknowledged == ASSUME NoWrap PROVE RxSpec => []RxAcksSettled
<1>1. RxInv => RxAcksSettled
  BY DEF RxInv, Acks, Received, RxAcksSettled
<1> QED  BY <1>1, RxInvariant, PTL

\* frontPacketId, the id below which chunks are dropped, never moves back.
THEOREM RxFrontMonotone == ASSUME NoWrap PROVE RxSpec => RxFrontAdvances
<1>1. RxTypeOK /\ RxInv /\ [RxNext]_rxVars => [frontPacketId <= frontPacketId']_rxVars
  BY Step
<1> QED  BY <1>1, RxInvariant, RxTypeCorrect, PTL DEF RxSpec, RxFrontAdvances

-----------------------------------------------------------------------------
(* The receiving half, against what the sender may have told it            *)

\* The receiver knows only ids below bound, asks only for the positions in asked,
\* and is through with the packets in settled.
Knows(f, front, bound, asked, settled) ==
  /\ front <= bound
  /\ \A i \in 1..Len(f) :
       /\ f[i].id < bound
       /\ f[i].offsetRepeat_B # NoRepeat => <<f[i].id, f[i].offsetRepeat_B>> \in asked
  /\ \A id \in settled : id < front \/ Received(f, id)

\* dropping packets from the front of the fifo
LEMMA KnowsDrop ==
  ASSUME NoWrap, NEW f, NEW front, NEW acks, NEW log, State(f, front, acks, log),
         NEW bound \in Nat, NEW asked, NEW settled \in SUBSET PacketId,
         Knows(f, front, bound, asked, settled), NEW k \in 0..Len(f)
  PROVE  Knows(SubSeq(f, k + 1, Len(f)), FrontAfter(f, front, k), bound, asked, settled)
<1> SUFFICES ASSUME NEW g, g = SubSeq(f, k + 1, Len(f)),
                    NEW h, h = FrontAfter(f, front, k)
             PROVE  Knows(g, h, bound, asked, settled)
  BY Zenon
<1>0. /\ f \in Seq(RxPacket) /\ front \in PacketId /\ log \in Seq(Call)
      /\ Fifo(f, front) /\ Log(log, Base(f, front))
  BY Zenon DEF State
<1>1. Dropped(f, front, log, k, g, h)
  BY Zenon, <1>0, Drop
<1>2. h <= bound
  <2>1. CASE k = 0
    BY <2>1 DEF FrontAfter, Knows
  <2>2. CASE k \in 1..Len(f)
    <3>1. h = IF front < f[k].id + 1 THEN f[k].id + 1 ELSE front
      BY <1>0, <2>2, FrontDropped
    <3>2. f[k].id < bound /\ front <= bound /\ f[k].id \in Nat
      <4>1. f[k].id \in PacketId
        BY Zenon, <1>0, <2>2, PacketType
      <4>2. f[k].id \in Nat
        BY <4>1, IdSpaceAssumption DEF PacketId
      <4> QED BY Zenon, <2>2, <4>2 DEF Knows
    <3> QED BY <3>1, <3>2
  <2> QED BY <1>0, <2>1, <2>2
<1>3. Len(g) \in Nat /\ \A i \in 1..Len(g) : k + i \in 1..Len(f) /\ g[i] = f[k + i]
  BY <1>0
<1>4. \A i \in 1..Len(g) :
        /\ g[i].id < bound
        /\ g[i].offsetRepeat_B # NoRepeat => <<g[i].id, g[i].offsetRepeat_B>> \in asked
  BY Zenon, <1>3 DEF Knows
<1>5. \A id \in settled : id < h \/ Received(g, id)
  BY Zenon, <1>1 DEF Dropped, Knows
<1> QED BY Zenon, <1>2, <1>4, <1>5 DEF Knows

\* the calls made so far stay as they are
CallsKept(s, t) == Len(s) <= Len(t) /\ \A i \in 1..Len(s) : t[i] = s[i]

\* what is appended to the calls leaves those made before
LEMMA CallsConcat ==
  ASSUME NEW S, NEW s \in Seq(S), NEW t \in Seq(S)
  PROVE  CallsKept(s, s \o t)
<1>1. /\ Len(s \o t) = Len(s) + Len(t) /\ Len(s) \in Nat /\ Len(t) \in Nat
      /\ \A i \in 1..Len(s) : (s \o t)[i] = s[i]
  BY Concatenation
<1>2. Len(s) <= Len(s \o t)
  BY <1>1
<1> QED BY Zenon, <1>1, <1>2 DEF CallsKept

\* several additions to the log are one
LEMMA CallsTransitive ==
  ASSUME NEW S, NEW r \in Seq(S), NEW s \in Seq(S), NEW t \in Seq(S),
         CallsKept(r, s), CallsKept(s, t)
  PROVE  CallsKept(r, t)
<1>1. Len(r) \in Nat /\ Len(s) \in Nat /\ Len(t) \in Nat
  OBVIOUS
<1>2. Len(r) <= Len(s) /\ Len(s) <= Len(t)
  BY DEF CallsKept
<1>3. Len(r) <= Len(t) /\ \A i \in 1..Len(r) : i \in 1..Len(s)
  BY <1>1, <1>2
<1> QED BY Zenon, <1>3 DEF CallsKept

\* nothing is added
LEMMA CallsSame == ASSUME NEW S, NEW s \in Seq(S) PROVE CallsKept(s, s)
BY DEF CallsKept

\* one call is added
LEMMA CallsAppend ==
  ASSUME NEW S, NEW s \in Seq(S), NEW e \in S
  PROVE  CallsKept(s, Append(s, e))
BY DEF CallsKept

\* processRxFifo reports and forgets packets, it learns of none
LEMMA KnowsProcess ==
  ASSUME NoWrap, NEW f, NEW front, NEW acks, NEW log, State(f, front, acks, log),
         NEW bound \in Nat, NEW asked, NEW settled \in SUBSET PacketId,
         Knows(f, front, bound, asked, settled), processRxFifo(f, front, log)
  PROVE  /\ Knows(rxFifo', frontPacketId', bound, asked, settled)
         /\ CallsKept(log, rxLog')
<1>1. PICK k \in 0..Len(f) :
        /\ rxFifo' = SubSeq(f, k + 1, Len(f))
        /\ frontPacketId' = FrontAfter(f, front, k)
        /\ rxLog' = log \o Finals(f, k)
  BY ZenonT(60) DEF processRxFifo
<1>2. Knows(rxFifo', frontPacketId', bound, asked, settled)
  BY Zenon, <1>1, KnowsDrop
<1>3. f \in Seq(RxPacket) /\ log \in Seq(Call)
  BY Zenon DEF State
<1>4. Finals(f, k) \in Seq(Call)
  BY Zenon, <1>3, FinalsType
<1>5. CallsKept(log, log \o Finals(f, k))
  BY Zenon, <1>3, <1>4, CallsConcat
<1> QED BY Zenon, <1>1, <1>2, <1>5

\* assignments to a packet that keep its id, and isReceived once it is set
LEMMA KnowsPut ==
  ASSUME NEW f, NEW front, NEW acks, NEW log, State(f, front, acks, log),
         NEW bound \in Nat, NEW asked, NEW settled \in SUBSET PacketId,
         Knows(f, front, bound, asked, settled),
         NEW i \in 1..Len(f), NEW p \in RxPacket,
         p.id = f[i].id, f[i].isReceived => p.isReceived,
         p.offsetRepeat_B \in {NoRepeat, f[i].offsetRepeat_B}
           \/ <<p.id, p.offsetRepeat_B>> \in asked
  PROVE  Knows(Put(f, i, p), front, bound, asked, settled)
<1> DEFINE g == Put(f, i, p)
<1>0. f \in Seq(RxPacket)
  BY DEF State
<1>1. /\ Len(g) = Len(f) /\ g[i] = p
      /\ \A j \in 1..Len(f) : j # i => g[j] = f[j]
  BY Zenon, <1>0, PutType
<1> HIDE DEF g
<1>2. ASSUME NEW j \in 1..Len(g)
      PROVE  /\ g[j].id = f[j].id /\ f[j].isReceived => g[j].isReceived
             /\ g[j].id < bound
             /\ g[j].offsetRepeat_B # NoRepeat => <<g[j].id, g[j].offsetRepeat_B>> \in asked
  <2>1. CASE j = i
    BY <1>1, <2>1 DEF Knows
  <2>2. CASE j # i
    BY <1>1, <2>2 DEF Knows
  <2> QED BY <2>1, <2>2
<1>3. \A id : Received(f, id) => Received(g, id)
  <2>1. \A j \in 1..Len(f) : g[j].id = f[j].id /\ (f[j].isReceived => g[j].isReceived)
    BY <1>1
  <2> QED BY Zenon, <1>1, <2>1 DEF Received
<1> QED BY Zenon, <1>2, <1>3 DEF Knows, g

\* get() extends the fifo with packets nothing is asked of yet
LEMMA KnowsExtends ==
  ASSUME NEW f, NEW front, NEW acks, NEW log, State(f, front, acks, log),
         NEW bound \in Nat, NEW asked, NEW settled \in SUBSET PacketId,
         Knows(f, front, bound, asked, settled),
         NEW g, NEW id \in Nat, id < bound, Extends(g, f, id)
  PROVE  Knows(g, front, bound, asked, settled)
<1>0. f \in Seq(RxPacket) /\ g \in Seq(RxPacket)
  BY DEF State, Extends
<1>1. Len(f) \in Nat /\ Len(g) \in Nat /\ Len(f) <= Len(g)
  BY <1>0 DEF Extends
<1>2. ASSUME NEW i \in 1..Len(g)
      PROVE  /\ g[i].id < bound
             /\ g[i].offsetRepeat_B # NoRepeat => <<g[i].id, g[i].offsetRepeat_B>> \in asked
  <2>1. CASE i <= Len(f)
    <3>1. i \in 1..Len(f) /\ g[i] = f[i]
      BY <1>1, <2>1 DEF Extends
    <3> QED BY <3>1 DEF Knows
  <2>2. CASE i > Len(f)
    <3>1. g[i].id <= id /\ g[i].offsetRepeat_B = NoRepeat
      BY Zenon, <2>2 DEF Extends
    <3>2. g[i].id \in PacketId
      BY Zenon, <1>0, PacketType
    <3>3. g[i].id < bound
      BY <3>1, <3>2 DEF PacketId
    <3> QED BY Zenon, <3>1, <3>3
  <2> QED BY <1>1, <2>1, <2>2
<1>3. \A x : Received(f, x) => Received(g, x)
  <2>1. \A j \in 1..Len(f) : j \in 1..Len(g) /\ g[j] = f[j]
    BY <1>1 DEF Extends
  <2> QED BY Zenon, <2>1 DEF Received
<1> QED BY Zenon, <1>2, <1>3 DEF Knows

-----------------------------------------------------------------------------
(* What the steps of the receiver leave it knowing                         *)

KnowsNext(bound, asked, settled) ==
  /\ Knows(rxFifo', frontPacketId', bound, asked, settled)
  /\ CallsKept(rxLog, rxLog')

\* a SmallPacket leaves every settled packet settled, and no packet beyond bound
LEMMA KnowsSmallPacket ==
  ASSUME NoWrap, NEW c \in DataChunk, NEW f, NEW front,
         State(f, front, rxAcks, rxLog), NEW i \in 1..Len(f), f[i].id = c.id,
         NEW bound \in Nat, NEW asked, NEW settled \in SUBSET PacketId,
         Knows(f, front, bound, asked, settled),
         ReadSmallPacket(c, f, i, front)
  PROVE  KnowsNext(bound, asked, settled)
<1> DEFINE p == [Renewed(f[i]) EXCEPT !.isReceived = TRUE]
           q == [p EXCEPT !.size_B = c.size, !.hasCopy = TRUE,
                          !.bytes = 0..(c.size - 1)]
           e == [id |-> c.id, status |-> "s", whole |-> TRUE]
<1>0. /\ f \in Seq(RxPacket) /\ front \in PacketId /\ Fifo(f, front)
      /\ rxLog \in Seq(Call) /\ f[i] \in RxPacket
  BY SMTT(60), ZenonT(60) DEF State
<1>1. c.id \in PacketId /\ c.size \in Nat
  BY ChunkType DEF ReadSmallPacket
<1>2. /\ p \in RxPacket /\ p.id = f[i].id /\ p.isReceived
      /\ p.offsetRepeat_B = f[i].offsetRepeat_B
  <2>1. p \in RxPacket
    BY ZenonT(60), <1>0, AssignType
  <2>2. p.id = f[i].id /\ p.isReceived /\ p.offsetRepeat_B = f[i].offsetRepeat_B
    BY <1>0 DEF Renewed, RxPacket
  <2> QED BY <2>1, <2>2
<1> HIDE DEF p
<1>3. /\ q \in RxPacket /\ q.id = f[i].id /\ q.isReceived
      /\ q.offsetRepeat_B = f[i].offsetRepeat_B
  <2>1. 0..(c.size - 1) \in SUBSET Nat
    BY SMTT(30), <1>1
  <2>2. q \in RxPacket
    BY ZenonT(60), <1>1, <1>2, <2>1, AssignType
  <2>3. q.id = p.id /\ q.isReceived = p.isReceived /\ q.offsetRepeat_B = p.offsetRepeat_B
    BY ZenonT(60), <1>2 DEF RxPacket
  <2> QED BY Zenon, <1>2, <2>2, <2>3
<1> HIDE DEF q
<1>4. ASSUME NEW r \in {p, q}
      PROVE  /\ State(Put(f, i, r), front, rxAcks, rxLog)
             /\ Len(Put(f, i, r)) = Len(f)
             /\ \A j \in 1..Len(f) : Put(f, i, r)[j].id = f[j].id
             /\ Knows(Put(f, i, r), front, bound, asked, settled)
  <2>1. /\ r \in RxPacket /\ r.id = f[i].id /\ r.isReceived
        /\ r.offsetRepeat_B = f[i].offsetRepeat_B
    BY Zenon, <1>2, <1>3, <1>4
  <2>2. /\ State(Put(f, i, r), front, rxAcks, rxLog)
        /\ Len(Put(f, i, r)) = Len(f)
        /\ \A j \in 1..Len(f) : Put(f, i, r)[j].id = f[j].id
    <3>1. f[i].isReceived => r.isReceived
      BY Zenon, <2>1
    <3>2. State(Put(f, i, r), front, rxAcks, rxLog)
      BY ZenonT(60), <2>1, <3>1, Assign
    <3>3. /\ Len(Put(f, i, r)) = Len(f) /\ Put(f, i, r)[i] = r
          /\ \A j \in 1..Len(f) : j # i => Put(f, i, r)[j] = f[j]
      BY ZenonT(60), <1>0, <2>1, PutType
    <3> QED BY Zenon, <2>1, <3>2, <3>3
  <2>3. Knows(Put(f, i, r), front, bound, asked, settled)
    BY ZenonT(60), <2>1, KnowsPut
  <2> QED BY Zenon, <2>2, <2>3
<1>5. CASE \E r \in {p, q} : processRxFifo(Put(f, i, r), front, rxLog)
  BY Zenon, <1>4, <1>5, KnowsProcess DEF KnowsNext
<1>6. CASE /\ f[1].id = c.id
           /\ processRxFifo(Tail(Put(f, i, p)),
                updateFrontPacketId(front, Shadow(f), TRUE, NextId(c.id)),
                Append(rxLog, e))
  <2> DEFINE g == Put(f, i, p)
  <2>1. /\ State(g, front, rxAcks, rxLog) /\ Len(g) = Len(f)
        /\ \A j \in 1..Len(f) : g[j].id = f[j].id
        /\ Knows(g, front, bound, asked, settled)
    BY <1>4
  <2>2. e \in Call /\ IsFinal(e) /\ e.id = c.id
    BY ZenonT(60), <1>1 DEF Call, IsFinal
  <2>3. 1 \in 1..Len(f) /\ f # <<>> /\ g # <<>> /\ g[1].id = c.id
    BY SMTT(30), <1>0, <1>6, <2>1 DEF State
  <2>4. updateFrontPacketId(front, Shadow(f), TRUE, NextId(c.id))
          = FrontAfter(g, front, 1)
    <3>1. Shadow(f) # <<>> /\ Head(Shadow(f)) = c.id
      BY SMTT(30), <1>0, <1>6, <2>3 DEF Shadow
    <3> QED BY <2>3, <3>1 DEF FrontAfter, updateFrontPacketId
  <2> HIDE DEF g, e
  <2>5. State(Tail(g), FrontAfter(g, front, 1), rxAcks, Append(rxLog, e))
    <3>1. /\ State(g, front, rxAcks, rxLog) /\ g # <<>> /\ e \in Call /\ IsFinal(e)
          /\ e.id = g[1].id
      BY Zenon, <2>1, <2>2, <2>3
    <3> QED BY ZenonT(60), <3>1, Deliver
  <2>6. Knows(Tail(g), FrontAfter(g, front, 1), bound, asked, settled)
    <3>1. g \in Seq(RxPacket) /\ 1 \in 0..Len(g)
      BY <2>1, <2>3 DEF State
    <3>2. Tail(g) = SubSeq(g, 1 + 1, Len(g))
      BY <2>3, <3>1
    <3>3. Knows(SubSeq(g, 1 + 1, Len(g)), FrontAfter(g, front, 1), bound, asked, settled)
      BY Zenon, <2>1, <3>1, KnowsDrop
    <3> QED BY Zenon, <3>2, <3>3
  <2>7. processRxFifo(Tail(g), FrontAfter(g, front, 1), Append(rxLog, e))
    BY ZenonT(60), <1>6, <2>4 DEF g
  <2>8. /\ Knows(rxFifo', frontPacketId', bound, asked, settled)
        /\ CallsKept(Append(rxLog, e), rxLog')
    BY ZenonT(60), <2>5, <2>6, <2>7, KnowsProcess
  <2>9. CallsKept(rxLog, Append(rxLog, e)) /\ Append(rxLog, e) \in Seq(Call)
    BY SMTT(60), ZenonT(60), <1>0, <2>2, CallsAppend
  <2>10. rxLog' \in Seq(Call)
    BY Zenon, <2>5, <2>7, ProcessType DEF State
  <2> QED BY Zenon, <1>0, <2>8, <2>9, <2>10, CallsTransitive DEF KnowsNext
<1>7. \/ \E r \in {p, q} : processRxFifo(Put(f, i, r), front, rxLog)
      \/ /\ f[1].id = c.id
         /\ processRxFifo(Tail(Put(f, i, p)),
              updateFrontPacketId(front, Shadow(f), TRUE, NextId(c.id)),
              Append(rxLog, e))
  BY Zenon DEF ReadSmallPacket, p, q
<1> QED BY Zenon, <1>5, <1>6, <1>7

\* and so does a BeginOfPacket
LEMMA KnowsBeginOfPacket ==
  ASSUME NoWrap, NEW c \in DataChunk, NEW f, NEW front,
         State(f, front, rxAcks, rxLog), NEW i \in 1..Len(f),
         NEW bound \in Nat, NEW asked, NEW settled \in SUBSET PacketId,
         Knows(f, front, bound, asked, settled),
         ReadBeginOfPacket(c, f, i, front)
  PROVE  KnowsNext(bound, asked, settled)
<1> DEFINE p == Renewed(f[i])
           q == [p EXCEPT !.size_B = c.size, !.isReliable = c.isReliable,
                          !.hasCopy = c.size <= Threshold]
<1>0. f \in Seq(RxPacket) /\ f[i] \in RxPacket
  BY DEF State
<1>1. c.size \in Nat /\ c.isReliable \in BOOLEAN /\ (c.size <= Threshold) \in BOOLEAN
  BY ChunkType DEF ReadBeginOfPacket
<1>2. /\ p \in RxPacket /\ p.id = f[i].id /\ p.isReceived = f[i].isReceived
      /\ p.offsetRepeat_B = f[i].offsetRepeat_B
  <2>1. /\ p.id = f[i].id /\ p.isReceived = f[i].isReceived
        /\ p.offsetRepeat_B = f[i].offsetRepeat_B
    BY <1>0 DEF Renewed, RxPacket
  <2> QED BY ZenonT(60), <1>0, <2>1, AssignType
<1> HIDE DEF p
<1>3. /\ q \in RxPacket /\ q.id = f[i].id /\ q.isReceived = f[i].isReceived
      /\ q.offsetRepeat_B = f[i].offsetRepeat_B
  <2>1. q \in RxPacket
    BY ZenonT(60), <1>1, <1>2, AssignType
  <2>2. q.id = p.id /\ q.isReceived = p.isReceived /\ q.offsetRepeat_B = p.offsetRepeat_B
    BY <1>2 DEF RxPacket
  <2> QED BY Zenon, <1>2, <2>1, <2>2
<1>4. PICK r \in {p, q} : processRxFifo(Put(f, i, r), front, rxLog)
  BY SMTT(30) DEF ReadBeginOfPacket, p, q
<1> HIDE DEF q
<1>5. /\ r \in RxPacket /\ r.id = f[i].id /\ r.isReceived = f[i].isReceived
      /\ r.offsetRepeat_B = f[i].offsetRepeat_B
  BY Zenon, <1>2, <1>3, <1>4
<1>6. State(Put(f, i, r), front, rxAcks, rxLog)
  BY <1>5, Assign
<1>7. Knows(Put(f, i, r), front, bound, asked, settled)
  BY <1>5, KnowsPut
<1> QED BY Zenon, <1>4, <1>6, <1>7, KnowsProcess DEF KnowsNext

\* what a piece makes the receiver ask for lies where the piece does
LEMMA KnowsPieceOfPacket ==
  ASSUME NoWrap, NEW c \in DataChunk, NEW f, NEW front,
         State(f, front, rxAcks, rxLog), NEW i \in 1..Len(f), f[i].id = c.id,
         NEW bound \in Nat, NEW asked, NEW settled \in SUBSET PacketId,
         Knows(f, front, bound, asked, settled),
         ReadPieceOfPacket(c, f, i, front),
         <<c.id, 0>> \in asked, <<c.id, c.offset>> \in asked
  PROVE  KnowsNext(bound, asked, settled)
<1> DEFINE p    == Renewed(f[i])
           end  == c.offset + c.size
           done == end >= p.size_B
           q1   == [p EXCEPT !.offsetRepeat_B = 0, !.isReliable = c.isReliable]
           q2   == [p EXCEPT !.offset_B = c.offset, !.offsetRepeat_B = c.offset]
           q3   == [p EXCEPT !.offset_B = 0, !.offsetRepeat_B = 0]
           q4   == [p EXCEPT !.offset_B = end, !.bytes = @ \cup c.offset..(end - 1),
                             !.isReceived = @ \/ done]
           e    == [id |-> c.id, status |-> "p", whole |-> FALSE]
           log  == Append(rxLog, e)
           Fine(q) == /\ q \in RxPacket /\ q.id = f[i].id
                      /\ f[i].isReceived => q.isReceived
                      /\ \/ q.offsetRepeat_B \in {NoRepeat, f[i].offsetRepeat_B}
                         \/ <<q.id, q.offsetRepeat_B>> \in asked
<1>0. /\ f \in Seq(RxPacket) /\ f[i] \in RxPacket /\ front \in PacketId
      /\ rxLog \in Seq(Call)
  BY SMTT(60), ZenonT(60) DEF State
<1>1. /\ c.id \in PacketId /\ c.isReliable \in BOOLEAN
      /\ c.offset \in Nat /\ c.size \in Nat
  BY ZenonT(60), ChunkType DEF ReadPieceOfPacket
<1>2. /\ p \in RxPacket /\ p.id = f[i].id /\ p.isReceived = f[i].isReceived
      /\ p.isReceived \in BOOLEAN /\ p.offsetRepeat_B = f[i].offsetRepeat_B
  <2>1. /\ p.id = f[i].id /\ p.isReceived = f[i].isReceived
        /\ p.isReceived \in BOOLEAN /\ p.offsetRepeat_B = f[i].offsetRepeat_B
    BY <1>0 DEF Renewed, RxPacket
  <2> QED BY ZenonT(60), <1>0, <2>1, AssignType
<1>3. /\ end \in Nat /\ c.offset..(end - 1) \in SUBSET Nat
      /\ done \in BOOLEAN
  BY SMTT(60), ZenonT(60), <1>1
<1>4. \A q \in {q1, q2, q3} :
        q \in RxPacket /\ q.id = p.id /\ q.isReceived = p.isReceived
  <2> HIDE DEF p, end, done
  <2>1. q1 \in RxPacket /\ q2 \in RxPacket /\ q3 \in RxPacket
    BY ZenonT(60), <1>1, <1>2, AssignType
  <2>2. \A q \in {q1, q2, q3} : q.id = p.id /\ q.isReceived = p.isReceived
    BY ZenonT(60), <1>2 DEF RxPacket
  <2> QED BY Zenon, <2>1, <2>2
<1>5. q1.offsetRepeat_B = 0 /\ q2.offsetRepeat_B = c.offset /\ q3.offsetRepeat_B = 0
  <2> HIDE DEF p
  <2> QED BY <1>2 DEF RxPacket
<1>6. /\ q4 \in RxPacket /\ q4.id = p.id
      /\ p.isReceived => q4.isReceived
      /\ q4.offsetRepeat_B = p.offsetRepeat_B
  <2> HIDE DEF p, end, done
  <2>1. q4 \in RxPacket
    BY Zenon, <1>2, <1>3 DEF RxPacket
  <2>2. /\ q4.id = p.id /\ q4.isReceived = (p.isReceived \/ done)
        /\ q4.offsetRepeat_B = p.offsetRepeat_B
    BY <1>2 DEF RxPacket
  <2> QED BY ZenonT(60), <2>1, <2>2
<1>7. \/ \E q \in {p, q1, q2, q3} : Return(Put(f, i, q), front)
      \/ TakePiece(c, f, i, front)
  BY DEF ReadPieceOfPacket
<1>8. ASSUME NEW q \in {p, q1, q2, q3, q4} PROVE Fine(q)
  <2> HIDE DEF p, q1, q2, q3, q4
  <2> QED BY Zenon, <1>2, <1>4, <1>5, <1>6, <1>8
<1>9. ASSUME NEW q \in {p, q1, q2, q3, q4}
      PROVE  /\ State(Put(f, i, q), front, rxAcks, rxLog)
             /\ Knows(Put(f, i, q), front, bound, asked, settled)
  <2>1. Fine(q)
    BY <1>8
  <2> HIDE DEF p, q1, q2, q3, q4
  <2>2. State(Put(f, i, q), front, rxAcks, rxLog)
    BY Zenon, <2>1, Assign
  <2>3. Knows(Put(f, i, q), front, bound, asked, settled)
    BY Zenon, <2>1, KnowsPut
  <2> QED BY <2>2, <2>3
<1>10. CallsKept(rxLog, rxLog)
  BY <1>0, CallsSame
<1>11. CASE \E q \in {p, q1, q2, q3} : Return(Put(f, i, q), front)
  <2> HIDE DEF p, q1, q2, q3, q4
  <2>1. PICK q \in {p, q1, q2, q3} : Return(Put(f, i, q), front)
    BY <1>11
  <2>2. rxFifo' = Put(f, i, q) /\ frontPacketId' = front /\ rxLog' = rxLog
    BY <2>1 DEF Return
  <2> QED BY Zenon, <1>9, <1>10, <2>2 DEF KnowsNext
<1>12. CASE TakePiece(c, f, i, front)
  <2>1. PICK l \in {rxLog, log} :
          \/ rxFifo' = Put(f, i, q4) /\ frontPacketId' = front /\ rxLog' = l
          \/ processRxFifo(Put(f, i, q4), front, l)
    BY <1>12 DEF TakePiece
  <2>2. e \in Call /\ ~IsFinal(e)
    BY SMTT(60), ZenonT(60), <1>1 DEF Call, IsFinal
  <2>3. log \in Seq(Call) /\ CallsKept(rxLog, log)
    BY SMTT(60), ZenonT(60), <1>0, <2>2, CallsAppend
  <2> DEFINE g == Put(f, i, q4)
  <2>4. /\ State(g, front, rxAcks, rxLog)
        /\ Knows(g, front, bound, asked, settled)
    BY <1>9
  <2> HIDE DEF p, q1, q2, q3, q4, e, g
  <2>5. State(g, front, rxAcks, log)
    BY ZenonT(60), <2>2, <2>4, HandOver
  <2> HIDE DEF log
  <2>6. /\ State(g, front, rxAcks, l) /\ l \in Seq(Call)
        /\ CallsKept(rxLog, l)
    BY Zenon, <1>0, <1>10, <2>1, <2>3, <2>4, <2>5
  <2>7. CASE rxFifo' = g /\ frontPacketId' = front /\ rxLog' = l
    BY Zenon, <2>4, <2>6, <2>7 DEF KnowsNext
  <2>8. CASE processRxFifo(g, front, l)
    <3>1. /\ Knows(rxFifo', frontPacketId', bound, asked, settled)
          /\ CallsKept(l, rxLog')
      BY Zenon, <2>4, <2>6, <2>8, KnowsProcess
    <3>2. rxLog' \in Seq(Call)
      BY Zenon, <2>6, <2>8, ProcessType DEF State
    <3> QED BY Zenon, <1>0, <2>6, <3>1, <3>2, CallsTransitive DEF KnowsNext
  <2> QED BY Zenon, <2>1, <2>7, <2>8 DEF g
<1> QED BY Zenon, <1>7, <1>11, <1>12

\* readChunk, its early returns included
LEMMA KnowsChunk ==
  ASSUME NoWrap, NEW c \in DataChunk, RxTypeOK, RxInv, ReadChunk(c),
         NEW bound \in Nat, NEW asked, NEW settled \in SUBSET PacketId,
         Knows(rxFifo, frontPacketId, bound, asked, settled),
         c.id < bound,
         c.type = "PieceOfPacket" => <<c.id, 0>> \in asked /\ <<c.id, c.offset>> \in asked
  PROVE  KnowsNext(bound, asked, settled)
<1> DEFINE opened == Opened
           front  == updateFrontPacketId(frontPacketId, Shadow(opened), c.isFront, c.id)
           f      == get(opened, front, c.id)
           i      == indexOf(f, c.id)
<1>0. c.id \in Nat /\ c.id \in PacketId /\ rxLog \in Seq(Call)
  BY ChunkType, IdSpaceAssumption DEF RxTypeOK, PacketId
<1>1. /\ State(opened, front, rxAcks, rxLog)
      /\ front \in {c.id, frontPacketId}
      /\ front \in 0..(MaxId + 1)
      /\ frontPacketId \in Nat /\ frontPacketId <= front
      /\ \A j \in 1..Len(opened) :
           \/ j \in 1..Len(rxFifo) /\ opened[j] = rxFifo[j]
           \/ opened[j].id = 0 /\ opened[j].offsetRepeat_B = NoRepeat
      /\ \A id : Received(rxFifo, id) => Received(opened, id)
  <2>1. State(opened, front, rxAcks, rxLog)
    BY Zenon, Opening
  <2>2. /\ front \in {c.id, frontPacketId} /\ front \in 0..(MaxId + 1)
        /\ frontPacketId \in Nat /\ frontPacketId <= front
    BY Zenon, Opening
  <2>3. /\ \A j \in 1..Len(opened) :
             \/ j \in 1..Len(rxFifo) /\ opened[j] = rxFifo[j]
             \/ opened[j].id = 0 /\ opened[j].offsetRepeat_B = NoRepeat
        /\ \A id : Received(rxFifo, id) => Received(opened, id)
    BY Zenon, Opening
  <2> QED BY Zenon, <2>1, <2>2, <2>3
<1>2. \/ ReadIgnored(c, opened, front)
      \/ ~isReceivedBefore(front, c.id)
         /\ (f[i].id # c.id \/ ReadSmallPacket(c, f, i, front)
             \/ ReadBeginOfPacket(c, f, i, front)
             \/ ReadPieceOfPacket(c, f, i, front))
  BY ZenonT(60) DEF ReadChunk, opened, front
<1> HIDE DEF opened, front
<1>3. Knows(opened, front, bound, asked, settled)
  <2>0. 0 < bound
    BY <1>0
  <2>1. front <= bound
    <3>1. front \in {c.id, frontPacketId} /\ frontPacketId <= bound
      BY Zenon, <1>1 DEF Knows
    <3>2. c.id <= bound
      BY <1>0
    <3> QED BY Zenon, <3>1, <3>2
  <2>2. ASSUME NEW j \in 1..Len(opened)
        PROVE  /\ opened[j].id < bound
               /\ opened[j].offsetRepeat_B # NoRepeat
                    => <<opened[j].id, opened[j].offsetRepeat_B>> \in asked
    <3>1. CASE j \in 1..Len(rxFifo) /\ opened[j] = rxFifo[j]
      BY Zenon, <3>1 DEF Knows
    <3>2. CASE opened[j].id = 0 /\ opened[j].offsetRepeat_B = NoRepeat
      BY Zenon, <2>0, <3>2
    <3> QED BY Zenon, <1>1, <3>1, <3>2
  <2>3. ASSUME NEW id \in settled PROVE id < front \/ Received(opened, id)
    <3>1. id \in Nat
      BY IdSpaceAssumption DEF PacketId
    <3>2. id < frontPacketId \/ Received(rxFifo, id)
      BY Zenon DEF Knows
    <3>3. front \in Nat
      BY <1>0, <1>1
    <3>4. id < frontPacketId => id < front
      BY SMTT(60), ZenonT(60), <1>1, <3>1, <3>3
    <3> QED BY Zenon, <1>1, <3>2, <3>4
  <2> QED BY Zenon, <2>1, <2>2, <2>3 DEF Knows
<1>4. CASE ReadIgnored(c, opened, front)
  <2>1. rxFifo' = opened /\ frontPacketId' = front /\ rxLog' = rxLog
    BY Zenon, <1>4 DEF ReadIgnored
  <2> QED BY Zenon, <1>0, <1>3, <2>1, CallsSame DEF KnowsNext
<1>5. CASE ~isReceivedBefore(front, c.id)
           /\ (f[i].id # c.id \/ ReadSmallPacket(c, f, i, front)
               \/ ReadBeginOfPacket(c, f, i, front)
               \/ ReadPieceOfPacket(c, f, i, front))
  <2>1. /\ State(f, front, rxAcks, rxLog) /\ Extends(f, opened, c.id)
        /\ i \in 1..Len(f) /\ f[i].id = c.id
    <3>1. Got(f, opened, front, i, c.id)
      BY Zenon, <1>1, <1>5, Getting
    <3> HIDE DEF f, i
    <3> QED BY Zenon, <3>1 DEF Got
  <2> HIDE DEF f, i
  <2>2. Knows(f, front, bound, asked, settled)
    BY Zenon, <1>0, <1>1, <1>3, <2>1, KnowsExtends
  <2>3. CASE ReadSmallPacket(c, f, i, front)
    BY Zenon, <2>1, <2>2, <2>3, KnowsSmallPacket
  <2>4. CASE ReadBeginOfPacket(c, f, i, front)
    BY Zenon, <2>1, <2>2, <2>4, KnowsBeginOfPacket
  <2>5. CASE ReadPieceOfPacket(c, f, i, front)
    <3>1. c.type = "PieceOfPacket"
      BY Zenon, <2>5 DEF ReadPieceOfPacket
    <3> QED BY Zenon, <2>1, <2>2, <2>5, <3>1, KnowsPieceOfPacket
  <2> QED BY Zenon, <1>5, <2>1, <2>3, <2>4, <2>5
<1> QED BY Zenon, <1>2, <1>4, <1>5

\* writeMetaChunk with a RepeatInfo asks for a position it knows of
LEMMA KnowsRepeatInfo ==
  ASSUME NoWrap, RxTypeOK, RxInv, NEW out, WriteRepeatInfo(out),
         NEW bound \in Nat, NEW asked, NEW settled \in SUBSET PacketId,
         Knows(rxFifo, frontPacketId, bound, asked, settled)
  PROVE  /\ KnowsNext(bound, asked, settled)
         /\ out.type = "RepeatInfo" /\ out.id \in PacketId /\ out.id < bound
         /\ out = [type |-> "RepeatInfo", id |-> out.id, offset |-> out.offset]
         /\ <<out.id, out.offset>> \in asked
<1>1. State(rxFifo, frontPacketId, rxAcks, rxLog)
  BY DEF RxTypeOK, RxInv, State
<1>2. PICK k \in 0..Len(rxFifo) :
        /\ frontPacketId' = FrontAfter(rxFifo, frontPacketId, k)
        /\ rxLog' = rxLog \o Finals(rxFifo, k)
        /\ \E i \in (k + 1)..Len(rxFifo) :
             /\ rxFifo[i].offsetRepeat_B # NoRepeat
             /\ out = RepeatChunk(rxFifo[i])
             /\ rxFifo' = SubSeq(Put(rxFifo, i, [rxFifo[i] EXCEPT
                                                  !.offsetRepeat_B = NoRepeat]),
                                 k + 1, Len(rxFifo))
  BY Zenon DEF WriteRepeatInfo
<1>3. PICK i \in (k + 1)..Len(rxFifo) :
        /\ rxFifo[i].offsetRepeat_B # NoRepeat
        /\ out = RepeatChunk(rxFifo[i])
        /\ rxFifo' = SubSeq(Put(rxFifo, i, [rxFifo[i] EXCEPT
                                             !.offsetRepeat_B = NoRepeat]),
                            k + 1, Len(rxFifo))
  BY Zenon, <1>2
<1> DEFINE p == [rxFifo[i] EXCEPT !.offsetRepeat_B = NoRepeat]
           g == Put(rxFifo, i, p)
<1>4. /\ i \in 1..Len(rxFifo) /\ rxFifo[i] \in RxPacket /\ rxFifo \in Seq(RxPacket)
      /\ rxLog \in Seq(Call)
  BY <1>1 DEF State
<1>5. /\ p \in RxPacket /\ p.id = rxFifo[i].id /\ p.isReceived = rxFifo[i].isReceived
      /\ p.offsetRepeat_B = NoRepeat
  <2>1. /\ p.id = rxFifo[i].id /\ p.isReceived = rxFifo[i].isReceived
        /\ p.offsetRepeat_B = NoRepeat
    BY SMTT(30), <1>4 DEF RxPacket
  <2> QED BY ZenonT(60), <1>4, <2>1, AssignType
<1>6. rxFifo' = SubSeq(g, k + 1, Len(rxFifo))
  BY Zenon, <1>3
<1> HIDE DEF p
<1>7. State(g, frontPacketId, rxAcks, rxLog) /\ Len(g) = Len(rxFifo)
  BY SMTT(60), ZenonT(60), <1>1, <1>4, <1>5, Assign
<1>8. Knows(g, frontPacketId, bound, asked, settled)
  BY <1>1, <1>4, <1>5, KnowsPut
<1>9. FrontAfter(g, frontPacketId, k) = FrontAfter(rxFifo, frontPacketId, k)
  <2>1. k # 0 => k \in 1..Len(rxFifo) /\ k # i
    BY <1>2, <1>3, <1>4
  <2>2. \A j \in 1..Len(rxFifo) : j # i => g[j] = rxFifo[j]
    BY ZenonT(60), <1>4, <1>5, PutType
  <2> HIDE DEF g
  <2> QED BY Zenon, <2>1, <2>2 DEF FrontAfter
<1> HIDE DEF g
<1>10. Knows(rxFifo', frontPacketId', bound, asked, settled)
  <2>1. k \in 0..Len(g)
    BY <1>2, <1>7
  <2>2. Knows(SubSeq(g, k + 1, Len(g)), FrontAfter(g, frontPacketId, k), bound, asked, settled)
    BY Zenon, <1>7, <1>8, <2>1, KnowsDrop
  <2> QED BY Zenon, <1>2, <1>6, <1>7, <1>9, <2>2
<1>11. CallsKept(rxLog, rxLog')
  <2>1. Finals(rxFifo, k) \in Seq(Call)
    BY Zenon, <1>4, FinalsType
  <2> QED BY Zenon, <1>2, <1>4, <2>1, CallsConcat
<1>12. out = [type |-> "RepeatInfo", id |-> rxFifo[i].id, offset |-> rxFifo[i].offsetRepeat_B]
  BY Zenon, <1>3 DEF RepeatChunk
<1>13. /\ rxFifo[i].id \in PacketId /\ rxFifo[i].id < bound
       /\ <<rxFifo[i].id, rxFifo[i].offsetRepeat_B>> \in asked
  BY Zenon, <1>3, <1>4, PacketType DEF Knows
<1> QED BY <1>10, <1>11, <1>12, <1>13 DEF KnowsNext

\* the other steps of the receiver
LEMMA KnowsOther ==
  ASSUME NoWrap, RxTypeOK, RxInv,
         \/ \E out \in RxOutput : WriteAcknowledge(out)
         \/ WriteNoMeta \/ RxTimeout \/ UNCHANGED rxVars,
         NEW bound \in Nat, NEW asked, NEW settled \in SUBSET PacketId,
         Knows(rxFifo, frontPacketId, bound, asked, settled)
  PROVE  KnowsNext(bound, asked, settled)
<1>1. State(rxFifo, frontPacketId, rxAcks, rxLog) /\ rxLog \in Seq(Call)
  BY DEF RxTypeOK, RxInv, State
<1>2. CallsKept(rxLog, rxLog)
  BY <1>1, CallsSame
<1>3. ASSUME UNCHANGED <<rxFifo, frontPacketId, rxLog>>
      PROVE  KnowsNext(bound, asked, settled)
  BY Zenon, <1>2, <1>3 DEF KnowsNext
<1>4. CASE \E out \in RxOutput : WriteAcknowledge(out)
  BY Zenon, <1>3, <1>4 DEF WriteAcknowledge
<1>5. CASE WriteNoMeta
  <2>1. processRxFifo(rxFifo, frontPacketId, rxLog)
    BY <1>5 DEF WriteNoMeta
  <2> QED BY Zenon, <1>1, <2>1, KnowsProcess DEF KnowsNext
<1>6. CASE RxTimeout
  <2>1. PICK i \in 1..Len(rxFifo) :
          rxFifo' = Put(rxFifo, i, [rxFifo[i] EXCEPT !.timedOut = TRUE])
    BY Zenon, <1>6 DEF RxTimeout
  <2>2. frontPacketId' = frontPacketId /\ rxLog' = rxLog
    BY Zenon, <1>6 DEF RxTimeout
  <2> DEFINE p == [rxFifo[i] EXCEPT !.timedOut = TRUE]
  <2>3. rxFifo[i] \in RxPacket
    BY <1>1 DEF State
  <2>4. /\ p \in RxPacket /\ p.id = rxFifo[i].id /\ p.isReceived = rxFifo[i].isReceived
        /\ p.offsetRepeat_B = rxFifo[i].offsetRepeat_B
    <3>1. /\ p.id = rxFifo[i].id /\ p.isReceived = rxFifo[i].isReceived
          /\ p.offsetRepeat_B = rxFifo[i].offsetRepeat_B
      BY <2>3 DEF RxPacket
    <3> QED BY ZenonT(60), <2>3, <3>1, AssignType
  <2>5. rxFifo' = Put(rxFifo, i, p)
    BY Zenon, <2>1
  <2> HIDE DEF p
  <2>6. Knows(Put(rxFifo, i, p), frontPacketId, bound, asked, settled)
    BY <1>1, <2>4, KnowsPut
  <2> QED BY Zenon, <1>2, <2>2, <2>5, <2>6 DEF KnowsNext
<1>7. CASE UNCHANGED rxVars
  BY <1>3, <1>7 DEF rxVars
<1> QED BY Zenon, <1>4, <1>5, <1>6, <1>7
=============================================================================
