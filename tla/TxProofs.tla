------------------------------ MODULE TxProofs ------------------------------
(***************************************************************************)
(* Proofs about the sending half of a stream (TxStream), for any number of *)
(* packets below the wrap of the ids, of any size and in any mixture of    *)
(* reliabilities.                                                          *)
(***************************************************************************)
EXTENDS TxStream, TLAPS

TxNoWrap == MaxPackets <= UINT32_MAX

\* The reports are about packets 0, 1, ... and the fifo continues them.
Numbered(f, log) ==
  /\ \A i \in 1..Len(log) : log[i].id = i - 1
  /\ \A i \in 1..Len(f) : f[i].id = Len(log) + i - 1

Half(f, idx, log) ==
  /\ f \in Seq(TxPacket) /\ log \in Seq(Delivery)
  /\ idx \in 0..Len(f)
  /\ Numbered(f, log)

TxInv ==
  /\ Half(txFifo, packetFifoIdx, txLog)
  /\ commands \in Seq(Command)
  /\ nextPacketId = Len(txLog) + Len(txFifo)
  /\ Accepted <= MaxPackets

\* the elements of a concatenation
LEMMA Concatenated ==
  ASSUME NEW S, NEW s \in Seq(S), NEW t \in Seq(S)
  PROVE  /\ s \o t \in Seq(S) /\ Len(s \o t) = Len(s) + Len(t)
         /\ \A i \in 1..(Len(s) + Len(t)) :
              (s \o t)[i] = IF i <= Len(s) THEN s[i] ELSE t[i - Len(s)]
OBVIOUS

\* the same for sequences of length m and k
LEMMA ReportsJoin ==
  ASSUME NEW S, NEW s \in Seq(S), NEW t \in Seq(S),
         NEW m \in Nat, m = Len(s), NEW k \in Nat, k = Len(t)
  PROVE  /\ Len(s \o t) = m + k
         /\ \A i \in 1..m : (s \o t)[i] = s[i]
         /\ \A i \in (m + 1)..(m + k) : (s \o t)[i] = t[i - m]
OBVIOUS

-----------------------------------------------------------------------------
(* Popping from the front of the fifo                                      *)

LEMMA TxPacketType ==
  ASSUME NEW p \in TxPacket
  PROVE  /\ p.id \in PacketId /\ p.size_B \in TxSizes /\ p.offset_B \in Nat
         /\ p.isReliable \in BOOLEAN /\ p.isAcknowledged \in BOOLEAN
BY DEF TxPacket

LEMMA DeliveriesType ==
  ASSUME NEW f \in Seq(TxPacket), NEW k \in 0..Len(f)
  PROVE  /\ Deliveries(f, k) \in Seq(Delivery)
         /\ Len(Deliveries(f, k)) = k
         /\ \A i \in 1..k : Deliveries(f, k)[i].id = f[i].id
<1>1. \A i \in 1..k : [id |-> f[i].id, isReliable |-> f[i].isReliable,
                       status |-> IF f[i].isAcknowledged THEN "s" ELSE "t"] \in Delivery
  <2> SUFFICES ASSUME NEW i \in 1..k
               PROVE [id |-> f[i].id, isReliable |-> f[i].isReliable,
                      status |-> IF f[i].isAcknowledged THEN "s" ELSE "t"] \in Delivery
    OBVIOUS
  <2>1. f[i] \in TxPacket
    OBVIOUS
  <2>2. f[i].id \in PacketId /\ f[i].isReliable \in BOOLEAN
    BY <2>1, TxPacketType
  <2> QED BY <2>2 DEF Delivery
<1> QED BY <1>1 DEF Deliveries

\* what processTxFifo leaves after k packets were reported and dropped
LEMMA PopKeepsHalf ==
  ASSUME NEW f, NEW idx, NEW log, Half(f, idx, log), NEW k \in 0..Len(f)
  PROVE  /\ Half(SubSeq(f, k + 1, Len(f)), CursorAfter(idx, k), log \o Deliveries(f, k))
         /\ Len(SubSeq(f, k + 1, Len(f))) = Len(f) - k
         /\ Len(log \o Deliveries(f, k)) = Len(log) + k
<1> DEFINE g == SubSeq(f, k + 1, Len(f))
           d == Deliveries(f, k)
           l == log \o d
<1>1. f \in Seq(TxPacket) /\ log \in Seq(Delivery) /\ idx \in 0..Len(f)
  BY DEF Half
<1>2. d \in Seq(Delivery) /\ Len(d) = k /\ \A i \in 1..k : d[i].id = f[i].id
  BY <1>1, DeliveriesType
<1>3. /\ g \in Seq(TxPacket) /\ Len(g) = Len(f) - k
      /\ \A i \in 1..Len(g) : g[i] = f[k + i]
  <2>1. Len(f) \in Nat /\ k \in Nat /\ k <= Len(f)
    BY <1>1
  <2>2. Len(g) = Len(f) - k
    BY <1>1, <2>1
  <2>3. \A i \in 1..Len(g) : g[i] = f[k + i]
    BY <1>1, <2>1, <2>2
  <2>4. g \in Seq(TxPacket)
    BY <1>1, <2>1
  <2> QED BY <2>2, <2>3, <2>4
<1> HIDE DEF d, g
<1>4. /\ l \in Seq(Delivery) /\ Len(l) = Len(log) + k
      /\ \A i \in 1..Len(l) : l[i] = IF i <= Len(log) THEN log[i] ELSE d[i - Len(log)]
  <2>1. /\ l \in Seq(Delivery) /\ Len(l) = Len(log) + Len(d)
        /\ \A i \in 1..Len(log) + Len(d) : l[i] = IF i <= Len(log) THEN log[i] ELSE d[i - Len(log)]
    BY <1>1, <1>2, Concatenated, Zenon
  <2> HIDE DEF l
  <2> QED BY <1>1, <1>2, <2>1, SMTT(60)
<1> HIDE DEF l
<1>5. CursorAfter(idx, k) \in 0..Len(g)
  BY <1>1, <1>3 DEF CursorAfter
<1>6. ASSUME NEW i \in 1..Len(l) PROVE l[i].id = i - 1
  <2>1. CASE i <= Len(log)
    BY <1>1, <1>4, <2>1 DEF Half, Numbered
  <2>2. CASE i > Len(log)
    <3>1. i - Len(log) \in 1..k /\ i - Len(log) \in 1..Len(f)
      BY <1>1, <1>4, <2>2
    <3>2. l[i].id = f[i - Len(log)].id
      <4>1. l[i] = d[i - Len(log)]
        BY <1>1, <1>4, <2>2, SMTT(60)
      <4> QED BY <1>2, <3>1, <4>1, Zenon
    <3>3. f[i - Len(log)].id = Len(log) + (i - Len(log)) - 1
      BY <3>1 DEF Half, Numbered
    <3> QED BY <1>1, <3>1, <3>2, <3>3
  <2> QED BY <1>1, <1>4, <2>1, <2>2
<1>7. ASSUME NEW i \in 1..Len(g) PROVE g[i].id = Len(l) + i - 1
  <2>1. k + i \in 1..Len(f) /\ g[i] = f[k + i]
    BY <1>1, <1>3
  <2>2. f[k + i].id = Len(log) + (k + i) - 1
    BY <2>1 DEF Half, Numbered
  <2> QED BY <1>1, <1>4, <2>1, <2>2
<1> QED BY <1>3, <1>4, <1>5, <1>6, <1>7 DEF Half, Numbered, g, d, l

LEMMA ProcessKeepsHalf ==
  ASSUME NEW f, NEW idx, NEW log, Half(f, idx, log), processTxFifo(f, idx, log)
  PROVE  /\ Half(txFifo', packetFifoIdx', txLog')
         /\ Len(txLog') + Len(txFifo') = Len(log) + Len(f)
<1>1. PICK k \in 0..Len(f) :
        /\ txFifo' = SubSeq(f, k + 1, Len(f))
        /\ packetFifoIdx' = CursorAfter(idx, k)
        /\ txLog' = log \o Deliveries(f, k)
  BY Zenon DEF processTxFifo
<1>2. Len(f) \in Nat /\ Len(log) \in Nat /\ k \in Nat
  BY DEF Half
<1>3. /\ Half(SubSeq(f, k + 1, Len(f)), CursorAfter(idx, k), log \o Deliveries(f, k))
      /\ Len(SubSeq(f, k + 1, Len(f))) = Len(f) - k
      /\ Len(log \o Deliveries(f, k)) = Len(log) + k
  BY PopKeepsHalf
<1>4. Half(txFifo', packetFifoIdx', txLog')
  BY Zenon, <1>1, <1>3
<1>5. Len(txFifo') = Len(f) - k /\ Len(txLog') = Len(log) + k
  BY Zenon, <1>1, <1>3
<1> QED BY <1>2, <1>4, <1>5

-----------------------------------------------------------------------------
(* Assigning to a packet of the fifo                                       *)

LEMMA PutKeepsHalf ==
  ASSUME NEW f, NEW idx, NEW log, Half(f, idx, log),
         NEW i \in 1..Len(f), NEW p \in TxPacket, p.id = f[i].id
  PROVE  /\ Half([f EXCEPT ![i] = p], idx, log)
         /\ Len([f EXCEPT ![i] = p]) = Len(f)
<1> DEFINE g == [f EXCEPT ![i] = p]
<1>1. f \in Seq(TxPacket) /\ log \in Seq(Delivery) /\ idx \in 0..Len(f)
  BY DEF Half
<1>2. /\ g \in Seq(TxPacket) /\ Len(g) = Len(f)
      /\ \A j \in 1..Len(g) : g[j] = IF j = i THEN p ELSE f[j]
  BY <1>1
<1> HIDE DEF g
<1>3. \A j \in 1..Len(g) : g[j].id = f[j].id
  BY <1>2
<1>4. Numbered(g, log)
  BY <1>2, <1>3 DEF Half, Numbered
<1> QED BY <1>1, <1>2, <1>4 DEF Half, g

\* the assignments the handlers make leave a TxPacket with the same id
LEMMA AssignKeepsPacket ==
  ASSUME NEW p \in TxPacket, NEW b \in BOOLEAN, NEW n \in Nat
  PROVE  /\ [p EXCEPT !.wasWritten = TRUE, !.hasBegun = TRUE] \in TxPacket
         /\ [p EXCEPT !.wasWritten = TRUE, !.hasBegun = TRUE].id = p.id
         /\ [p EXCEPT !.isAcknowledged = TRUE, !.hasBegun = TRUE] \in TxPacket
         /\ [p EXCEPT !.isAcknowledged = TRUE, !.hasBegun = TRUE].id = p.id
         /\ [p EXCEPT !.isStarted = TRUE, !.hasBegun = TRUE] \in TxPacket
         /\ [p EXCEPT !.isStarted = TRUE, !.hasBegun = TRUE].id = p.id
         /\ [p EXCEPT !.isAcknowledged = TRUE, !.offset_B = n] \in TxPacket
         /\ [p EXCEPT !.isAcknowledged = TRUE, !.offset_B = n].id = p.id
         /\ [p EXCEPT !.offset_B = n, !.isStarted = b, !.wasWritten = TRUE] \in TxPacket
         /\ [p EXCEPT !.offset_B = n, !.isStarted = b, !.wasWritten = TRUE].id = p.id
         /\ [p EXCEPT !.isAcknowledged = TRUE] \in TxPacket
         /\ [p EXCEPT !.isAcknowledged = TRUE].id = p.id
         /\ [p EXCEPT !.offset_B = n, !.isStarted = b] \in TxPacket
         /\ [p EXCEPT !.offset_B = n, !.isStarted = b].id = p.id
         /\ [p EXCEPT !.expired = TRUE] \in TxPacket
         /\ [p EXCEPT !.expired = TRUE].id = p.id
BY DEF TxPacket

LEMMA SomeValues == TRUE \in BOOLEAN /\ 0 \in Nat
OBVIOUS

\* The forms in which the handlers assign to packet i of a fifo.
Assigned(f, i, g) ==
  \E b \in BOOLEAN, n \in Nat :
    \/ g = [f EXCEPT ![i].wasWritten = TRUE, ![i].hasBegun = TRUE]
    \/ g = [f EXCEPT ![i].isAcknowledged = TRUE, ![i].hasBegun = TRUE]
    \/ g = [f EXCEPT ![i].isStarted = TRUE, ![i].hasBegun = TRUE]
    \/ g = [f EXCEPT ![i].isAcknowledged = TRUE, ![i].offset_B = n]
    \/ g = [f EXCEPT ![i].offset_B = n, ![i].isStarted = b, ![i].wasWritten = TRUE]
    \/ g = [f EXCEPT ![i].isAcknowledged = TRUE]
    \/ g = [f EXCEPT ![i].offset_B = n, ![i].isStarted = b]
    \/ g = [f EXCEPT ![i].expired = TRUE]

LEMMA AssignKeepsHalf ==
  ASSUME NEW f, NEW idx, NEW log, Half(f, idx, log), NEW i \in 1..Len(f),
         NEW g, Assigned(f, i, g)
  PROVE  Half(g, idx, log) /\ Len(g) = Len(f)
<1>0. PICK b \in BOOLEAN, n \in Nat :
        \/ g = [f EXCEPT ![i].wasWritten = TRUE, ![i].hasBegun = TRUE]
        \/ g = [f EXCEPT ![i].isAcknowledged = TRUE, ![i].hasBegun = TRUE]
        \/ g = [f EXCEPT ![i].isStarted = TRUE, ![i].hasBegun = TRUE]
        \/ g = [f EXCEPT ![i].isAcknowledged = TRUE, ![i].offset_B = n]
        \/ g = [f EXCEPT ![i].offset_B = n, ![i].isStarted = b, ![i].wasWritten = TRUE]
        \/ g = [f EXCEPT ![i].isAcknowledged = TRUE]
        \/ g = [f EXCEPT ![i].offset_B = n, ![i].isStarted = b]
        \/ g = [f EXCEPT ![i].expired = TRUE]
  BY Zenon DEF Assigned
<1>1. f \in Seq(TxPacket) /\ f[i] \in TxPacket
  BY DEF Half
<1>2. \E p \in TxPacket : p.id = f[i].id /\ g = [f EXCEPT ![i] = p]
  <2> DEFINE q == f[i]
  <2>1. CASE g = [f EXCEPT ![i].wasWritten = TRUE, ![i].hasBegun = TRUE]
    <3>1. g = [f EXCEPT ![i] = [q EXCEPT !.wasWritten = TRUE, !.hasBegun = TRUE]]
      BY <1>1, <2>1
    <3> QED BY Zenon, <1>1, <3>1, AssignKeepsPacket
  <2>2. CASE g = [f EXCEPT ![i].isAcknowledged = TRUE, ![i].hasBegun = TRUE]
    <3>1. g = [f EXCEPT ![i] = [q EXCEPT !.isAcknowledged = TRUE, !.hasBegun = TRUE]]
      BY <1>1, <2>2
    <3> QED BY Zenon, <1>1, <3>1, AssignKeepsPacket
  <2>3. CASE g = [f EXCEPT ![i].isStarted = TRUE, ![i].hasBegun = TRUE]
    <3>1. g = [f EXCEPT ![i] = [q EXCEPT !.isStarted = TRUE, !.hasBegun = TRUE]]
      BY <1>1, <2>3
    <3> QED BY Zenon, <1>1, <3>1, AssignKeepsPacket
  <2>4. CASE g = [f EXCEPT ![i].isAcknowledged = TRUE, ![i].offset_B = n]
    <3>1. g = [f EXCEPT ![i] = [q EXCEPT !.isAcknowledged = TRUE, !.offset_B = n]]
      BY <1>1, <2>4
    <3> QED BY Zenon, <1>1, <3>1, AssignKeepsPacket
  <2>5. CASE g = [f EXCEPT ![i].offset_B = n, ![i].isStarted = b, ![i].wasWritten = TRUE]
    <3> DEFINE r == [q EXCEPT !.offset_B = n, !.isStarted = b, !.wasWritten = TRUE]
    <3>1. g = [f EXCEPT ![i] = r]
      BY <1>1, <2>5
    <3>2. r \in TxPacket /\ r.id = q.id
      BY <1>1 DEF TxPacket
    <3> HIDE DEF r
    <3> QED BY <3>1, <3>2
  <2>6. CASE g = [f EXCEPT ![i].isAcknowledged = TRUE]
    <3>1. g = [f EXCEPT ![i] = [q EXCEPT !.isAcknowledged = TRUE]]
      BY <1>1, <2>6
    <3> QED BY Zenon, <1>1, <3>1, AssignKeepsPacket
  <2>7. CASE g = [f EXCEPT ![i].offset_B = n, ![i].isStarted = b]
    <3> DEFINE r == [q EXCEPT !.offset_B = n, !.isStarted = b]
    <3>1. g = [f EXCEPT ![i] = r]
      BY <1>1, <2>7
    <3>2. r \in TxPacket /\ r.id = q.id
      BY <1>1 DEF TxPacket
    <3> HIDE DEF r
    <3> QED BY <3>1, <3>2
  <2>8. CASE g = [f EXCEPT ![i].expired = TRUE]
    <3>1. g = [f EXCEPT ![i] = [q EXCEPT !.expired = TRUE]]
      BY <1>1, <2>8
    <3> QED BY Zenon, <1>1, <3>1, AssignKeepsPacket
  <2> QED BY Zenon, <1>0, <2>1, <2>2, <2>3, <2>4, <2>5, <2>6, <2>7, <2>8
<1>3. PICK p \in TxPacket : p.id = f[i].id /\ g = [f EXCEPT ![i] = p]
  BY <1>2
<1> QED BY <1>3, PutKeepsHalf

-----------------------------------------------------------------------------
(* The handlers                                                            *)

\* what a handler leaves: no packet has come or gone between fifo and reports
KeepsPackets(f, log) ==
  /\ Half(txFifo', packetFifoIdx', txLog')
  /\ Len(txLog') + Len(txFifo') = Len(log) + Len(f)

LEMMA HalfAt ==
  ASSUME NEW f, NEW idx, NEW log, Half(f, idx, log), NEW j \in 0..Len(f)
  PROVE  Half(f, j, log)
BY DEF Half

LEMMA SmallKeepsPackets ==
  ASSUME NEW f, NEW idx, NEW log, Half(f, idx, log), NEW i \in 1..Len(f), NEW out,
         WriteSmallPacket(out, f, i - 1, i, log)
  PROVE  KeepsPackets(f, log)
<1>1. i - 1 \in 0..Len(f)
  BY DEF Half
<1>2. Half(f, i - 1, log)
  BY <1>1, HalfAt
<1>3. CASE f[i].isReliable
  <2>1. /\ txFifo' = [f EXCEPT ![i].wasWritten = TRUE, ![i].hasBegun = TRUE]
        /\ packetFifoIdx' = i - 1 /\ txLog' = log
    BY <1>3 DEF WriteSmallPacket
  <2>2. Assigned(f, i, txFifo')
    BY Zenon, <2>1, SomeValues DEF Assigned
  <2>3. Half(txFifo', i - 1, log) /\ Len(txFifo') = Len(f)
    BY <1>2, <2>2, AssignKeepsHalf
  <2> QED BY <2>1, <2>3 DEF KeepsPackets
<1>4. CASE ~f[i].isReliable
  <2> DEFINE g == [f EXCEPT ![i].isAcknowledged = TRUE, ![i].hasBegun = TRUE]
  <2>1. processTxFifo(g, i - 1, log)
    BY <1>4 DEF WriteSmallPacket
  <2>3. Assigned(f, i, g)
    BY Zenon, SomeValues DEF Assigned
  <2> HIDE DEF g
  <2>2. Half(g, i - 1, log) /\ Len(g) = Len(f)
    BY <1>2, <2>3, AssignKeepsHalf
  <2> QED BY <2>1, <2>2, ProcessKeepsHalf DEF KeepsPackets
<1> QED BY <1>3, <1>4

LEMMA BeginKeepsPackets ==
  ASSUME NEW f, NEW idx, NEW log, Half(f, idx, log), NEW i \in 1..Len(f), NEW out,
         WriteBeginOfPacket(out, f, i - 1, i, log)
  PROVE  KeepsPackets(f, log)
<1>1. i - 1 \in 0..Len(f)
  BY DEF Half
<1>2. Half(f, i - 1, log)
  BY <1>1, HalfAt
<1>3. /\ txFifo' = [f EXCEPT ![i].isStarted = TRUE, ![i].hasBegun = TRUE]
      /\ packetFifoIdx' = i - 1 /\ txLog' = log
  BY DEF WriteBeginOfPacket
<1>4. Assigned(f, i, txFifo')
  BY Zenon, <1>3, SomeValues DEF Assigned
<1>5. Half(txFifo', i - 1, log) /\ Len(txFifo') = Len(f)
  BY <1>2, <1>4, AssignKeepsHalf
<1> QED BY <1>3, <1>5 DEF KeepsPackets

LEMMA PieceKeepsPackets ==
  ASSUME NEW f, NEW idx, NEW log, Half(f, idx, log), NEW i \in 1..Len(f), NEW out,
         WritePieceOfPacket(out, f, i - 1, i, log)
  PROVE  KeepsPackets(f, log)
<1>1. i - 1 \in 0..Len(f) /\ f[i] \in TxPacket
  BY DEF Half
<1>2. Half(f, i - 1, log)
  BY <1>1, HalfAt
<1>3. PICK n \in 1..MaxPiece :
        \/ processTxFifo([f EXCEPT ![i].isAcknowledged = TRUE,
                                   ![i].offset_B = f[i].offset_B + n], i - 1, log)
        \/ /\ txFifo' = [f EXCEPT
                ![i].offset_B = IF f[i].offset_B + n >= f[i].size_B THEN 0
                                ELSE f[i].offset_B + n,
                ![i].isStarted = f[i].offset_B + n < f[i].size_B,
                ![i].wasWritten = TRUE]
           /\ packetFifoIdx' = i - 1
           /\ txLog' = log
  BY DEF WritePieceOfPacket
<1> DEFINE end == f[i].offset_B + n
           rest == IF end >= f[i].size_B THEN 0 ELSE end
           more == end < f[i].size_B
<1>4. end \in Nat /\ rest \in Nat /\ more \in BOOLEAN
  BY <1>1, TxPacketType, TxAssumption
<1> HIDE DEF end, rest, more
<1>5. CASE processTxFifo([f EXCEPT ![i].isAcknowledged = TRUE, ![i].offset_B = end], i - 1, log)
  <2> DEFINE g == [f EXCEPT ![i].isAcknowledged = TRUE, ![i].offset_B = end]
  <2>1. Assigned(f, i, g)
    BY Zenon, <1>4, SomeValues DEF Assigned
  <2>2. processTxFifo(g, i - 1, log)
    BY <1>5
  <2> HIDE DEF g
  <2>3. Half(g, i - 1, log) /\ Len(g) = Len(f)
    BY <1>2, <2>1, AssignKeepsHalf
  <2> QED BY <2>2, <2>3, ProcessKeepsHalf DEF KeepsPackets
<1>6. CASE /\ txFifo' = [f EXCEPT ![i].offset_B = rest, ![i].isStarted = more,
                                  ![i].wasWritten = TRUE]
           /\ packetFifoIdx' = i - 1
           /\ txLog' = log
  <2>1. Assigned(f, i, txFifo')
    BY Zenon, <1>4, <1>6 DEF Assigned
  <2>2. Half(txFifo', i - 1, log) /\ Len(txFifo') = Len(f)
    BY <1>2, <2>1, AssignKeepsHalf
  <2> QED BY <1>6, <2>2 DEF KeepsPackets
<1> QED BY <1>3, <1>5, <1>6 DEF end, rest, more

LEMMA WriteKeepsPackets ==
  ASSUME TxInv, NEW out, WriteDataChunk(out) \/ WriteNoData
  PROVE  KeepsPackets(txFifo, txLog)
<1>0. Half(txFifo, packetFifoIdx, txLog)
  BY DEF TxInv
<1>1. CASE WriteDataChunk(out)
  <2>1. PICK k \in 0..Len(txFifo) :
          \E i \in 1..Len(SubSeq(txFifo, k + 1, Len(txFifo))) :
            LET f   == SubSeq(txFifo, k + 1, Len(txFifo))
                log == txLog \o Deliveries(txFifo, k)
            IN  \/ WriteSmallPacket(out, f, i - 1, i, log)
                \/ WriteBeginOfPacket(out, f, i - 1, i, log)
                \/ WritePieceOfPacket(out, f, i - 1, i, log)
    BY <1>1, Zenon DEF WriteDataChunk
  <2> DEFINE f   == SubSeq(txFifo, k + 1, Len(txFifo))
             log == txLog \o Deliveries(txFifo, k)
             idx == CursorAfter(packetFifoIdx, k)
  <2>2. Half(f, idx, log) /\ Len(f) = Len(txFifo) - k /\ Len(log) = Len(txLog) + k
    BY <1>0, PopKeepsHalf
  <2>3. PICK i \in 1..Len(f) : \/ WriteSmallPacket(out, f, i - 1, i, log)
                               \/ WriteBeginOfPacket(out, f, i - 1, i, log)
                               \/ WritePieceOfPacket(out, f, i - 1, i, log)
    BY <2>1
  <2> HIDE DEF f, log, idx
  <2>4. KeepsPackets(f, log)
    BY <2>2, <2>3, SmallKeepsPackets, BeginKeepsPackets, PieceKeepsPackets
  <2>5. Len(txFifo) \in Nat /\ Len(txLog) \in Nat
    BY <1>0 DEF Half
  <2> QED BY <2>2, <2>4, <2>5 DEF KeepsPackets
<1>2. CASE WriteNoData
  <2>1. PICK k \in 0..Len(txFifo) :
          /\ packetFifoIdx' \in 0..Len(SubSeq(txFifo, k + 1, Len(txFifo)))
          /\ txFifo' = SubSeq(txFifo, k + 1, Len(txFifo))
          /\ txLog' = txLog \o Deliveries(txFifo, k)
    BY <1>2, Zenon DEF WriteNoData
  <2> DEFINE f   == SubSeq(txFifo, k + 1, Len(txFifo))
             log == txLog \o Deliveries(txFifo, k)
             idx == CursorAfter(packetFifoIdx, k)
  <2>2. Half(f, idx, log) /\ Len(f) = Len(txFifo) - k /\ Len(log) = Len(txLog) + k
    BY <1>0, PopKeepsHalf
  <2>3. txFifo' = f /\ txLog' = log /\ packetFifoIdx' \in 0..Len(f)
    BY <2>1
  <2> HIDE DEF f, log, idx
  <2>4. Half(txFifo', packetFifoIdx', txLog')
    BY <2>2, <2>3, HalfAt
  <2>5. Len(txFifo) \in Nat /\ Len(txLog) \in Nat
    BY <1>0 DEF Half
  <2> QED BY <2>2, <2>3, <2>4, <2>5 DEF KeepsPackets
<1> QED BY <1>1, <1>2

LEMMA ReadKeepsPackets ==
  ASSUME TxInv, NEW c \in TxInput, ReadAcknowledge(c) \/ ReadRepeatInfo(c)
  PROVE  KeepsPackets(txFifo, txLog)
<1>0. Half(txFifo, packetFifoIdx, txLog) /\ txFifo \in Seq(TxPacket)
  BY DEF TxInv, Half
<1>1. ASSUME UNCHANGED <<txFifo, packetFifoIdx, txLog>> PROVE KeepsPackets(txFifo, txLog)
  BY <1>0, <1>1 DEF KeepsPackets
<1>2. CASE ReadAcknowledge(c)
  <2>1. ASSUME NEW i \in 1..Len(txFifo),
               processTxFifo([txFifo EXCEPT ![i].isAcknowledged = TRUE], packetFifoIdx, txLog)
        PROVE  KeepsPackets(txFifo, txLog)
    <3> DEFINE g == [txFifo EXCEPT ![i].isAcknowledged = TRUE]
    <3>1. Assigned(txFifo, i, g)
      BY Zenon, SomeValues DEF Assigned
    <3>2. processTxFifo(g, packetFifoIdx, txLog)
      BY <2>1
    <3> HIDE DEF g
    <3>3. Half(g, packetFifoIdx, txLog) /\ Len(g) = Len(txFifo)
      BY <1>0, <3>1, AssignKeepsHalf
    <3> QED BY <3>2, <3>3, ProcessKeepsHalf DEF KeepsPackets
  <2> QED BY Zenon, <1>1, <1>2, <2>1 DEF ReadAcknowledge
<1>3. CASE ReadRepeatInfo(c)
  <2>1. ASSUME NEW i \in 1..Len(txFifo),
               txFifo' = [txFifo EXCEPT ![i].offset_B = c.offset,
                                        ![i].isStarted = @ /\ c.offset # 0],
               UNCHANGED <<packetFifoIdx, txLog>>
        PROVE  KeepsPackets(txFifo, txLog)
    <3>1. c.offset \in Nat
      <4>1. c.type = "RepeatInfo"
        BY <1>3 DEF ReadRepeatInfo
      <4>2. c.offset \in UNION {0..(n - 1) : n \in TxSizes}
        BY <4>1 DEF TxInput
      <4> QED BY <4>2, TxAssumption
    <3> DEFINE b == txFifo[i].isStarted /\ c.offset # 0
               n == c.offset
    <3>2. b \in BOOLEAN /\ n \in Nat
      BY <3>1
    <3>3. txFifo' = [txFifo EXCEPT ![i].offset_B = n, ![i].isStarted = b]
      BY <1>0, <2>1 DEF TxPacket
    <3> HIDE DEF b, n
    <3>4. Assigned(txFifo, i, txFifo')
      BY Zenon, <3>2, <3>3 DEF Assigned
    <3>5. Half(txFifo', packetFifoIdx, txLog) /\ Len(txFifo') = Len(txFifo)
      BY <1>0, <3>4, AssignKeepsHalf
    <3> QED BY <2>1, <3>5 DEF KeepsPackets
  <2> QED BY Zenon, <1>1, <1>3, <2>1 DEF ReadRepeatInfo
<1> QED BY <1>2, <1>3

LEMMA ModSmall ==
  ASSUME NEW x \in Nat, NEW m \in Nat, x <= m
  PROVE  x % (m + 1) = x
BY SMT

\* doCommands numbers the packets it appends one after the other
LEMMA DoCommandsStep ==
  ASSUME TxNoWrap, TxInv, DoCommands
  PROVE  TxInv'
<1> DEFINE new == [i \in 1..Len(commands) |-> NewTxPacket(IdAfter(i - 1), commands[i])]
<1>1. /\ txFifo \in Seq(TxPacket) /\ txLog \in Seq(Delivery) /\ commands \in Seq(Command)
      /\ packetFifoIdx \in 0..Len(txFifo) /\ nextPacketId = Len(txLog) + Len(txFifo)
      /\ Len(txLog) + Len(txFifo) + Len(commands) <= UINT32_MAX
      /\ UINT32_MAX \in Nat
  BY IdSpaceAssumption, TxAssumption DEF TxInv, Half, Accepted, TxNoWrap
<1>2. \A n \in 0..Len(commands) : IdAfter(n) = nextPacketId + n /\ IdAfter(n) \in PacketId
  <2> SUFFICES ASSUME NEW n \in 0..Len(commands)
               PROVE  IdAfter(n) = nextPacketId + n /\ IdAfter(n) \in PacketId
    OBVIOUS
  <2>1. nextPacketId + n \in Nat /\ nextPacketId + n <= UINT32_MAX
    BY <1>1
  <2>2. (nextPacketId + n) % (UINT32_MAX + 1) = nextPacketId + n
    BY <1>1, <2>1, ModSmall
  <2> QED BY <2>1, <2>2 DEF IdAfter, PacketId
<1>3. \A i \in 1..Len(commands) : /\ NewTxPacket(IdAfter(i - 1), commands[i]) \in TxPacket
                                  /\ NewTxPacket(IdAfter(i - 1), commands[i]).id = nextPacketId + (i - 1)
  <2> SUFFICES ASSUME NEW i \in 1..Len(commands)
               PROVE  /\ NewTxPacket(IdAfter(i - 1), commands[i]) \in TxPacket
                      /\ NewTxPacket(IdAfter(i - 1), commands[i]).id = nextPacketId + (i - 1)
    OBVIOUS
  <2>1. i - 1 \in 0..Len(commands)
    BY <1>1
  <2>2. commands[i] \in Command
    BY <1>1
  <2>3. commands[i].size \in TxSizes /\ commands[i].isReliable \in BOOLEAN
    BY <2>2, TxAssumption DEF Command
  <2> QED BY <1>2, <2>1, <2>3 DEF NewTxPacket, TxPacket
<1>4. /\ new \in Seq(TxPacket) /\ Len(new) = Len(commands)
      /\ \A i \in 1..Len(new) : new[i].id = nextPacketId + (i - 1)
  BY <1>1, <1>3
<1>5. /\ txFifo' = txFifo \o new /\ nextPacketId' = nextPacketId + Len(commands)
      /\ commands' = <<>> /\ packetFifoIdx' = packetFifoIdx /\ txLog' = txLog
  <2>1. Len(commands) \in 0..Len(commands)
    BY <1>1
  <2>2. IdAfter(Len(commands)) = nextPacketId + Len(commands)
    BY <1>2, <2>1
  <2> QED BY Zenon, <2>2 DEF DoCommands
<1> HIDE DEF new
<1>6. /\ txFifo' \in Seq(TxPacket) /\ Len(txFifo') = Len(txFifo) + Len(commands)
      /\ \A i \in 1..Len(txFifo') :
           txFifo'[i] = IF i <= Len(txFifo) THEN txFifo[i] ELSE new[i - Len(txFifo)]
  <2>1. txFifo \in Seq(TxPacket) /\ new \in Seq(TxPacket)
    BY <1>1, <1>4
  <2>2. /\ txFifo \o new \in Seq(TxPacket)
        /\ Len(txFifo \o new) = Len(txFifo) + Len(new)
        /\ \A i \in 1..(Len(txFifo) + Len(new)) :
             (txFifo \o new)[i] = IF i <= Len(txFifo) THEN txFifo[i] ELSE new[i - Len(txFifo)]
    BY <2>1, Concatenated, Zenon
  <2>3. Len(new) = Len(commands)
    BY <1>4
  <2>4. txFifo' = txFifo \o new
    BY <1>5
  <2> QED BY <2>2, <2>3, <2>4, Zenon
<1>7. ASSUME NEW i \in 1..Len(txFifo') PROVE txFifo'[i].id = Len(txLog) + i - 1
  <2>1. CASE i <= Len(txFifo)
    <3>1. i \in 1..Len(txFifo) /\ txFifo'[i] = txFifo[i]
      BY <1>1, <1>6, <2>1
    <3> QED BY <3>1 DEF TxInv, Half, Numbered
  <2>2. CASE i > Len(txFifo)
    <3>1. i - Len(txFifo) \in 1..Len(new)
      BY <1>1, <1>4, <1>6, <2>2
    <3> DEFINE j == i - Len(txFifo)
    <3>2. txFifo'[i] = new[j]
      <4>1. ~(i <= Len(txFifo))
        BY <1>1, <1>6, <2>2
      <4> QED BY Zenon, <1>6, <4>1
    <3>3. new[j].id = nextPacketId + (j - 1)
      <4> HIDE DEF j
      <4> QED BY <1>4, <3>1 DEF j
    <3> QED BY <1>1, <1>6, <3>2, <3>3
  <2> QED BY <1>1, <1>6, <2>1, <2>2
<1>8. Half(txFifo', packetFifoIdx', txLog')
  <2>1. /\ txFifo' \in Seq(TxPacket) /\ txLog' \in Seq(Delivery)
        /\ \A i \in 1..Len(txLog') : txLog'[i].id = i - 1
    BY <1>5, <1>6 DEF TxInv, Half, Numbered
  <2>2. packetFifoIdx' \in 0..Len(txFifo')
    BY <1>1, <1>5, <1>6 DEF TxInv, Half
  <2>3. \A i \in 1..Len(txFifo') : txFifo'[i].id = Len(txLog') + i - 1
    BY <1>5, <1>7
  <2> QED BY Zenon, <2>1, <2>2, <2>3 DEF Half, Numbered
<1>9. commands' \in Seq(Command) /\ Len(commands') = 0
  BY <1>5
<1> QED BY <1>1, <1>5, <1>6, <1>8, <1>9, TxAssumption DEF TxInv, Accepted

LEMMA TxStep ==
  ASSUME TxNoWrap, TxInv, [TxNext]_txVars
  PROVE  TxInv'
<1>0. /\ Half(txFifo, packetFifoIdx, txLog) /\ commands \in Seq(Command)
      /\ Len(txFifo) \in Nat /\ Len(txLog) \in Nat /\ MaxPackets \in Nat
  BY TxAssumption DEF TxInv, Half
<1>1. ASSUME KeepsPackets(txFifo, txLog), UNCHANGED <<commands, nextPacketId>>
      PROVE  TxInv'
  BY <1>0, <1>1 DEF KeepsPackets, TxInv, Accepted
<1>2. ASSUME NEW size \in TxSizes, NEW isReliable \in Reliabilities, Send(size, isReliable)
      PROVE  TxInv'
  <2>1. [size |-> size, isReliable |-> isReliable] \in Command
    BY DEF Command
  <2>2. commands' \in Seq(Command) /\ Len(commands') = Len(commands) + 1
    BY <1>0, <1>2, <2>1 DEF Send
  <2>3. Accepted < MaxPackets /\ UNCHANGED <<txFifo, packetFifoIdx, nextPacketId, txLog>>
    BY <1>2 DEF Send, Accepted
  <2>4. Accepted' = Accepted + 1 /\ Accepted \in Nat
    BY <1>0, <2>2, <2>3 DEF Accepted
  <2>5. Half(txFifo', packetFifoIdx', txLog')
    BY Zenon, <1>0, <2>3
  <2> QED BY <1>0, <2>2, <2>3, <2>4, <2>5 DEF TxInv
<1>3. CASE DoCommands
  BY <1>3, DoCommandsStep
<1>4. ASSUME NEW out, WriteDataChunk(out) PROVE TxInv'
  <2>1. KeepsPackets(txFifo, txLog)
    BY <1>4, WriteKeepsPackets
  <2>2. UNCHANGED <<commands, nextPacketId>>
    BY Zenon, <1>4 DEF WriteDataChunk
  <2> QED BY <1>1, <2>1, <2>2
<1>5. CASE WriteNoData
  <2>1. KeepsPackets(txFifo, txLog)
    BY <1>5, WriteKeepsPackets
  <2>2. UNCHANGED <<commands, nextPacketId>>
    BY Zenon, <1>5 DEF WriteNoData
  <2> QED BY <1>1, <2>1, <2>2
<1>6. ASSUME NEW c \in TxInput, ReadAcknowledge(c) \/ ReadRepeatInfo(c)
      PROVE  TxInv'
  <2>1. KeepsPackets(txFifo, txLog)
    BY <1>6, ReadKeepsPackets
  <2>2. UNCHANGED <<commands, nextPacketId>>
    BY Zenon, <1>6 DEF ReadAcknowledge, ReadRepeatInfo
  <2> QED BY <1>1, <2>1, <2>2
<1>7. CASE TxExpire
  <2>1. PICK i \in 1..Len(txFifo) : txFifo' = [txFifo EXCEPT ![i].expired = TRUE]
    BY Zenon, <1>7 DEF TxExpire
  <2>2. UNCHANGED <<commands, packetFifoIdx, nextPacketId, txLog>>
    BY Zenon, <1>7 DEF TxExpire
  <2>3. Assigned(txFifo, i, txFifo')
    BY Zenon, <2>1, SomeValues DEF Assigned
  <2>4. Half(txFifo', packetFifoIdx, txLog) /\ Len(txFifo') = Len(txFifo)
    BY <1>0, <2>3, AssignKeepsHalf
  <2> QED BY <1>1, <2>2, <2>4 DEF KeepsPackets
<1>8. CASE UNCHANGED txVars
  <2>1. UNCHANGED <<commands, txFifo, packetFifoIdx, nextPacketId, txLog>>
    BY <1>8 DEF txVars
  <2> QED BY <1>0, <1>1, <2>1 DEF KeepsPackets
<1> QED BY Zenon, <1>2, <1>3, <1>4, <1>5, <1>6, <1>7, <1>8 DEF TxNext

LEMMA TxInvariant == ASSUME TxNoWrap PROVE TxSpec => []TxInv
<1>1. TxInit => TxInv
  BY TxAssumption DEF TxInit, TxInv, Half, Numbered, Accepted
<1>2. TxInv /\ [TxNext]_txVars => TxInv'
  BY TxStep
<1> QED BY <1>1, <1>2, PTL DEF TxSpec

\* TxStream keeps its types, and packetFifoIdx never points past the end of the fifo.
THEOREM TxTypeCorrect == ASSUME TxNoWrap PROVE TxSpec => []TxTypeOK
<1>1. TxInv => TxTypeOK
  <2> SUFFICES ASSUME TxInv PROVE TxTypeOK
    OBVIOUS
  <2>1. nextPacketId \in PacketId
    BY IdSpaceAssumption, TxAssumption DEF TxInv, Half, Accepted, TxNoWrap, PacketId
  <2> QED BY <2>1 DEF TxInv, Half, TxTypeOK
<1> QED BY <1>1, TxInvariant, PTL

\* processTxFifo calls onDelivered once for each packet, in the order of the sends,
\* whatever acks arrive and whatever times out.
THEOREM TxOrder == ASSUME TxNoWrap PROVE TxSpec => []TxReportsInOrder
<1>1. TxInv => TxReportsInOrder
  BY DEF TxInv, Half, Numbered, TxReportsInOrder
<1> QED BY <1>1, TxInvariant, PTL

\* No packet is lost between the fifo and onDelivered, and findPacketIdx always
\* searches consecutive ids.
THEOREM TxComplete == ASSUME TxNoWrap PROVE TxSpec => []TxNothingLost
<1>1. TxInv => TxNothingLost
  BY DEF TxInv, Half, Numbered, TxNothingLost
<1> QED BY <1>1, TxInvariant, PTL

-----------------------------------------------------------------------------
(* The sending half, against what the receiver may have told it            *)

\* the reports made so far stay as they are
ReportsKept(s, t) == Len(s) <= Len(t) /\ \A i \in 1..Len(s) : t[i] = s[i]

\* what is appended to the reports leaves those made before
LEMMA ReportsConcat ==
  ASSUME NEW S, NEW s \in Seq(S), NEW t \in Seq(S)
  PROVE  ReportsKept(s, s \o t)
<1>1. /\ Len(s \o t) = Len(s) + Len(t) /\ Len(s) \in Nat /\ Len(t) \in Nat
      /\ \A i \in 1..Len(s) : (s \o t)[i] = s[i]
  BY Concatenated
<1>2. Len(s) <= Len(s \o t)
  BY <1>1
<1> QED BY Zenon, <1>1, <1>2 DEF ReportsKept

\* several additions to the log are one
LEMMA ReportsTransitive ==
  ASSUME NEW S, NEW r \in Seq(S), NEW s \in Seq(S), NEW t \in Seq(S),
         ReportsKept(r, s), ReportsKept(s, t)
  PROVE  ReportsKept(r, t)
<1>1. Len(r) \in Nat /\ Len(s) \in Nat /\ Len(t) \in Nat
  OBVIOUS
<1>2. Len(r) <= Len(s) /\ Len(s) <= Len(t)
  BY DEF ReportsKept
<1>3. Len(r) <= Len(t) /\ \A i \in 1..Len(r) : i \in 1..Len(s)
  BY <1>1, <1>2
<1> QED BY Zenon, <1>3 DEF ReportsKept

\* nothing is added
LEMMA ReportsSame == ASSUME NEW S, NEW s \in Seq(S) PROVE ReportsKept(s, s)
BY DEF ReportsKept

\* A packet that is still sent has an offset inside it, a reliable one is
\* acknowledged only if the receiver is through with it, and it is one of those in
\* sizes.
Sound(p, settled, sizes) ==
  /\ ~p.isAcknowledged => p.offset_B < p.size_B
  /\ p.isAcknowledged /\ p.isReliable => p.id \in settled
  /\ <<p.id, p.size_B>> \in sizes

SoundReport(d, settled) == d.status = "s" /\ d.isReliable => d.id \in settled

\* first is what onDelivered was told before
SoundHalf(f, log, first, settled, sizes) ==
  /\ \A i \in 1..Len(f) : Sound(f[i], settled, sizes)
  /\ \A i \in 1..Len(log) : SoundReport(log[i], settled)
  /\ ReportsKept(first, log)

\* packets taken from the head of the fifo leave a sound one
LEMMA SoundPop ==
  ASSUME NEW f, NEW idx, NEW log, Half(f, idx, log),
         NEW first \in Seq(Delivery), NEW settled, NEW sizes,
         SoundHalf(f, log, first, settled, sizes), NEW k \in 0..Len(f)
  PROVE  SoundHalf(SubSeq(f, k + 1, Len(f)), log \o Deliveries(f, k), first, settled, sizes)
<1> DEFINE g == SubSeq(f, k + 1, Len(f))
           d == Deliveries(f, k)
           l == log \o d
<1>1. f \in Seq(TxPacket) /\ log \in Seq(Delivery)
  BY DEF Half
<1>2. d \in Seq(Delivery) /\ Len(d) = k
  BY <1>1, DeliveriesType
<1>3. \A i \in 1..k : SoundReport(d[i], settled)
  <2> SUFFICES ASSUME NEW i \in 1..k PROVE SoundReport(d[i], settled)
    OBVIOUS
  <2>1. i \in 1..Len(f) /\ f[i] \in TxPacket
    BY <1>1
  <2>2. d[i] = [id |-> f[i].id, isReliable |-> f[i].isReliable,
                status |-> IF f[i].isAcknowledged THEN "s" ELSE "t"]
    BY DEF Deliveries
  <2>3. Sound(f[i], settled, sizes)
    BY Zenon, <2>1 DEF SoundHalf
  <2> HIDE DEF d
  <2> QED BY <2>2, <2>3 DEF Sound, SoundReport
<1>4. Len(g) \in Nat /\ \A i \in 1..Len(g) : k + i \in 1..Len(f) /\ g[i] = f[k + i]
  BY <1>1
<1> HIDE DEF d, g
<1>5. /\ l \in Seq(Delivery) /\ Len(l) = Len(log) + k
      /\ \A i \in 1..Len(log) : l[i] = log[i]
      /\ \A i \in (Len(log) + 1)..(Len(log) + k) : l[i] = d[i - Len(log)]
  <2>1. k = Len(d) /\ k \in Nat /\ Len(log) \in Nat
    BY <1>1, <1>2
  <2>2. log \o d \in Seq(Delivery)
    BY <1>1, <1>2
  <2> DEFINE m == Len(log)
  <2>3. m \in Nat /\ m = Len(log)
    BY <2>1
  <2> HIDE DEF m
  <2>4. /\ Len(log \o d) = m + k
        /\ \A i \in 1..m : (log \o d)[i] = log[i]
        /\ \A i \in (m + 1)..(m + k) : (log \o d)[i] = d[i - m]
    <3>1. log \in Seq(Delivery) /\ d \in Seq(Delivery) /\ k \in Nat /\ k = Len(d)
      BY <1>1, <1>2, <2>1
    <3> QED BY <2>3, <3>1, ReportsJoin
  <2> QED BY Zenon, <2>2, <2>3, <2>4
<1> HIDE DEF l
<1>6. ASSUME NEW i \in 1..Len(l) PROVE SoundReport(l[i], settled)
  <2>1. CASE i \in 1..Len(log)
    BY Zenon, <1>5, <2>1 DEF SoundHalf
  <2>2. CASE i \in (Len(log) + 1)..(Len(log) + k)
    <3>1. i - Len(log) \in 1..k
      BY <1>1, <2>2
    <3> QED BY Zenon, <1>3, <1>5, <2>2, <3>1
  <2> QED BY <1>1, <1>5, <2>1, <2>2
<1>7. ReportsKept(first, l)
  <2>1. ReportsKept(log, l)
    BY Zenon, <1>1, <1>2, ReportsConcat DEF l
  <2> QED BY Zenon, <1>1, <1>5, <2>1, ReportsTransitive DEF SoundHalf
<1>8. \A i \in 1..Len(g) : Sound(g[i], settled, sizes)
  BY Zenon, <1>4 DEF SoundHalf
<1> QED BY Zenon, <1>6, <1>7, <1>8 DEF SoundHalf, g, d, l

\* processTxFifo reports 's' of a reliable packet only if it was acknowledged
LEMMA SoundProcess ==
  ASSUME NEW f, NEW idx, NEW log, Half(f, idx, log),
         NEW first \in Seq(Delivery), NEW settled, NEW sizes,
         SoundHalf(f, log, first, settled, sizes), processTxFifo(f, idx, log)
  PROVE  SoundHalf(txFifo', txLog', first, settled, sizes)
<1>1. PICK k \in 0..Len(f) :
        /\ txFifo' = SubSeq(f, k + 1, Len(f))
        /\ txLog' = log \o Deliveries(f, k)
  BY Zenon DEF processTxFifo
<1> QED BY Zenon, <1>1, SoundPop

\* a packet that is written to again stays sound
LEMMA SoundPut ==
  ASSUME NEW f, NEW idx, NEW log, Half(f, idx, log),
         NEW first, NEW settled, NEW sizes,
         SoundHalf(f, log, first, settled, sizes),
         NEW i \in 1..Len(f), NEW p, Sound(p, settled, sizes)
  PROVE  SoundHalf([f EXCEPT ![i] = p], log, first, settled, sizes)
<1> DEFINE g == [f EXCEPT ![i] = p]
<1>1. f \in Seq(TxPacket)
  BY DEF Half
<1>2. /\ Len(g) = Len(f)
      /\ \A j \in 1..Len(g) : g[j] = IF j = i THEN p ELSE f[j]
  BY <1>1
<1> HIDE DEF g
<1>3. \A j \in 1..Len(g) : Sound(g[j], settled, sizes)
  BY <1>2 DEF SoundHalf
<1> QED BY Zenon, <1>3 DEF SoundHalf, g

\* a packet of a sound fifo is sound
LEMMA SoundAt ==
  ASSUME NEW f, NEW idx, NEW log, Half(f, idx, log),
         NEW first, NEW settled, NEW sizes,
         SoundHalf(f, log, first, settled, sizes), NEW i \in 1..Len(f)
  PROVE  /\ f[i] \in TxPacket /\ f[i].id \in PacketId
         /\ f[i].size_B \in TxSizes /\ f[i].size_B \in Nat /\ f[i].size_B > 0
         /\ f[i].offset_B \in Nat /\ Sound(f[i], settled, sizes)
<1>1. f[i] \in TxPacket /\ Sound(f[i], settled, sizes)
  BY DEF Half, SoundHalf
<1>2. f[i].id \in PacketId /\ f[i].size_B \in TxSizes /\ f[i].offset_B \in Nat
  BY <1>1, TxPacketType
<1>3. f[i].size_B \in Nat /\ f[i].size_B > 0
  <2>1. f[i].size_B \in Nat \ {0}
    BY Zenon, <1>2, TxAssumption
  <2> QED BY <2>1
<1> QED BY Zenon, <1>1, <1>2, <1>3

\* WriteSmallPacket acknowledges no reliable packet itself
LEMMA SoundSmall ==
  ASSUME NEW f, NEW idx, NEW log, Half(f, idx, log),
         NEW first \in Seq(Delivery), NEW settled, NEW sizes,
         SoundHalf(f, log, first, settled, sizes), NEW i \in 1..Len(f), NEW out,
         WriteSmallPacket(out, f, i - 1, i, log)
  PROVE  SoundHalf(txFifo', txLog', first, settled, sizes)
<1>0. /\ f \in Seq(TxPacket) /\ f[i] \in TxPacket /\ Sound(f[i], settled, sizes)
      /\ i - 1 \in 0..Len(f)
  BY SoundAt DEF Half
<1>1. Half(f, i - 1, log)
  BY <1>0, HalfAt
<1>2. CASE f[i].isReliable
  <2> DEFINE p == [f[i] EXCEPT !.wasWritten = TRUE, !.hasBegun = TRUE]
  <2>1. txFifo' = [f EXCEPT ![i].wasWritten = TRUE, ![i].hasBegun = TRUE] /\ txLog' = log
    BY <1>2 DEF WriteSmallPacket
  <2>2. txFifo' = [f EXCEPT ![i] = p]
    BY <1>0, <2>1
  <2>3. Sound(p, settled, sizes)
    BY <1>0 DEF Sound, TxPacket
  <2> HIDE DEF p
  <2>4. SoundHalf([f EXCEPT ![i] = p], log, first, settled, sizes)
    BY Zenon, <2>3, SoundPut
  <2> QED BY Zenon, <2>1, <2>2, <2>4
<1>3. CASE ~f[i].isReliable
  <2> DEFINE p == [f[i] EXCEPT !.isAcknowledged = TRUE, !.hasBegun = TRUE]
             g == [f EXCEPT ![i].isAcknowledged = TRUE, ![i].hasBegun = TRUE]
  <2>1. processTxFifo(g, i - 1, log)
    BY <1>3 DEF WriteSmallPacket
  <2>2. g = [f EXCEPT ![i] = p]
    BY <1>0
  <2>3. Sound(p, settled, sizes)
    BY <1>0, <1>3 DEF Sound, TxPacket
  <2>4. Assigned(f, i, g)
    BY Zenon, SomeValues DEF Assigned
  <2> HIDE DEF p, g
  <2>5. Half(g, i - 1, log)
    BY <1>1, <2>4, AssignKeepsHalf
  <2>6. SoundHalf(g, log, first, settled, sizes)
    BY Zenon, <2>2, <2>3, SoundPut
  <2> QED BY Zenon, <2>1, <2>5, <2>6, SoundProcess
<1> QED BY <1>2, <1>3

\* WriteBeginOfPacket acknowledges nothing
LEMMA SoundBegin ==
  ASSUME NEW f, NEW idx, NEW log, Half(f, idx, log),
         NEW first \in Seq(Delivery), NEW settled, NEW sizes,
         SoundHalf(f, log, first, settled, sizes), NEW i \in 1..Len(f), NEW out,
         WriteBeginOfPacket(out, f, i - 1, i, log)
  PROVE  SoundHalf(txFifo', txLog', first, settled, sizes)
<1> DEFINE p == [f[i] EXCEPT !.isStarted = TRUE, !.hasBegun = TRUE]
<1>0. f \in Seq(TxPacket) /\ f[i] \in TxPacket /\ Sound(f[i], settled, sizes)
  BY SoundAt DEF Half
<1>1. txFifo' = [f EXCEPT ![i].isStarted = TRUE, ![i].hasBegun = TRUE] /\ txLog' = log
  BY DEF WriteBeginOfPacket
<1>2. txFifo' = [f EXCEPT ![i] = p]
  BY <1>0, <1>1
<1>3. Sound(p, settled, sizes)
  BY <1>0 DEF Sound, TxPacket
<1> HIDE DEF p
<1>4. SoundHalf([f EXCEPT ![i] = p], log, first, settled, sizes)
  BY Zenon, <1>3, SoundPut
<1> QED BY Zenon, <1>1, <1>2, <1>4

\* the offset after a piece is inside the packet, or the packet is done
LEMMA SoundPiece ==
  ASSUME NEW f, NEW idx, NEW log, Half(f, idx, log),
         NEW first \in Seq(Delivery), NEW settled, NEW sizes,
         SoundHalf(f, log, first, settled, sizes), NEW i \in 1..Len(f), NEW out,
         WritePieceOfPacket(out, f, i - 1, i, log)
  PROVE  /\ SoundHalf(txFifo', txLog', first, settled, sizes)
         /\ \E n \in 1..f[i].size_B : out = PieceChunk(f[i], i - 1 = 0, n)
<1>0. /\ f \in Seq(TxPacket) /\ f[i] \in TxPacket /\ Sound(f[i], settled, sizes)
      /\ i - 1 \in 0..Len(f) /\ f[i].size_B \in Nat /\ f[i].size_B > 0 /\ f[i].offset_B \in Nat
  BY SoundAt DEF Half
<1>1. Half(f, i - 1, log)
  BY <1>0, HalfAt
<1>2. PICK n \in 1..MaxPiece :
        /\ f[i].offset_B + n <= f[i].size_B
        /\ out = PieceChunk(f[i], i - 1 = 0, n)
        /\ \/ /\ ~f[i].isReliable
              /\ processTxFifo([f EXCEPT ![i].isAcknowledged = TRUE,
                                         ![i].offset_B = f[i].offset_B + n], i - 1, log)
           \/ /\ txFifo' = [f EXCEPT
                   ![i].offset_B = IF f[i].offset_B + n >= f[i].size_B THEN 0
                                   ELSE f[i].offset_B + n,
                   ![i].isStarted = f[i].offset_B + n < f[i].size_B,
                   ![i].wasWritten = TRUE]
              /\ txLog' = log
  BY DEF WritePieceOfPacket
<1> DEFINE end == f[i].offset_B + n
           rest == IF end >= f[i].size_B THEN 0 ELSE end
           more == end < f[i].size_B
<1>3. /\ end \in Nat /\ rest \in Nat /\ more \in BOOLEAN /\ rest < f[i].size_B
      /\ n \in 1..f[i].size_B
  <2>1. n \in Nat /\ n > 0 /\ MaxPiece \in Nat
    BY SMTT(30), TxAssumption
  <2>2. /\ f[i].size_B \in Nat /\ f[i].size_B > 0 /\ f[i].offset_B \in Nat
        /\ f[i].offset_B + n <= f[i].size_B
    BY Zenon, <1>0, <1>2
  <2>3. end \in Nat /\ n \in 1..f[i].size_B
    BY <2>1, <2>2
  <2>4. CASE end >= f[i].size_B
    BY <2>2, <2>3, <2>4
  <2>5. CASE end < f[i].size_B
    BY <2>2, <2>3, <2>5
  <2> HIDE DEF end
  <2> QED BY SMTT(60), ZenonT(60), <2>2, <2>3, <2>4, <2>5
<1>4. \/ /\ ~f[i].isReliable
         /\ processTxFifo([f EXCEPT ![i].isAcknowledged = TRUE,
                                    ![i].offset_B = end], i - 1, log)
      \/ /\ txFifo' = [f EXCEPT ![i].offset_B = rest, ![i].isStarted = more,
                                ![i].wasWritten = TRUE]
         /\ txLog' = log
  BY Zenon, <1>2
<1> HIDE DEF end, rest, more
<1>5. CASE /\ ~f[i].isReliable
           /\ processTxFifo([f EXCEPT ![i].isAcknowledged = TRUE,
                                      ![i].offset_B = end], i - 1, log)
  <2> DEFINE p == [f[i] EXCEPT !.isAcknowledged = TRUE, !.offset_B = end]
             g == [f EXCEPT ![i].isAcknowledged = TRUE, ![i].offset_B = end]
  <2>1. processTxFifo(g, i - 1, log)
    BY <1>5
  <2>2. g = [f EXCEPT ![i] = p]
    BY <1>0
  <2>3. Sound(p, settled, sizes)
    BY <1>0, <1>5 DEF Sound, TxPacket
  <2>4. Assigned(f, i, g)
    BY Zenon, <1>3, SomeValues DEF Assigned
  <2> HIDE DEF p, g
  <2>5. Half(g, i - 1, log)
    BY <1>1, <2>4, AssignKeepsHalf
  <2>6. SoundHalf(g, log, first, settled, sizes)
    BY Zenon, <2>2, <2>3, SoundPut
  <2> QED BY Zenon, <1>2, <1>3, <2>1, <2>5, <2>6, SoundProcess
<1>6. CASE /\ txFifo' = [f EXCEPT ![i].offset_B = rest, ![i].isStarted = more,
                                  ![i].wasWritten = TRUE]
           /\ txLog' = log
  <2> DEFINE p == [f[i] EXCEPT !.offset_B = rest, !.isStarted = more, !.wasWritten = TRUE]
  <2>1. txFifo' = [f EXCEPT ![i] = p]
    BY <1>0, <1>6
  <2>2. Sound(p, settled, sizes)
    BY <1>0, <1>3 DEF Sound, TxPacket
  <2> HIDE DEF p
  <2>3. SoundHalf([f EXCEPT ![i] = p], log, first, settled, sizes)
    BY Zenon, <2>2, SoundPut
  <2> QED BY Zenon, <1>2, <1>3, <1>6, <2>1, <2>3
<1> QED BY Zenon, <1>4, <1>5, <1>6

\* a chunk made of packet p
ChunkOf(out, p) ==
  \E isFront \in BOOLEAN, n \in 1..p.size_B :
    out \in {SmallChunk(p, isFront), BeginChunk(p, isFront), PieceChunk(p, isFront, n)}

\* A chunk that may be in flight when txFifo is f and log was reported: it tells of
\* a packet that was sent, isFront is true of it, and it lies inside its packet.
Carries(out, f, log) ==
  /\ \E p \in TxPacket : p.id = out.id /\ p.offset_B < p.size_B /\ ChunkOf(out, p)
  /\ out.isFront => out.id <= Len(log)
  /\ out.type = "PieceOfPacket" =>
       \A i \in 1..Len(f) : f[i].id = out.id => out.offset < f[i].size_B

SizesOf(f) == {<<f[i].id, f[i].size_B>> : i \in 1..Len(f)}

\* what a handler of the sender leaves, if settled are the packets the receiver is
\* through with
SoundNext(settled) == SoundHalf(txFifo', txLog', txLog, settled, SizesOf(txFifo))

\* the sizes of the fifo, by id
LEMMA SizeById ==
  ASSUME NEW f, NEW idx, NEW log, Half(f, idx, log), NEW id, NEW m, NEW n,
         <<id, m>> \in SizesOf(f), <<id, n>> \in SizesOf(f)
  PROVE  m = n
<1>1. PICK i \in 1..Len(f) : <<id, m>> = <<f[i].id, f[i].size_B>>
  BY Zenon DEF SizesOf
<1>2. PICK j \in 1..Len(f) : <<id, n>> = <<f[j].id, f[j].size_B>>
  BY Zenon DEF SizesOf
<1>3. f[i].id = id /\ f[j].id = id /\ m = f[i].size_B /\ n = f[j].size_B
  BY <1>1, <1>2
<1>4. f[i].id = Len(log) + i - 1 /\ f[j].id = Len(log) + j - 1 /\ Len(log) \in Nat
  BY DEF Half, Numbered
<1>5. i = j
  BY <1>3, <1>4
<1> QED BY <1>3, <1>5

\* writeDataChunk leaves the sender sound, and what it writes is sound too
LEMMA SoundWrite ==
  ASSUME TxInv, NEW out, WriteDataChunk(out), NEW settled,
         SoundHalf(txFifo, txLog, txLog, settled, SizesOf(txFifo))
  PROVE  /\ SoundNext(settled)
         /\ Carries(out, txFifo', txLog')
         /\ out.id \in PacketId /\ out.id < nextPacketId
<1> DEFINE sizes == SizesOf(txFifo)
<1>0. /\ Half(txFifo, packetFifoIdx, txLog) /\ txFifo \in Seq(TxPacket)
      /\ txLog \in Seq(Delivery) /\ nextPacketId = Len(txLog) + Len(txFifo)
  BY DEF TxInv, Half
<1>1. PICK k \in 0..Len(txFifo) :
        \E i \in 1..Len(SubSeq(txFifo, k + 1, Len(txFifo))) :
          LET f   == SubSeq(txFifo, k + 1, Len(txFifo))
              log == txLog \o Deliveries(txFifo, k)
          IN  /\ ~Done(f[i])
              /\ \/ WriteSmallPacket(out, f, i - 1, i, log)
                 \/ WriteBeginOfPacket(out, f, i - 1, i, log)
                 \/ WritePieceOfPacket(out, f, i - 1, i, log)
  BY ZenonT(60) DEF WriteDataChunk, Selects
<1> DEFINE f   == SubSeq(txFifo, k + 1, Len(txFifo))
           log == txLog \o Deliveries(txFifo, k)
           idx == CursorAfter(packetFifoIdx, k)
<1>2. Half(f, idx, log) /\ Len(f) = Len(txFifo) - k /\ Len(log) = Len(txLog) + k
  BY <1>0, PopKeepsHalf
<1>3. SoundHalf(f, log, txLog, settled, sizes)
  BY Zenon, <1>0, SoundPop
<1>4. PICK i \in 1..Len(f) : /\ ~Done(f[i])
                             /\ \/ WriteSmallPacket(out, f, i - 1, i, log)
                                \/ WriteBeginOfPacket(out, f, i - 1, i, log)
                                \/ WritePieceOfPacket(out, f, i - 1, i, log)
  BY <1>1
<1> HIDE DEF f, log, idx
<1>5. log \in Seq(Delivery) /\ Len(log) \in Nat /\ Len(f) \in Nat
  BY <1>2 DEF Half
<1>6. SoundHalf(f, log, log, settled, sizes)
  BY Zenon, <1>3, <1>5, ReportsSame DEF SoundHalf
<1> HIDE DEF sizes
<1>7. SoundHalf(txFifo', txLog', log, settled, sizes)
  BY Zenon, <1>2, <1>4, <1>5, <1>6, SoundSmall, SoundBegin, SoundPiece
<1>8. txLog' \in Seq(Delivery) /\ txFifo' \in Seq(TxPacket)
  BY WriteKeepsPackets DEF KeepsPackets, Half
<1>9. SoundHalf(txFifo', txLog', txLog, settled, sizes)
  <2>1. ReportsKept(txLog, log) /\ ReportsKept(log, txLog')
    BY Zenon, <1>3, <1>7 DEF SoundHalf
  <2>2. ReportsKept(txLog, txLog')
    BY Zenon, <1>0, <1>5, <1>8, <2>1, ReportsTransitive
  <2> QED BY Zenon, <1>7, <2>2 DEF SoundHalf
<1>10. /\ f[i] \in TxPacket /\ f[i].id \in PacketId /\ f[i].size_B \in Nat /\ f[i].size_B > 0
       /\ Sound(f[i], settled, sizes)
  BY Zenon, <1>2, <1>3, SoundAt
<1>11. f[i].id = Len(log) + i - 1
  BY <1>2 DEF Half, Numbered
<1>12. f[i].id < nextPacketId
  <2>1. Len(txFifo) \in Nat /\ Len(txLog) \in Nat
    BY <1>0
  <2> QED BY SMTT(60), ZenonT(60), <1>0, <1>2, <1>4, <1>5, <1>11, <2>1
<1>13. f[i].offset_B < f[i].size_B /\ <<f[i].id, f[i].size_B>> \in sizes
  BY Zenon, <1>4, <1>10 DEF Sound, Done
<1>14. PICK n \in 1..f[i].size_B :
         out \in {SmallChunk(f[i], i - 1 = 0), BeginChunk(f[i], i - 1 = 0),
                  PieceChunk(f[i], i - 1 = 0, n)}
  <2>1. 1 \in 1..f[i].size_B
    BY <1>10
  <2>2. CASE WriteSmallPacket(out, f, i - 1, i, log)
    BY Zenon, <2>1, <2>2 DEF WriteSmallPacket
  <2>3. CASE WriteBeginOfPacket(out, f, i - 1, i, log)
    BY Zenon, <2>1, <2>3 DEF WriteBeginOfPacket
  <2>4. CASE WritePieceOfPacket(out, f, i - 1, i, log)
    <3>1. \E m \in 1..f[i].size_B : out = PieceChunk(f[i], i - 1 = 0, m)
      BY SMTT(30), ZenonT(30), <1>2, <1>5, <1>6, <2>4, SoundPiece
    <3> QED BY Zenon, <3>1
  <2> QED BY Zenon, <1>4, <2>2, <2>3, <2>4
<1> DEFINE isFront == i - 1 = 0
<1>15. isFront \in BOOLEAN
  OBVIOUS
<1>16. out \in {SmallChunk(f[i], isFront), BeginChunk(f[i], isFront), PieceChunk(f[i], isFront, n)}
  BY Zenon, <1>14
<1>17. isFront => f[i].id = Len(log)
  BY <1>5, <1>11
<1> HIDE DEF isFront
<1>18. ChunkOf(out, f[i])
  BY Zenon, <1>14, <1>15, <1>16 DEF ChunkOf
<1>19. /\ out.id = f[i].id /\ out.isFront = isFront
       /\ out.type = "PieceOfPacket" => out.offset = f[i].offset_B
  BY <1>16 DEF SmallChunk, BeginChunk, PieceChunk
<1>20. out.isFront => out.id <= Len(txLog')
  <2>1. Len(log) <= Len(txLog')
    BY <1>7 DEF SoundHalf, ReportsKept
  <2> QED BY <1>17, <1>19, <2>1
<1>21. ASSUME out.type = "PieceOfPacket", NEW j \in 1..Len(txFifo'), txFifo'[j].id = out.id
       PROVE  out.offset < txFifo'[j].size_B
  <2>1. <<txFifo'[j].id, txFifo'[j].size_B>> \in sizes
    BY Zenon, <1>9 DEF SoundHalf, Sound
  <2>2. <<f[i].id, txFifo'[j].size_B>> \in sizes
    BY Zenon, <1>19, <1>21, <2>1
  <2>3. txFifo'[j].size_B = f[i].size_B
    BY Zenon, <1>0, <1>13, <2>2, SizeById DEF sizes
  <2> QED BY Zenon, <1>13, <1>19, <1>21, <2>3
<1>22. \E p \in TxPacket : p.id = out.id /\ p.offset_B < p.size_B /\ ChunkOf(out, p)
  BY Zenon, <1>10, <1>13, <1>18, <1>19
<1>23. Carries(out, txFifo', txLog')
  BY Zenon, <1>20, <1>21, <1>22 DEF Carries
<1> QED BY Zenon, <1>9, <1>10, <1>12, <1>19, <1>23 DEF SoundNext, sizes

\* the other steps of the sender on its own
LEMMA SoundOther ==
  ASSUME TxInv, WriteNoData \/ TxExpire, NEW settled,
         SoundHalf(txFifo, txLog, txLog, settled, SizesOf(txFifo))
  PROVE  SoundNext(settled)
<1>0. /\ Half(txFifo, packetFifoIdx, txLog) /\ txFifo \in Seq(TxPacket)
      /\ txLog \in Seq(Delivery)
  BY DEF TxInv, Half
<1>1. CASE WriteNoData
  <2>1. PICK k \in 0..Len(txFifo) :
          /\ txFifo' = SubSeq(txFifo, k + 1, Len(txFifo))
          /\ txLog' = txLog \o Deliveries(txFifo, k)
    BY <1>1, Zenon DEF WriteNoData
  <2> QED BY Zenon, <1>0, <2>1, SoundPop DEF SoundNext
<1>2. CASE TxExpire
  <2>1. PICK i \in 1..Len(txFifo) : txFifo' = [txFifo EXCEPT ![i].expired = TRUE]
    BY Zenon, <1>2 DEF TxExpire
  <2>2. txLog' = txLog
    BY Zenon, <1>2 DEF TxExpire
  <2> DEFINE p == [txFifo[i] EXCEPT !.expired = TRUE]
  <2>3. txFifo[i] \in TxPacket /\ Sound(txFifo[i], settled, SizesOf(txFifo))
    BY Zenon, <1>0, SoundAt
  <2>4. txFifo' = [txFifo EXCEPT ![i] = p]
    BY <1>0, <2>1
  <2>5. Sound(p, settled, SizesOf(txFifo))
    BY <2>3 DEF Sound, TxPacket
  <2> HIDE DEF p
  <2>6. SoundHalf([txFifo EXCEPT ![i] = p], txLog, txLog, settled, SizesOf(txFifo))
    BY Zenon, <1>0, <2>5, SoundPut
  <2> QED BY Zenon, <2>2, <2>4, <2>6 DEF SoundNext
<1> QED BY <1>1, <1>2

\* readChunk of an ack or a RepeatInfo: an ack is of a packet the receiver is
\* through with
LEMMA SoundRead ==
  ASSUME TxInv, NEW c \in TxInput, ReadAcknowledge(c) \/ ReadRepeatInfo(c), NEW settled,
         SoundHalf(txFifo, txLog, txLog, settled, SizesOf(txFifo)),
         c.type = "Acknowledge" => c.id \in settled
  PROVE  SoundNext(settled)
<1>0. /\ Half(txFifo, packetFifoIdx, txLog) /\ txFifo \in Seq(TxPacket)
      /\ txLog \in Seq(Delivery)
  BY DEF TxInv, Half
<1>1. ASSUME UNCHANGED <<txFifo, txLog>> PROVE SoundNext(settled)
  BY Zenon, <1>1 DEF SoundNext
<1>2. CASE ReadAcknowledge(c)
  <2>1. ASSUME NEW i \in 1..Len(txFifo), txFifo[i].id = c.id,
               processTxFifo([txFifo EXCEPT ![i].isAcknowledged = TRUE], packetFifoIdx, txLog)
        PROVE  SoundNext(settled)
    <3> DEFINE g == [txFifo EXCEPT ![i].isAcknowledged = TRUE]
               p == [txFifo[i] EXCEPT !.isAcknowledged = TRUE]
    <3>1. Assigned(txFifo, i, g)
      BY Zenon, SomeValues DEF Assigned
    <3>2. processTxFifo(g, packetFifoIdx, txLog)
      BY <2>1
    <3>3. txFifo[i] \in TxPacket /\ Sound(txFifo[i], settled, SizesOf(txFifo))
      BY Zenon, <1>0, SoundAt
    <3>4. g = [txFifo EXCEPT ![i] = p]
      BY <1>0
    <3>5. c.id \in settled
      BY <1>2 DEF ReadAcknowledge
    <3>6. Sound(p, settled, SizesOf(txFifo))
      BY <2>1, <3>3, <3>5 DEF Sound, TxPacket
    <3> HIDE DEF g, p
    <3>7. Half(g, packetFifoIdx, txLog)
      BY <1>0, <3>1, AssignKeepsHalf
    <3>8. SoundHalf(g, txLog, txLog, settled, SizesOf(txFifo))
      BY Zenon, <1>0, <3>4, <3>6, SoundPut
    <3> QED BY Zenon, <1>0, <3>2, <3>7, <3>8, SoundProcess DEF SoundNext
  <2> QED BY Zenon, <1>1, <1>2, <2>1 DEF ReadAcknowledge
<1>3. CASE ReadRepeatInfo(c)
  <2>1. ASSUME NEW i \in 1..Len(txFifo), txFifo[i].id = c.id,
               txFifo' = [txFifo EXCEPT ![i].offset_B = c.offset,
                                        ![i].isStarted = @ /\ c.offset # 0],
               UNCHANGED txLog
        PROVE  SoundNext(settled)
    <3>1. c.offset < txFifo[i].size_B
      <4>1. c.type = "RepeatInfo"
        BY <1>3 DEF ReadRepeatInfo
      <4> QED BY <2>1, <4>1 DEF TxInput
    <3> DEFINE p == [txFifo[i] EXCEPT !.offset_B = c.offset, !.isStarted = @ /\ c.offset # 0]
    <3>2. txFifo[i] \in TxPacket /\ Sound(txFifo[i], settled, SizesOf(txFifo))
      BY Zenon, <1>0, SoundAt
    <3>3. txFifo' = [txFifo EXCEPT ![i] = p]
      BY <1>0, <2>1
    <3>4. Sound(p, settled, SizesOf(txFifo))
      BY <3>1, <3>2 DEF Sound, TxPacket
    <3> HIDE DEF p
    <3>5. SoundHalf([txFifo EXCEPT ![i] = p], txLog, txLog, settled, SizesOf(txFifo))
      BY Zenon, <1>0, <3>4, SoundPut
    <3> QED BY Zenon, <2>1, <3>3, <3>5 DEF SoundNext
  <2> QED BY Zenon, <1>1, <1>3, <2>1 DEF ReadRepeatInfo
<1> QED BY <1>2, <1>3
=============================================================================
