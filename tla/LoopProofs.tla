----------------------------- MODULE LoopProofs -----------------------------
(***************************************************************************)
(* Two loops without concurrency.  findPacketIdx is right for every fifo   *)
(* of consecutive ids, of any length up to the whole id space, wherever in *)
(* it the ids wrap.  A datagram stays within the path MTU and the reader   *)
(* finds the chunks the writer put into it, for numbers of any width, any  *)
(* PMTU_B and any sizes of packets.                                        *)
(***************************************************************************)
EXTENDS FindPacketIdx, Datagram, TLAPS

-----------------------------------------------------------------------------
(* findPacketIdx                                                           *)

FindTypes ==
  /\ first \in PacketId /\ packetId \in PacketId /\ size \in 0..(UINT32_MAX + 1)

\* If the fifo holds the id, it is in the part that is still searched.
Bracketed ==
  \A j \in 0..(size - 1) : fifo(j) = packetId => leftIdx <= j /\ j <= rightIdx

FindInv ==
  /\ FindTypes
  /\ IndexesInFifo
  /\ result = Searching => Bracketed
  /\ FindsPacket

-----------------------------------------------------------------------------
\* the middle lies between the ends
LEMMA Middle ==
  ASSUME NEW l \in Nat, NEW r \in Nat, l <= r
  PROVE  l + (r - l) \div 2 \in l..r
  OBVIOUS

\* the ids of the fifo are naturals
LEMMA FifoType ==
  ASSUME FindTypes, NEW j \in 0..(size - 1)
  PROVE  fifo(j) \in Nat
  BY IdSpaceAssumption DEF FindTypes, PacketId, fifo

\* Where GoesLeft holds, an id at index j between the ends is left of the
\* middle; where it does not, it is right of it.
LEMMA Halves ==
  ASSUME FindTypes, result = Searching, IndexesInFifo, leftIdx <= rightIdx,
         fifo(midIdx) # packetId,
         NEW j \in leftIdx..rightIdx, fifo(j) = packetId
  PROVE  IF GoesLeft THEN j <= midIdx - 1 ELSE midIdx + 1 <= j
<1>1. PICK m \in Int : m = midIdx /\ leftIdx <= m /\ m <= rightIdx
  <2>1. leftIdx \in Nat /\ rightIdx \in Nat
    BY DEF IndexesInFifo, FindTypes
  <2> QED  BY <2>1, Middle DEF midIdx
<1>2. /\ leftIdx \in Nat /\ rightIdx \in Nat /\ rightIdx < size
      /\ first \in Nat /\ first <= UINT32_MAX /\ size \in Nat
      /\ size <= UINT32_MAX + 1 /\ packetId \in Nat
  BY IdSpaceAssumption DEF IndexesInFifo, FindTypes, PacketId
<1>3. fifo(m) # packetId
  BY <1>1
<1>4. GoesLeft <=> IF fifo(leftIdx) <= fifo(m)
                   THEN fifo(leftIdx) <= packetId /\ packetId < fifo(m)
                   ELSE ~(fifo(m) < packetId /\ packetId <= fifo(rightIdx))
  BY <1>1 DEF GoesLeft
<1>5. j # m
  BY <1>3
<1>6. IF GoesLeft THEN j < m ELSE m < j
  <2> HIDE DEF midIdx
  <2> QED  BY <1>1, <1>2, <1>4, <1>5, IdSpaceAssumption DEF fifo
<1> QED  BY <1>1, <1>2, <1>6

\* Narrowing leaves both ends inside the fifo.
LEMMA NarrowInFifo ==
  ASSUME FindTypes, result = Searching, IndexesInFifo, leftIdx <= rightIdx
  PROVE  /\ midIdx \in 0..(size - 1)
         /\ GoesLeft /\ fifo(midIdx) # packetId => midIdx - 1 \in 0..(size - 1)
<1>1. PICK m \in Int : m = midIdx /\ leftIdx <= m /\ m <= rightIdx
  <2>1. leftIdx \in Nat /\ rightIdx \in Nat
    BY DEF IndexesInFifo, FindTypes
  <2> QED  BY <2>1, Middle DEF midIdx
<1>2. leftIdx \in Nat /\ rightIdx \in Nat /\ rightIdx < size /\ size \in Nat
  BY DEF IndexesInFifo, FindTypes
<1>3. fifo(leftIdx) \in Nat /\ packetId \in Nat
  BY <1>1, <1>2, FifoType, IdSpaceAssumption DEF FindTypes, PacketId
<1>4. m = leftIdx => ~GoesLeft
  BY <1>1, <1>3 DEF GoesLeft
<1> QED  BY <1>1, <1>2, <1>4

\* The invariant holds when findPacketIdx is called.
LEMMA FindStart == ASSUME FindInit PROVE FindInv
<1>1. FindTypes
  BY DEF FindInit, FindTypes
<1>2. CASE size = 0
  BY <1>1, <1>2 DEF FindInit, FindInv, IndexesInFifo, FindsPacket, SIZE_MAX, Searching
<1>3. CASE size # 0
  <2>1. /\ leftIdx = 0 /\ rightIdx = size - 1 /\ result = Searching
        /\ size \in Nat \ {0}
    BY <1>1, <1>3, IdSpaceAssumption DEF FindInit, FindTypes
  <2> QED  BY <1>1, <2>1 DEF FindInv, IndexesInFifo, Bracketed, FindsPacket
<1> QED  BY <1>2, <1>3

\* Every step of the search preserves the invariant.
LEMMA FindStep == ASSUME FindInv, [FindNext]_findVars PROVE FindInv'
<1>0. FindTypes /\ IndexesInFifo
  BY DEF FindInv
<1>1. CASE Narrow
  <2>1. /\ result = Searching /\ leftIdx <= rightIdx /\ fifo(midIdx) # packetId
        /\ first' = first /\ size' = size /\ packetId' = packetId /\ result' = result
    BY <1>1 DEF Narrow
  <2>2. FindTypes'
    BY <1>0, <2>1 DEF FindTypes
  <2>3. PICK m \in Int : /\ m = midIdx /\ m \in 0..(size - 1)
                         /\ GoesLeft => m - 1 \in 0..(size - 1)
    BY <1>0, <2>1, NarrowInFifo
  <2>4. IF GoesLeft THEN rightIdx' = m - 1 /\ leftIdx' = leftIdx
                    ELSE leftIdx' = m + 1 /\ rightIdx' = rightIdx
    BY <1>1, <2>3 DEF Narrow
  <2>5. IndexesInFifo'
    <3>1. leftIdx \in 0..size /\ rightIdx \in 0..(size - 1) /\ size \in Nat
      BY <1>0, <2>1 DEF IndexesInFifo, FindTypes
    <3> QED  BY <2>1, <2>3, <2>4, <3>1 DEF IndexesInFifo
  <2>6. Bracketed'
    <3>1. ASSUME NEW j \in 0..(size - 1), fifo(j) = packetId
          PROVE  leftIdx' <= j /\ j <= rightIdx'
      <4>1. leftIdx <= j /\ j <= rightIdx /\ j \in leftIdx..rightIdx
        BY <1>0, <2>1, <3>1 DEF FindInv, Bracketed, IndexesInFifo, FindTypes
      <4>2. IF GoesLeft THEN j <= m - 1 ELSE m + 1 <= j
        BY <1>0, <2>1, <2>3, <3>1, <4>1, Halves
      <4> QED  BY <2>4, <4>1, <4>2
    <3>2. \A j : fifo(j)' = fifo(j)
      BY <2>1 DEF fifo
    <3> QED  BY <2>1, <3>1, <3>2 DEF Bracketed
  <2> QED  BY <2>1, <2>2, <2>5, <2>6 DEF FindInv, FindsPacket
<1>2. CASE Hit
  <2>1. midIdx \in 0..(size - 1)
    BY <1>0, <1>2, NarrowInFifo DEF Hit
  <2>2. result' # Searching /\ result' # SIZE_MAX
    BY <1>0, <1>2, <2>1 DEF Hit, Searching, SIZE_MAX, FindTypes
  <2> QED  BY <1>0, <1>2, <2>1, <2>2
           DEF Hit, FindInv, FindTypes, IndexesInFifo, FindsPacket, fifo
<1>3. CASE Miss
  <2>1. \A j \in 0..(size - 1) : fifo(j) # packetId
    BY <1>0, <1>3 DEF Miss, FindInv, Bracketed, IndexesInFifo, FindTypes
  <2> QED  BY <1>0, <1>3, <2>1
           DEF Miss, FindInv, FindTypes, IndexesInFifo, FindsPacket, fifo, Searching, SIZE_MAX
<1>4. CASE UNCHANGED findVars
  BY <1>4 DEF findVars, FindInv, FindTypes, IndexesInFifo, Bracketed, FindsPacket, fifo
<1> QED  BY <1>1, <1>2, <1>3, <1>4 DEF FindNext

\* findPacketIdx returns the index of the id, and SIZE_MAX only if the fifo
\* does not hold it.
THEOREM FindCorrect == FindSpec => []FindsPacket
<1>1. FindInv => FindsPacket
  BY DEF FindInv
<1> QED  BY <1>1, FindStart, FindStep, PTL DEF FindSpec

\* midIdx - 1 never underflows: the loop of findPacketIdx reads inside the fifo.
THEOREM FindInBounds == FindSpec => []IndexesInFifo
<1>1. FindInv => IndexesInFifo
  BY DEF FindInv
<1> QED  BY <1>1, FindStart, FindStep, PTL DEF FindSpec

\* Every turn of the loop of findPacketIdx returns or leaves at most half of the
\* fifo to look at; FindEnds, its end in time, is what TLC checks.
THEOREM FindHalves ==
  FindSpec => [][result' = Searching =>
                   2 * (rightIdx' - leftIdx' + 1) <= rightIdx - leftIdx + 1]_findVars
<1>1. FindInv /\ [FindNext]_findVars =>
        [result' = Searching => 2 * (rightIdx' - leftIdx' + 1) <= rightIdx - leftIdx + 1]_findVars
  <2> SUFFICES ASSUME FindInv, FindNext, result' = Searching
               PROVE  2 * (rightIdx' - leftIdx' + 1) <= rightIdx - leftIdx + 1
    OBVIOUS
  <2>1. Narrow
    <3>1. CASE Hit
      <4>1. midIdx \in 0..(size - 1) /\ result' = midIdx
        BY <3>1, NarrowInFifo DEF Hit, FindInv
      <4> QED BY <4>1 DEF Searching, FindInv, FindTypes
    <3>2. CASE Miss
      BY <3>2 DEF Miss, Searching, SIZE_MAX
    <3> QED BY <3>1, <3>2 DEF FindNext
  <2>2. /\ leftIdx \in Int /\ rightIdx \in Int /\ leftIdx <= rightIdx
        /\ \/ rightIdx' = midIdx - 1 /\ leftIdx' = leftIdx
           \/ leftIdx' = midIdx + 1 /\ rightIdx' = rightIdx
    BY <2>1 DEF Narrow, FindInv, IndexesInFifo
  <2> QED BY <2>2 DEF midIdx
<1> QED BY <1>1, FindStart, FindStep, PTL DEF FindSpec

-----------------------------------------------------------------------------
(* Datagrams                                                               *)

Types == {"Acknowledge", "SmallPacket", "BeginOfPacket", "PieceOfPacket", "RepeatInfo"}

\* What the writer may say: packets and pieces that fit into a datagram are not
\* empty and take no more than two bytes for their size.
Chunk ==
  {c \in [type : Types, a : 0..Max_u64, b : 0..Max_u64] :
     /\ c.type = "SmallPacket" => c.a \in 1..Max_u16
     /\ c.type = "PieceOfPacket" => c.b \in 1..Max_u16}

-----------------------------------------------------------------------------
(* One number and one chunk                                                *)

LEMMA ModSmall ==
  ASSUME NEW v \in Nat, NEW m \in Nat, v <= m
  PROVE  v % (1 + m) = v /\ v % (m + 1) = v
OBVIOUS

LEMMA BitsOfSize ==
  ASSUME NEW v \in 0..Max_u64
  PROVE  \/ v <= Max_u8 /\ getNumberOfBits(v) = 0
         \/ Max_u8 < v /\ v <= Max_u16 /\ getNumberOfBits(v) = 1
         \/ Max_u16 < v /\ v <= Max_u32 /\ getNumberOfBits(v) = 2
         \/ Max_u32 < v /\ getNumberOfBits(v) = 3
<1> USE DatagramAssumption
<1>1. CASE v <= Max_u16
  <2>1. v % (Max_u32 + 1) = v /\ v % (Max_u16 + 1) = v
    BY <1>1, ModSmall
  <2> QED BY <1>1, <2>1 DEF getNumberOfBits
<1>2. CASE Max_u16 < v /\ v <= Max_u32
  <2>1. v % (Max_u32 + 1) = v
    BY <1>2, ModSmall
  <2> QED BY <1>2, <2>1 DEF getNumberOfBits
<1>3. CASE Max_u32 < v
  BY <1>3 DEF getNumberOfBits
<1> QED BY <1>1, <1>2, <1>3

\* A number is stored in as many bytes as it needs, and none of it is lost.
LEMMA NumberKept ==
  ASSUME NEW v \in 0..Max_u64
  PROVE  /\ Stored(v, getNumberOfBits(v)) = v
         /\ Bytes(v) \in {1, 2, 4, 8}
         /\ v <= Max_u16 => getNumberOfBits(v) <= 1 /\ Bytes(v) <= 2
<1> USE DatagramAssumption
<1>1. CASE v <= Max_u8 /\ getNumberOfBits(v) = 0
  <2>1. v % (1 + Max_u8) = v
    BY <1>1, ModSmall
  <2> QED BY <1>1, <2>1 DEF Stored, Bytes, getNumberOfBytes
<1>2. CASE Max_u8 < v /\ v <= Max_u16 /\ getNumberOfBits(v) = 1
  <2>1. v % (1 + Max_u16) = v
    BY <1>2, ModSmall
  <2> QED BY <1>2, <2>1 DEF Stored, Bytes, getNumberOfBytes
<1>3. CASE Max_u16 < v /\ v <= Max_u32 /\ getNumberOfBits(v) = 2
  <2>1. v % (1 + Max_u32) = v
    BY <1>3, ModSmall
  <2> QED BY <1>3, <2>1 DEF Stored, Bytes, getNumberOfBytes
<1>4. CASE Max_u32 < v /\ getNumberOfBits(v) = 3
  <2>1. v % (1 + Max_u64) = v
    BY ModSmall
  <2> QED BY <1>4, <2>1 DEF Stored, Bytes, getNumberOfBytes
<1> QED BY <1>1, <1>2, <1>3, <1>4, BitsOfSize

\* Wherever a stored chunk starts, readChunk finds what was meant and its end.
LEMMA ChunkKept ==
  ASSUME NEW c \in Chunk
  PROVE  /\ Decoded(Encoded(c)) = c
         /\ Written_B(c) \in Nat /\ Written_B(c) >= g_chunkHeader_B
         /\ \A available \in Nat :
              available >= Written_B(c) => Readed_B(Encoded(c), available) = Written_B(c)
<1> DEFINE e == Encoded(c)
<1>1. /\ c.a \in 0..Max_u64 /\ c.b \in 0..Max_u64 /\ c.type \in Types
      /\ c = [type |-> c.type, a |-> c.a, b |-> c.b]
      /\ c.type = "SmallPacket" => c.a \in 1..Max_u16
      /\ c.type = "PieceOfPacket" => c.b \in 1..Max_u16
  BY DEF Chunk
<1>2. /\ e.type = c.type /\ e.a = c.a /\ e.b = c.b
      /\ getNumberOfBytes(e.aBits) = Bytes(c.a) /\ getNumberOfBytes(e.bBits) = Bytes(c.b)
      /\ e.aBits = getNumberOfBits(c.a) /\ e.bBits = getNumberOfBits(c.b)
  BY <1>1, NumberKept DEF Encoded, Bytes
<1>3. /\ Bytes(c.a) \in {1, 2, 4, 8} /\ Bytes(c.b) \in {1, 2, 4, 8}
      /\ c.type = "SmallPacket" => e.aBits <= 1
      /\ c.type = "PieceOfPacket" => e.bBits <= 1
  BY <1>1, <1>2, NumberKept, DatagramAssumption
<1> HIDE DEF e
<1>4. Decoded(e) = c
  BY <1>1, <1>2 DEF Decoded, Said
<1>5. Found_B(e) = Written_B(c)
  BY <1>2 DEF Found_B, Written_B
<1>6. Written_B(c) \in Nat /\ Written_B(c) >= g_chunkHeader_B
  BY <1>1, <1>3 DEF Written_B, Chunk_B, g_chunkHeader_B, Crc32_B, Types
<1>7. c.type = "PieceOfPacket" => g_chunkHeader_B + Bytes(c.a) + Bytes(c.b) + 1 <= Written_B(c)
  BY <1>1, <1>3, DatagramAssumption DEF Written_B, Chunk_B, g_chunkHeader_B
<1>8. ASSUME NEW available \in Nat, available >= Written_B(c)
      PROVE  Readed_B(e, available) = Written_B(c)
  <2>1. ~(available < 3)
    BY <1>6, <1>8 DEF g_chunkHeader_B
  <2>2. ~(e.type = "SmallPacket" /\ (e.aBits > 1 \/ e.a = 0))
    <3>1. c.type = "SmallPacket" => ~(e.aBits > 1)
      BY <1>1, <1>2, <1>3, BitsOfSize
    <3> QED BY <1>1, <1>2, <3>1
  <2>3. ~(e.type = "PieceOfPacket"
            /\ (e.bBits > 1
                \/ g_chunkHeader_B + getNumberOfBytes(e.aBits) + getNumberOfBytes(e.bBits) + 1
                     > available))
    <3>1. c.type = "PieceOfPacket" => ~(e.bBits > 1)
      BY <1>1, <1>2, <1>3, BitsOfSize
    <3>2. c.type = "PieceOfPacket"
            => ~(g_chunkHeader_B + Bytes(c.a) + Bytes(c.b) + 1 > available)
      BY <1>3, <1>6, <1>7, <1>8 DEF g_chunkHeader_B
    <3> QED BY <1>2, <3>1, <3>2
  <2>4. ~(Found_B(e) > available)
    BY <1>5, <1>6, <1>8
  <2> QED BY <1>5, <2>1, <2>2, <2>3, <2>4, Zenon DEF Readed_B
<1> QED BY <1>4, <1>6, <1>8 DEF e

-----------------------------------------------------------------------------
(* The whole datagram                                                      *)

EncodedChunk == {Encoded(c) : c \in Chunk}

\* The chunks lie one behind the other, from the header to offset.
Chain(m, e, s, offset) ==
  /\ m \in Seq(Chunk) /\ e \in Seq(EncodedChunk) /\ s \in Seq(Nat) /\ offset \in Nat
  /\ Len(e) = Len(m) /\ Len(s) = Len(m)
  /\ \A i \in 1..Len(m) : e[i] = Encoded(m[i])
  /\ \A i \in 1..Len(m) : s[i] + Written_B(m[i]) = IF i = Len(m) THEN offset ELSE s[i + 1]
  /\ IF Len(m) = 0 THEN offset = Header_B ELSE s[1] = Header_B
  /\ \A i \in 1..Len(m) : s[i] < offset
  /\ \A i, j \in 1..Len(m) : i < j => s[i] < s[j]

LEMMA ChainPut ==
  ASSUME NEW m, NEW e, NEW s, NEW offset, NEW c \in Chunk, Chain(m, e, s, offset)
  PROVE  Chain(Append(m, c), Append(e, Encoded(c)), Append(s, offset), offset + Written_B(c))
<1> DEFINE n == Len(m)
           w == Written_B(c)
           x == Encoded(c)
           m2 == Append(m, c)
           e2 == Append(e, x)
           s2 == Append(s, offset)
<1>1. /\ m \in Seq(Chunk) /\ Len(e) = n /\ s \in Seq(Nat) /\ Len(s) = n /\ n \in Nat
      /\ offset \in Nat /\ e \in Seq(EncodedChunk)
  BY DEF Chain
<1>12. x \in EncodedChunk
  BY DEF EncodedChunk
<1>2. w \in Nat /\ w > 0
  BY ChunkKept DEF g_chunkHeader_B
<1> HIDE DEF w, x
<1>3. /\ m2 \in Seq(Chunk) /\ Len(m2) = n + 1 /\ m2[n + 1] = c
      /\ \A i \in 1..n : m2[i] = m[i]
  BY <1>1
<1>4. s2 \in Seq(Nat) /\ Len(s2) = n + 1 /\ s2[n + 1] = offset /\ \A i \in 1..n : s2[i] = s[i]
  BY <1>1
<1>5. /\ e2 \in Seq(EncodedChunk) /\ Len(e2) = n + 1 /\ e2[n + 1] = x
      /\ \A i \in 1..n : e2[i] = e[i]
  BY <1>1, <1>12
<1> HIDE DEF m2, s2, e2, n
<1>6. /\ \A i \in 1..n : e[i] = Encoded(m[i])
      /\ \A i \in 1..n : s[i] + Written_B(m[i]) = IF i = n THEN offset ELSE s[i + 1]
      /\ IF n = 0 THEN offset = Header_B ELSE s[1] = Header_B
      /\ \A i \in 1..n : s[i] < offset
      /\ \A i, j \in 1..n : i < j => s[i] < s[j]
  BY Zenon DEF Chain, n
<1>13. \A i \in 1..n : s[i] \in Nat
  BY <1>1
<1>7. ASSUME NEW i \in 1..(n + 1)
      PROVE  /\ e2[i] = Encoded(m2[i])
             /\ s2[i] + Written_B(m2[i]) = IF i = n + 1 THEN offset + w ELSE s2[i + 1]
             /\ s2[i] < offset + w
  <2>1. CASE i = n + 1
    BY <1>1, <1>2, <1>3, <1>4, <1>5, <2>1 DEF w, x
  <2>2. CASE i \in 1..n
    <3>1. i = n => s2[i + 1] = offset
      BY <1>4
    <3>2. i # n => i + 1 \in 1..n /\ s2[i + 1] = s[i + 1]
      BY <1>1, <1>4, <2>2
    <3>3. i # n + 1 /\ s[i] < offset /\ s[i] \in Nat
      BY <1>1, <1>6, <1>13, <2>2
    <3>4. s2[i] < offset + w
      BY <1>1, <1>2, <1>4, <2>2, <3>3
    <3>5. m2[i] = m[i] /\ s2[i] = s[i] /\ e2[i] = e[i]
      BY <1>3, <1>4, <1>5, <2>2
    <3>6. e2[i] = Encoded(m2[i])
      BY <1>6, <2>2, <3>5
    <3>7. s2[i] + Written_B(m2[i]) = IF i = n THEN offset ELSE s[i + 1]
      BY <1>6, <2>2, <3>5
    <3>8. s2[i] + Written_B(m2[i]) = s2[i + 1]
      BY <3>1, <3>2, <3>7
    <3> QED BY <3>3, <3>4, <3>6, <3>8
  <2> QED BY <1>1, <2>1, <2>2
<1>8. s2[1] = Header_B
  BY <1>1, <1>4, <1>6
<1>9. ASSUME NEW i \in 1..(n + 1), NEW j \in 1..(n + 1), i < j PROVE s2[i] < s2[j]
  <2>1. i \in 1..n /\ (j \in 1..n \/ j = n + 1)
    BY <1>1, <1>9
  <2> QED BY <1>4, <1>6, <1>9, <2>1
<1>10. offset + w \in Nat /\ n + 1 # 0
  BY <1>1, <1>2
<1>11. Chain(m2, e2, s2, offset + w)
  BY <1>3, <1>4, <1>5, <1>7, <1>8, <1>9, <1>10 DEF Chain
<1> QED BY <1>11 DEF m2, e2, s2, w, x

\* Where the writer is, where the reader is, and how far it has come: it stands
\* at the start of the chunk after those it has read.
DatagramInv ==
  /\ PMTU_B \in Header_B..Max_u16
  /\ Chain(meant, chunks, starts, offset_B)
  /\ FitsPMTU
  /\ doing \in {"meta", "data", "read", "done"}
  /\ read \in Seq(Chunk) /\ Len(read) <= Len(meant)
  /\ \A i \in 1..Len(read) : read[i] = meant[i]
  /\ doing \in {"meta", "data"} => read = <<>> /\ rxOffset_B = Header_B
  /\ doing \in {"read", "done"} =>
       /\ size_B \in Nat /\ offset_B <= size_B
       /\ rxOffset_B = IF Len(read) = Len(meant) THEN offset_B ELSE starts[Len(read) + 1]
  /\ doing = "done" => Len(read) = Len(meant)

\* What is put into the datagram fits and is a chunk.
LEMMA PutKeeps ==
  ASSUME DatagramInv, NEW c \in Chunk, Written_B(c) <= available_B, Put(c),
         doing \in {"meta", "data"}
  PROVE  DatagramInv'
<1>1. Chain(meant', chunks', starts', offset_B')
  BY ChainPut DEF DatagramInv, Put
<1>2. PMTU_B \in Nat /\ offset_B \in Nat /\ Written_B(c) \in Nat
  BY ChunkKept, DatagramAssumption DEF DatagramInv, Chain
<1>3. FitsPMTU'
  BY <1>2 DEF Put, FitsPMTU, available_B
<1>4. read = <<>> /\ rxOffset_B = Header_B /\ UNCHANGED <<PMTU_B, doing, rxOffset_B, read>>
  BY DEF DatagramInv, Put
<1>5. meant' \in Seq(Chunk) /\ Len(meant') \in Nat
  BY <1>1 DEF Chain
<1>6. /\ read' \in Seq(Chunk) /\ Len(read') <= Len(meant')
      /\ \A i \in 1..Len(read') : read'[i] = meant'[i]
  BY <1>4, <1>5
<1>7. /\ PMTU_B' \in Header_B..Max_u16 /\ doing' \in {"meta", "data"}
  BY <1>4 DEF DatagramInv
<1> QED BY <1>1, <1>3, <1>4, <1>6, <1>7 DEF DatagramInv

LEMMA MetaKeeps ==
  ASSUME DatagramInv, WriteMetaChunk
  PROVE  DatagramInv'
<1>1. PICK c \in {Said("Acknowledge", 0, 0)}
              \cup {Said("RepeatInfo", offset, bytes) : offset \in Offsets, bytes \in Offsets} :
        Written_B(c) <= available_B /\ Put(c)
  BY DEF WriteMetaChunk
<1>2. c \in Chunk
  BY DatagramAssumption DEF Said, Chunk, Types
<1> QED BY <1>1, <1>2, PutKeeps DEF WriteMetaChunk

LEMMA DataKeeps ==
  ASSUME DatagramInv, WriteDataChunk
  PROVE  DatagramInv'
<1>0. /\ available_B \in Nat /\ available_B <= Max_u16 /\ doing = "data"
  BY DatagramAssumption DEF DatagramInv, Chain, FitsPMTU, available_B, WriteDataChunk
<1>1. PICK bytes \in PacketSizes :
        \/ WriteSmallPacket(bytes)
        \/ WriteBeginOfPacket(bytes)
        \/ \E offset \in Offsets : offset < bytes /\ WritePieceOfPacket(bytes, offset)
  BY DEF WriteDataChunk
<1>2. bytes \in 1..Max_u64 /\ Bytes(bytes) \in {1, 2, 4, 8} /\ Bytes(0) \in {1, 2, 4, 8}
  <2>1. bytes \in 1..Max_u64 /\ bytes \in 0..Max_u64 /\ 0 \in 0..Max_u64
    <3>1. bytes \in 1..Max_u64 /\ Max_u64 \in Nat
      BY DatagramAssumption, Zenon
    <3> QED BY <3>1
  <2> QED BY <2>1, NumberKept
<1>3. CASE WriteSmallPacket(bytes)
  <2> DEFINE c == Said("SmallPacket", bytes, 0)
  <2>1. Written_B(c) = 6 + Bytes(bytes) + bytes
    BY DEF Said, Written_B, Chunk_B, g_chunkHeader_B
  <2>2. Written_B(c) <= available_B /\ Put(c)
    BY <1>3 DEF WriteSmallPacket, FitsWhole
  <2>3. bytes \in 1..Max_u16
    BY <1>0, <1>2, <2>1, <2>2, DatagramAssumption
  <2>4. c \in Chunk
    BY <1>2, <2>3, DatagramAssumption DEF Said, Chunk, Types
  <2> QED BY <1>0, <2>2, <2>4, PutKeeps
<1>4. CASE WriteBeginOfPacket(bytes)
  <2> DEFINE c == Said("BeginOfPacket", bytes, 0)
  <2>1. Written_B(c) <= available_B /\ Put(c)
    BY <1>4 DEF WriteBeginOfPacket
  <2>2. c \in Chunk
    BY <1>2, DatagramAssumption DEF Said, Chunk, Types
  <2> QED BY <1>0, <2>1, <2>2, PutKeeps
<1>5. ASSUME NEW offset \in Offsets, offset < bytes, WritePieceOfPacket(bytes, offset)
      PROVE  DatagramInv'
  <2>1. offset \in 0..Max_u64
    BY DatagramAssumption
  <2>2. Bytes(offset) \in {1, 2, 4, 8}
    BY <2>1, NumberKept
  <2> DEFINE room == available_B - PieceMaxFor1B_B(offset) + 1
             left == bytes - offset
             piece == IF room < left THEN room ELSE left
             c == Said("PieceOfPacket", offset, piece)
  <2>3. PieceMaxFor1B_B(offset) = 9 + Bytes(offset) /\ available_B >= PieceMaxFor1B_B(offset)
    BY <1>5, <2>2 DEF PieceMaxFor1B_B, g_chunkHeader_B, WritePieceOfPacket
  <2>4. /\ room \in 1..Max_u16 /\ left \in 1..Max_u64
        /\ 8 + Bytes(offset) + room = available_B
    BY <1>0, <1>2, <1>5, <2>1, <2>2, <2>3, DatagramAssumption
  <2>5. Put(c)
    BY <1>5 DEF WritePieceOfPacket
  <2> HIDE DEF room, left
  <2>6. piece \in 1..Max_u16 /\ piece <= room
    BY <2>4, DatagramAssumption
  <2> HIDE DEF piece
  <2>7. c \in Chunk
    BY <2>1, <2>6, DatagramAssumption DEF Said, Chunk, Types
  <2>8. Bytes(piece) \in {1, 2, 4, 8} /\ Bytes(piece) <= 2
    <3>1. piece \in 0..Max_u64 /\ piece <= Max_u16
      BY <2>6, DatagramAssumption
    <3> QED BY <3>1, NumberKept
  <2>9. Written_B(c) = 6 + Bytes(offset) + Bytes(piece) + piece
    BY DEF Said, Written_B, Chunk_B, g_chunkHeader_B
  <2>10. Written_B(c) <= available_B
    BY <1>0, <2>2, <2>4, <2>6, <2>8, <2>9
  <2> QED BY <1>0, <2>5, <2>7, <2>10, PutKeeps
<1> QED BY <1>1, <1>3, <1>4, <1>5

LEMMA ReadKeeps ==
  ASSUME DatagramInv, ReadChunk
  PROVE  DatagramInv'
<1> DEFINE n == Len(meant)
           k == Len(read)
<1>1. PICK i \in 1..Len(chunks) :
        /\ starts[i] = rxOffset_B
        /\ LET readed_B == Readed_B(chunks[i], size_B - rxOffset_B)
           IN  IF readed_B = 0 THEN doing' = "done" /\ UNCHANGED <<rxOffset_B, read>>
               ELSE /\ rxOffset_B' = rxOffset_B + readed_B
                    /\ read' = Append(read, Decoded(chunks[i]))
                    /\ UNCHANGED doing
  BY DEF ReadChunk
<1>2. /\ n \in Nat /\ k \in Nat /\ k <= n /\ Len(chunks) = n /\ offset_B \in Nat
      /\ read \in Seq(Chunk) /\ meant \in Seq(Chunk) /\ starts \in Seq(Nat) /\ Len(starts) = n
  BY DEF DatagramInv, Chain
<1>3. /\ \A j \in 1..n : chunks[j] = Encoded(meant[j])
      /\ \A j \in 1..n : starts[j] + Written_B(meant[j]) = IF j = n THEN offset_B ELSE starts[j + 1]
      /\ \A j \in 1..n : starts[j] < offset_B
      /\ \A j, l \in 1..n : j < l => starts[j] < starts[l]
  BY Zenon DEF DatagramInv, Chain
<1>4. /\ doing = "read" /\ size_B \in Nat /\ offset_B <= size_B
      /\ rxOffset_B = IF k = n THEN offset_B ELSE starts[k + 1]
      /\ \A j \in 1..k : read[j] = meant[j]
  BY DEF DatagramInv, ReadChunk
<1>5. /\ \A j \in 1..n : starts[j] \in Nat /\ meant[j] \in Chunk
  BY <1>2
<1> HIDE DEF n, k
<1>6. i = k + 1 /\ i \in 1..n
  <2>1. i \in 1..n /\ starts[i] = rxOffset_B
    BY <1>1, <1>2
  <2>2. starts[i] \in Nat /\ starts[i] < offset_B
    BY Zenon, <1>3, <1>5, <2>1
  <2>3. k # n
    BY <1>2, <1>4, <2>1, <2>2
  <2>4. k + 1 \in 1..n /\ starts[i] = starts[k + 1]
    BY <1>2, <1>4, <2>1, <2>3
  <2>5. starts[k + 1] \in Nat
    BY Zenon, <1>5, <2>4
  <2>6. ~(i < k + 1) /\ ~(k + 1 < i)
    <3>1. ~(starts[i] < starts[k + 1]) /\ ~(starts[k + 1] < starts[i])
      BY <2>2, <2>4, <2>5
    <3> QED BY Zenon, <1>3, <2>1, <2>4, <3>1
  <2> QED BY <1>2, <2>1, <2>4, <2>6
<1> DEFINE c == meant[i]
           w == Written_B(c)
<1>7. c \in Chunk /\ chunks[i] = Encoded(c) /\ starts[i] \in Nat
  BY <1>3, <1>5, <1>6
<1>8. w \in Nat /\ w > 0
  BY <1>7, ChunkKept DEF g_chunkHeader_B
<1>9. starts[i] + w = IF i = n THEN offset_B ELSE starts[i + 1]
  BY <1>3, <1>6
<1>10. starts[i] + w <= offset_B
  <2>1. CASE i = n
    BY <1>2, <1>9, <2>1
  <2>2. CASE i # n
    <3>1. i + 1 \in 1..n
      BY <1>2, <1>6, <2>2
    <3> QED BY <1>2, <1>3, <1>5, <1>9, <2>2, <3>1
  <2> QED BY <2>1, <2>2
<1> HIDE DEF w
<1>11. size_B - rxOffset_B \in Nat /\ size_B - rxOffset_B >= w
  <2>1. rxOffset_B = starts[i]
    BY <1>1, Zenon
  <2>2. /\ size_B \in Nat /\ offset_B \in Nat /\ offset_B <= size_B
        /\ starts[i] \in Nat /\ w \in Nat
    BY <1>2, <1>4, <1>7, <1>8, Zenon
  <2> QED BY <1>10, <2>1, <2>2, SMTT(60)
<1>12. Readed_B(chunks[i], size_B - rxOffset_B) = w /\ Decoded(chunks[i]) = c
  BY <1>7, <1>11, ChunkKept DEF w
<1>13. rxOffset_B' = starts[i] + w /\ read' = Append(read, c) /\ UNCHANGED doing
  BY <1>1, <1>8, <1>12
<1>14. UNCHANGED <<PMTU_B, offset_B, size_B, meant, chunks, starts>>
  BY DEF ReadChunk
<1>15. /\ read' \in Seq(Chunk) /\ Len(read') = k + 1 /\ read'[k + 1] = c
       /\ \A j \in 1..k : read'[j] = read[j]
  BY <1>2, <1>7, <1>13 DEF k
<1>16. Len(meant') = n /\ Len(read') <= n
  BY <1>2, <1>6, <1>14, <1>15 DEF n
<1>17. ASSUME NEW j \in 1..Len(read') PROVE read'[j] = meant'[j]
  <2>1. j \in 1..k \/ j = k + 1
    BY <1>2, <1>15
  <2> QED BY <1>4, <1>6, <1>14, <1>15, <2>1
<1>18. rxOffset_B' = IF Len(read') = Len(meant') THEN offset_B' ELSE starts'[Len(read') + 1]
  BY <1>6, <1>9, <1>13, <1>14, <1>15, <1>16
<1> QED BY <1>4, <1>13, <1>14, <1>15, <1>16, <1>17, <1>18 DEF DatagramInv, FitsPMTU

LEMMA EndsKeep ==
  ASSUME DatagramInv, EndMeta \/ EndData \/ EndRead
  PROVE  DatagramInv'
<1> DEFINE n == Len(meant)
<1>1. n \in Nat /\ offset_B \in Nat /\ PMTU_B \in Nat /\ offset_B <= PMTU_B
  BY DatagramAssumption DEF DatagramInv, Chain, FitsPMTU
<1>2. CASE EndMeta
  BY <1>2 DEF EndMeta, DatagramInv, FitsPMTU
<1>3. CASE EndData
  <2>1. /\ size_B' \in Nat /\ offset_B <= size_B' /\ doing = "data" /\ doing' = "read"
        /\ UNCHANGED <<PMTU_B, offset_B, meant, chunks, starts, rxOffset_B, read>>
    BY <1>1, <1>3 DEF EndData
  <2>2. Len(read) = 0 /\ rxOffset_B = Header_B
    BY <2>1 DEF DatagramInv
  <2>3. IF n = 0 THEN offset_B = Header_B ELSE starts[1] = Header_B
    BY DEF DatagramInv, Chain
  <2>4. rxOffset_B = IF Len(read) = n THEN offset_B ELSE starts[Len(read) + 1]
    BY <1>1, <2>2, <2>3
  <2> QED BY <2>1, <2>4 DEF DatagramInv, FitsPMTU
<1>4. CASE EndRead
  <2>1. /\ doing = "read" /\ doing' = "done"
        /\ rxOffset_B >= size_B \/ rxOffset_B >= offset_B
        /\ UNCHANGED <<PMTU_B, offset_B, size_B, meant, chunks, starts, rxOffset_B, read>>
    BY <1>4 DEF EndRead
  <2>2. /\ size_B \in Nat /\ offset_B <= size_B
        /\ rxOffset_B = IF Len(read) = n THEN offset_B ELSE starts[Len(read) + 1]
        /\ Len(read) \in Nat /\ Len(read) <= n
    BY <2>1 DEF DatagramInv
  <2>3. \A j \in 1..n : starts[j] < offset_B
    BY Zenon DEF DatagramInv, Chain
  <2>4. \A j \in 1..n : starts[j] \in Nat
    <3>1. starts \in Seq(Nat) /\ Len(starts) = n
      BY Zenon DEF DatagramInv, Chain
    <3> HIDE DEF n
    <3> QED BY <3>1
  <2>5. Len(read) = n
    <3>1. ASSUME Len(read) # n PROVE FALSE
      <4>1. Len(read) + 1 \in 1..n
        BY <1>1, <2>2, <3>1
      <4> QED BY <1>1, <2>1, <2>2, <2>3, <2>4, <3>1, <4>1
    <3> QED BY <3>1
  <2> QED BY <2>1, <2>5 DEF DatagramInv, FitsPMTU
<1> QED BY <1>2, <1>3, <1>4

LEMMA DatagramInvariant == Spec => []DatagramInv
<1>1. Init => DatagramInv
  <2> SUFFICES ASSUME Init PROVE DatagramInv
    OBVIOUS
  <2>1. Chain(<<>>, <<>>, <<>>, Header_B)
    BY DatagramAssumption DEF Chain
  <2>2. PMTU_B \in Header_B..Max_u16 /\ PMTU_B >= Header_B
    BY DatagramAssumption DEF Init
  <2> QED BY <2>1, <2>2 DEF Init, DatagramInv, FitsPMTU
<1>2. DatagramInv /\ [Next]_vars => DatagramInv'
  <2> SUFFICES ASSUME DatagramInv, [Next]_vars PROVE DatagramInv'
    OBVIOUS
  <2>1. CASE UNCHANGED vars
    BY <2>1 DEF vars, DatagramInv, FitsPMTU
  <2> QED BY <2>1, MetaKeeps, DataKeeps, ReadKeeps, EndsKeep DEF Next
<1> QED BY <1>1, <1>2, PTL DEF Spec

\* writeMetaChunk and writeDataChunk never write past the PMTU_B bytes of the
\* datagram, however many chunks follow each other: the asserts of writePacket hold.
THEOREM DatagramFits == Spec => []FitsPMTU
<1>1. DatagramInv => FitsPMTU
  BY DEF DatagramInv
<1> QED BY <1>1, DatagramInvariant, PTL

\* The loop of onUdpReceived finds every chunk of a datagram where it starts, and
\* reads every size and offset as it was meant.
THEOREM DatagramReadBack == Spec => []ReadsBack
<1>1. DatagramInv => ReadsBack
  <2> SUFFICES ASSUME DatagramInv PROVE ReadsBack
    OBVIOUS
  <2>1. /\ meant \in Seq(Chunk) /\ read \in Seq(Chunk) /\ Len(read) \in Nat /\ Len(meant) \in Nat
        /\ Len(starts) = Len(meant) /\ Len(read) <= Len(meant)
        /\ offset_B \in Nat
    BY DEF DatagramInv, Chain
  <2>2. ASSUME doing = "done" PROVE read = meant
    <3>1. Len(read) = Len(meant) /\ \A i \in 1..Len(read) : read[i] = meant[i]
      BY <2>2 DEF DatagramInv
    <3> QED BY <2>1, <3>1
  <2>3. ASSUME doing = "read"
        PROVE  rxOffset_B >= offset_B \/ \E i \in 1..Len(starts) : starts[i] = rxOffset_B
    <3>1. rxOffset_B = IF Len(read) = Len(meant) THEN offset_B ELSE starts[Len(read) + 1]
      BY <2>3 DEF DatagramInv
    <3>2. CASE Len(read) = Len(meant)
      BY <2>1, <3>1, <3>2
    <3>3. CASE Len(read) # Len(meant)
      <4>1. Len(read) + 1 \in 1..Len(starts)
        BY <2>1, <3>3
      <4> QED BY <3>1, <3>3, <4>1
    <3> QED BY <3>2, <3>3
  <2> QED BY <2>2, <2>3 DEF ReadsBack
<1> QED BY <1>1, DatagramInvariant, PTL
=============================================================================
