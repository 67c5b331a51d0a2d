------------------------------ MODULE Datagram ------------------------------
(***************************************************************************)
(* One TypeA datagram: writePacket fills it with chunks up to PMTU_B, and  *)
(* the loop of onUdpReceived takes it apart again.  Nothing in a datagram  *)
(* says where a chunk starts: the reader gets there only if it computes    *)
(* the same sizes as the writer.  A chunk is its type and the numbers that *)
(* its size depends on, as they are stored.                                *)
(***************************************************************************)
EXTENDS Integers, Sequences

CONSTANTS
  Max_u8, Max_u16, Max_u32, Max_u64,  \* UINT8_MAX to UINT64_MAX
  PMTUs,          \* values of PMTU_B
  Header_B,       \* sizeof(PacketHeader)
  PacketSizes,    \* sizes of packets
  Offsets         \* offsets in packets

ASSUME DatagramAssumption ==
  /\ Max_u8 \in Nat \ {0} /\ Max_u16 \in Nat /\ Max_u32 \in Nat /\ Max_u64 \in Nat
  /\ Max_u8 < Max_u16 /\ Max_u16 < Max_u32 /\ Max_u32 < Max_u64
  /\ Header_B \in Nat
  /\ PMTUs \subseteq Header_B..Max_u16
  /\ PacketSizes \subseteq 1..Max_u64 /\ Offsets \subseteq 0..Max_u64

VARIABLES
  PMTU_B,
  doing,       \* "meta", "data": the loops of writePacket; "read": the loop of onUdpReceived
  offset_B,    \* where writePacket writes
  size_B,      \* the size of the datagram once it is sent
  meant,       \* what the writer meant its chunks to say
  chunks,      \* what is stored, chunk by chunk
  starts,      \* where in the datagram each chunk starts
  rxOffset_B,  \* where onUdpReceived reads
  read         \* what readChunk has made of it

vars == <<PMTU_B, doing, offset_B, size_B, meant, chunks, starts, rxOffset_B, read>>

-----------------------------------------------------------------------------
(* Numbers of one to eight bytes *)

Bits == 0..3      \* u8, u16, u32, u64

\* mutant: the highest half sets only the higher of the two bits
getNumberOfBits_HighBit(value) ==
  LET b63_32 == value > Max_u32
      b31_16 == value % (Max_u32 + 1) > Max_u16
      b15_8  == value % (Max_u16 + 1) > Max_u8
  IN  (IF b63_32 \/ b31_16 THEN 2 ELSE 0) + (IF b15_8 /\ ~b31_16 THEN 1 ELSE 0)

\* the masks 0xFFFFFFFF00000000, 0xFFFF0000 and 0xFF00
getNumberOfBits(value) ==
  LET b63_32 == value > Max_u32
      b31_16 == value % (Max_u32 + 1) > Max_u16
      b15_8  == value % (Max_u16 + 1) > Max_u8
  IN  (IF b63_32 \/ b31_16 THEN 2 ELSE 0) + (IF (b15_8 /\ ~b31_16) \/ b63_32 THEN 1 ELSE 0)

getNumberOfBytes(bits) ==
  CASE bits = 0 -> 1 [] bits = 1 -> 2 [] bits = 2 -> 4 [] bits = 3 -> 8

\* write_u8 to write_u64: what is left of a value
Stored(value, bits) ==
  value % (1 + CASE bits = 0 -> Max_u8 [] bits = 1 -> Max_u16
                 [] bits = 2 -> Max_u32 [] bits = 3 -> Max_u64)

-----------------------------------------------------------------------------
(* Chunks *)

g_chunkHeader_B == 1 + 1 + 4
Crc32_B == 4

\* Of an Acknowledge a and b are 0; a is the size of a SmallPacket or of the packet
\* of a BeginOfPacket; a and b are offset and size of a PieceOfPacket or RepeatInfo.
Said(type, a, b) == [type |-> type, a |-> a, b |-> b]

Encoded(c) ==
  LET aBits == getNumberOfBits(c.a)
      bBits == getNumberOfBits(c.b)
  IN  [type |-> c.type, aBits |-> aBits, bBits |-> bBits,
       a |-> Stored(c.a, aBits), b |-> Stored(c.b, bBits)]

Decoded(e) == Said(e.type, e.a, e.b)

\* the bytes of a chunk, given the widths and the values of its numbers
Chunk_B(type, aBytes_B, bBytes_B, a, b) ==
  CASE type = "Acknowledge"   -> g_chunkHeader_B
    [] type = "SmallPacket"   -> g_chunkHeader_B + aBytes_B + a
    [] type = "BeginOfPacket" -> g_chunkHeader_B + aBytes_B + Crc32_B
    [] type = "PieceOfPacket" -> g_chunkHeader_B + aBytes_B + bBytes_B + b
    [] type = "RepeatInfo"    -> g_chunkHeader_B + aBytes_B + bBytes_B

Bytes(value) == getNumberOfBytes(getNumberOfBits(value))

Written_B(c) == Chunk_B(c.type, Bytes(c.a), Bytes(c.b), c.a, c.b)

\* The size the reader finds in the stored chunk.
Found_B(e) == Chunk_B(e.type, getNumberOfBytes(e.aBits), getNumberOfBytes(e.bBits), e.a, e.b)

\* What readChunk returns: 0 where it gives up.
Readed_B(e, available_B) ==
  LET aBytes_B == getNumberOfBytes(e.aBits)
      bBytes_B == getNumberOfBytes(e.bBits)
      givesUp ==
        \/ available_B < 3
        \/ e.type = "SmallPacket" /\ (e.aBits > 1 \/ e.a = 0)
        \/ e.type = "PieceOfPacket"
             /\ (e.bBits > 1 \/ g_chunkHeader_B + aBytes_B + bBytes_B + 1 > available_B)
        \/ e.type # "Acknowledge" /\ Found_B(e) > available_B
  IN  IF givesUp THEN 0 ELSE Found_B(e)

-----------------------------------------------------------------------------
(* writePacket *)

Init ==
  /\ PMTU_B \in PMTUs
  /\ doing = "meta"
  /\ offset_B = Header_B /\ size_B = 0 /\ rxOffset_B = Header_B
  /\ meant = <<>> /\ chunks = <<>> /\ starts = <<>> /\ read = <<>>

available_B == PMTU_B - offset_B

Put(c) ==
  /\ meant' = Append(meant, c)
  /\ chunks' = Append(chunks, Encoded(c))
  /\ starts' = Append(starts, offset_B)
  /\ offset_B' = offset_B + Written_B(c)
  /\ UNCHANGED <<PMTU_B, doing, size_B, rxOffset_B, read>>

\* writeMetaChunk: an ack, or the RepeatInfo of a packet
WriteMetaChunk ==
  /\ doing = "meta"
  /\ \E c \in {Said("Acknowledge", 0, 0)}
              \cup {Said("RepeatInfo", offset, size) : offset \in Offsets, size \in Offsets} :
       Written_B(c) <= available_B /\ Put(c)

\* There is nothing more to tell, or it does not fit.
EndMeta ==
  /\ doing = "meta"
  /\ doing' = "data"
  /\ UNCHANGED <<PMTU_B, offset_B, size_B, meant, chunks, starts, rxOffset_B, read>>

FitsWhole(size) == Written_B(Said("SmallPacket", size, 0)) <= available_B

WriteSmallPacket(size) == FitsWhole(size) /\ Put(Said("SmallPacket", size, 0))

WriteBeginOfPacket(size) ==
  /\ ~FitsWhole(size)
  /\ Written_B(Said("BeginOfPacket", size, 0)) <= available_B
  /\ Put(Said("BeginOfPacket", size, 0))

\* mutant: one byte for the size of the piece
PieceMaxFor1B_B_Short(offset) == g_chunkHeader_B + Bytes(offset) + 1 + 1

\* pieceOfPacketMaxFor1B_B: a piece of one byte, with two bytes for its size
PieceMaxFor1B_B(offset) == g_chunkHeader_B + Bytes(offset) + 2 + 1

\* The piece is as large as fits when its size takes two bytes.
WritePieceOfPacket(size, offset) ==
  LET room == available_B - PieceMaxFor1B_B(offset) + 1
      left == size - offset
  IN  /\ available_B >= PieceMaxFor1B_B(offset)
      /\ Put(Said("PieceOfPacket", offset, IF room < left THEN room ELSE left))

WriteDataChunk ==
  /\ doing = "data" /\ available_B > g_chunkHeader_B
  /\ \E size \in PacketSizes :
       \/ WriteSmallPacket(size)
       \/ WriteBeginOfPacket(size)
       \/ \E offset \in Offsets : offset < size /\ WritePieceOfPacket(size, offset)

\* The datagram is sent, filled up with zeros in a test of the bandwidth.
EndData ==
  /\ doing = "data"
  /\ size_B' \in {offset_B, PMTU_B}
  /\ doing' = "read"
  /\ UNCHANGED <<PMTU_B, offset_B, meant, chunks, starts, rxOffset_B, read>>

-----------------------------------------------------------------------------
(* The loop of onUdpReceived *)

\* The next chunk is read where one starts.
ReadChunk ==
  /\ doing = "read" /\ rxOffset_B < size_B
  /\ \E i \in 1..Len(chunks) :
       /\ starts[i] = rxOffset_B
       /\ LET readed_B == Readed_B(chunks[i], size_B - rxOffset_B)
          IN  IF readed_B = 0 THEN doing' = "done" /\ UNCHANGED <<rxOffset_B, read>>
              ELSE /\ rxOffset_B' = rxOffset_B + readed_B
                   /\ read' = Append(read, Decoded(chunks[i]))
                   /\ UNCHANGED doing
  /\ UNCHANGED <<PMTU_B, offset_B, size_B, meant, chunks, starts>>

\* The end of the datagram, or zeros: a SmallPacket of size 0.
EndRead ==
  /\ doing = "read"
  /\ rxOffset_B >= size_B \/ rxOffset_B >= offset_B
  /\ doing' = "done"
  /\ UNCHANGED <<PMTU_B, offset_B, size_B, meant, chunks, starts, rxOffset_B, read>>

Next == WriteMetaChunk \/ EndMeta \/ WriteDataChunk \/ EndData \/ ReadChunk \/ EndRead

Spec == Init /\ [][Next]_vars

-----------------------------------------------------------------------------
(* Properties *)

\* assert(written_B <= available_B) in writePacket: whatever chunks follow each
\* other, the datagram stays within PMTU_B.
FitsPMTU == offset_B <= PMTU_B

\* The reader never starts in the middle of a chunk, and has at the end read every
\* chunk of the datagram as it was meant.
ReadsBack ==
  /\ doing = "read" =>
       rxOffset_B >= offset_B \/ \E i \in 1..Len(starts) : starts[i] = rxOffset_B
  /\ doing = "done" => read = meant
=============================================================================
