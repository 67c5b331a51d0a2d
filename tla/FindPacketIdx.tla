--------------------------- MODULE FindPacketIdx ---------------------------
(***************************************************************************)
(* Connection::findPacketIdx (Connection.cpp): binary search for an id in  *)
(* the fifoShadow of a TxStream.  Ids are consecutive, so the fifo is      *)
(* sorted but for one place where they may wrap.                           *)
(***************************************************************************)
EXTENDS PacketIds

VARIABLES first, size,    \* the fifo: size ids, consecutive from first
          packetId,       \* the id to find
          leftIdx, rightIdx,
          result          \* what is returned; Searching before that

findVars == <<first, size, packetId, leftIdx, rightIdx, result>>

SIZE_MAX == -1            \* no index is found; also 0 - 1 in a size_t
Searching == -2

\* fifo[i], for the indices 0..(size - 1)
fifo(i) == IF first + i <= UINT32_MAX THEN first + i ELSE first + i - UINT32_MAX - 1

FindInit ==
  /\ first \in PacketId
  /\ size \in 0..(UINT32_MAX + 1)
  /\ packetId \in PacketId
  /\ leftIdx = 0
  /\ rightIdx = IF size = 0 THEN 0 ELSE size - 1
  /\ result = IF size = 0 THEN SIZE_MAX ELSE Searching

midIdx == leftIdx + (rightIdx - leftIdx) \div 2

\* mutant: the packet at the left end is left out
GoesLeft_Strict ==
  IF fifo(leftIdx) <= fifo(midIdx)
  THEN fifo(leftIdx) < packetId /\ packetId < fifo(midIdx)
  ELSE ~(fifo(midIdx) < packetId /\ packetId <= fifo(rightIdx))

\* mutant: the left end is not compared, as in a search without a wrap
GoesLeft_Sorted ==
  IF fifo(leftIdx) <= fifo(midIdx) THEN packetId < fifo(midIdx)
  ELSE ~(fifo(midIdx) < packetId /\ packetId <= fifo(rightIdx))

\* the id can only be to the left of midIdx: one half is sorted, and the id is
\* compared with its ends
GoesLeft ==
  IF fifo(leftIdx) <= fifo(midIdx)
  THEN fifo(leftIdx) <= packetId /\ packetId < fifo(midIdx)
  ELSE ~(fifo(midIdx) < packetId /\ packetId <= fifo(rightIdx))

\* mutant: the middle is looked at again
Narrow_Same ==
  /\ result = Searching /\ leftIdx <= rightIdx
  /\ fifo(midIdx) # packetId
  /\ IF GoesLeft THEN rightIdx' = midIdx /\ UNCHANGED leftIdx
                 ELSE leftIdx' = midIdx /\ UNCHANGED rightIdx
  /\ UNCHANGED <<first, size, packetId, result>>

\* one turn of the loop
Narrow ==
  /\ result = Searching /\ leftIdx <= rightIdx
  /\ fifo(midIdx) # packetId
  /\ IF GoesLeft THEN rightIdx' = midIdx - 1 /\ UNCHANGED leftIdx
                 ELSE leftIdx' = midIdx + 1 /\ UNCHANGED rightIdx
  /\ UNCHANGED <<first, size, packetId, result>>

Hit ==
  /\ result = Searching /\ leftIdx <= rightIdx
  /\ fifo(midIdx) = packetId
  /\ result' = midIdx
  /\ UNCHANGED <<first, size, packetId, leftIdx, rightIdx>>

Miss ==
  /\ result = Searching /\ leftIdx > rightIdx
  /\ result' = SIZE_MAX
  /\ UNCHANGED <<first, size, packetId, leftIdx, rightIdx>>

FindNext == Narrow \/ Hit \/ Miss

FindSpec == FindInit /\ [][FindNext]_findVars

\* a function that is called runs on
FindFairSpec == FindSpec /\ WF_findVars(FindNext)

-----------------------------------------------------------------------------
\* findPacketIdx returns the index of the id, and SIZE_MAX only if the fifo
\* does not hold it, wherever in the fifo the ids wrap.
FindsPacket ==
  result # Searching =>
    IF result = SIZE_MAX THEN \A j \in 0..(size - 1) : fifo(j) # packetId
    ELSE result \in 0..(size - 1) /\ fifo(result) = packetId

\* midIdx - 1 is never 0 - 1, which as a size_t would be larger than any
\* index: the loop reads the fifo inside its bounds.
IndexesInFifo ==
  result = Searching => leftIdx \in 0..size /\ rightIdx \in 0..(size - 1)

\* The search ends.
FindEnds == <>(result # Searching)
=============================================================================
