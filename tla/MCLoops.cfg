SPECIFICATION LoopsSpec
CONSTANTS
  UINT32_MAX = 15
  Max_u8 = 3
  Max_u16 = 63
  Max_u32 = 127
  Max_u64 = 511
  Header_B = 2
  PMTUs = {2, 24, 25, 26, 27, 28}
  PacketSizes = {1, 4, 200}
  Offsets = {0, 4, 64}
INVARIANTS FindsPacket IndexesInFifo FitsPMTU ReadsBack
PROPERTY FindEnds
CHECK_DEADLOCK FALSE
