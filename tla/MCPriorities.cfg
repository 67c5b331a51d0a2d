SPECIFICATION Spec
CONSTANTS
  Streams = {s1, s2, s3}
  ChunkSizes = {25, 50}
  MaxChunk = 50
  UINT32_MAX = 14999
  MaxTotal = 175
  MaxChanges = 1
INVARIANTS VecMatchesMap TurnComes SharesKept RealtimeShareKept
SYMMETRY Symmetry
