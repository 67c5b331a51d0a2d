SPECIFICATION Spec
CONSTANTS
  UINT32_MAX = 15
  MaxId = 2
  Sizes = {1, 2}
  Threshold = 1
  RxFifoLimit = 4
  AckBound = 1
  MaxPackets = 3
  CommandBound = 3
  TxSizes = {1, 2}
  Reliabilities = {FALSE}
  Crc_B = 1
  MaxSmall = 1
  MaxPiece = 1
  TxWindow = 3
  NetBound = 1
  Duplicates = FALSE
INVARIANT PiecesInOrder
CHECK_DEADLOCK FALSE
