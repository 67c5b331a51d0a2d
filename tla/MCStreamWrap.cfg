SPECIFICATION WrapSpec
CONSTANTS
  UINT32_MAX = 15
  MaxId = 15
  Sizes = {1}
  Threshold = 1
  RxFifoLimit = 3
  AckBound = 1
  MaxPackets = 4
  CommandBound = 1
  TxSizes = {1}
  Reliabilities = {TRUE}
  Crc_B = 1
  MaxSmall = 1
  MaxPiece = 1
  TxWindow = 2
  NetBound = 1
  Duplicates = FALSE
  FirstId = 13
INVARIANT RxConsecutive
CHECK_DEADLOCK FALSE
