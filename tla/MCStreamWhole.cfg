SPECIFICATION Spec
CONSTANTS
  UINT32_MAX = 15
  MaxId = 2
  Sizes = {3}
  Threshold = 3
  RxFifoLimit = 3
  AckBound = 1
  MaxPackets = 1
  CommandBound = 1
  TxSizes = {3}
  Reliabilities = {TRUE}
  Crc_B = 1
  MaxSmall = 1
  MaxPiece = 1
  TxWindow = 3
  NetBound = 1
  Duplicates = FALSE
INVARIANT DeliveredWhole
CHECK_DEADLOCK FALSE
