SPECIFICATION Spec
CONSTANTS
  UINT32_MAX = 15
  MaxId = 2
  Sizes = {1}
  Threshold = 1
  RxFifoLimit = 3
  AckBound = 1
  MaxPackets = 2
  CommandBound = 1
  TxSizes = {1}
  Reliabilities = {TRUE}
  Crc_B = 1
  MaxSmall = 1
  MaxPiece = 1
  TxWindow = 3
  NetBound = 1
  Duplicates = FALSE
INVARIANT ConfirmedIsDelivered
CHECK_DEADLOCK FALSE
