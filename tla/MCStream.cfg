SPECIFICATION Spec
CONSTANTS
  UINT32_MAX = 15
  MaxId = 2
  Sizes = {1}
  Threshold = 1
  RxFifoLimit = 3
  AckBound = 1
  MaxPackets = 3
  CommandBound = 1
  TxSizes = {1}
  Reliabilities = {TRUE, FALSE}
  Crc_B = 1
  MaxSmall = 1
  MaxPiece = 1
  TxWindow = 3
  NetBound = 2
  Duplicates = FALSE
INVARIANTS FrontIsTrue
PROPERTIES StreamKeepsPromise
VIEW LastEndOfRxLog
CHECK_DEADLOCK FALSE
