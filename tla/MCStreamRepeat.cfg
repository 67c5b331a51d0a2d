SPECIFICATION FairSpec
CONSTANTS
  UINT32_MAX = 15
  MaxId = 0
  Sizes = {3}
  Threshold = 2
  RxFifoLimit = 3
  AckBound = 1
  MaxPackets = 1
  CommandBound = 1
  TxSizes = {3}
  Reliabilities = {TRUE, FALSE}
  Crc_B = 1
  MaxSmall = 3
  MaxPiece = 1
  TxWindow = 3
  NetBound = 2
  Duplicates = TRUE
INVARIANTS NetTypeOK OffsetsInPacket ConfirmedIsSettled
PROPERTIES SettledIsConfirmed
CHECK_DEADLOCK FALSE
