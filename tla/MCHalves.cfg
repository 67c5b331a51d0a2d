SPECIFICATION HalvesSpec
CONSTANTS
  UINT32_MAX = 15
  MaxId = 1
  Sizes = {1, 2}
  Threshold = 1
  RxFifoLimit = 3
  AckBound = 2
  MaxPackets = 2
  CommandBound = 2
  TxSizes = {1, 2}
  Reliabilities = {TRUE, FALSE}
  Crc_B = 0
  MaxSmall = 1
  MaxPiece = 2
  TxWindow = 1
INVARIANTS RxInOrder RxConsecutive RxTypeOK RxAcksSettled TxTypeOK TxReportsInOrder TxNothingLost
PROPERTIES RxFrontAdvances TxEventuallyReported
CHECK_DEADLOCK FALSE
