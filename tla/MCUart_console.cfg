SPECIFICATION Spec
CONSTANTS
  Builds = {TRUE, FALSE}
  FifoLen = 2
  RxFull = 2
  TxRoom = 1
  TxEmpty = 1
  BuffSize = 3
  QueueLen = 1
  MaxRx = 4
  MaxTx = 3
  MaxDirect = 1
  MaxChunk = 2
INVARIANT TypeOK
INVARIANT NoWedge
PROPERTY IsRxStream
PROPERTY IsTxStream
CHECK_DEADLOCK FALSE
