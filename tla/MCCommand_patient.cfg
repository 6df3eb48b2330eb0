SPECIFICATION FairSpec
CONSTANTS
  NCommands = 2
  NMesh = 2
  Accepted <- AllCommands
  QueueLen = 2
  Patient = TRUE
  LowHeap = TRUE
INVARIANT TypeOK
PROPERTY IsMailbox
PROPERTY OneReplyEach
PROPERTY LatestSent
