SPECIFICATION Spec
CONSTANTS
  NCommands = 1
  NMesh = 1
  Accepted <- AllCommands
  QueueLen = 8
  Patient = TRUE
  LowHeap = FALSE
INVARIANT EveryCommandAcked
