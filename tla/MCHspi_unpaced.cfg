SPECIFICATION Spec
CONSTANTS
  NPacks = 4
  NMesh = 1
  ReqLen <- MCReqLen
  RepLen <- MCRepLen
  Answered <- MCAnswered
  QueueLen = 2
  TMax = 2
  Paced = FALSE
  Patient = TRUE
  Prompt = FALSE
  LowHeap = FALSE
  MaxRereads = 1
INVARIANT FaithfulExecution
