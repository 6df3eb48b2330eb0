SPECIFICATION LiveSpec
CONSTANTS
  NPacks = 4
  NMesh = 2
  ReqLen <- MCReqLen
  RepLen <- MCRepLen
  Answered <- MCAnswered
  QueueLen = 2
  TMax = 2
  Paced = TRUE
  Patient = TRUE
  Prompt = FALSE
  LowHeap = FALSE
  MaxRereads = 0
INVARIANT TypeOK
INVARIANT Lossless
INVARIANT RepliesMatchSent
PROPERTY AllAnswered
