SPECIFICATION FairSpec
CONSTANTS
  NPacks = 4
  NMesh = 1
  ReqLen <- ShortReqLen
  RepLen <- ShortRepLen
  Answered <- ShortAnswered
  QueueLen = 1
  TMax = 2
  Paced = TRUE
  Patient = FALSE
  Prompt = FALSE
  LowHeap = TRUE
  MaxRereads = 0
INVARIANT BufferBound
INVARIANT NoWedge
PROPERTY Reopens
PROPERTY SendReturns
