SPECIFICATION Spec
CONSTANTS
  NPacks = 4
  NMesh = 1
  ReqLen <- ShortReqLen
  RepLen <- ShortRepLen
  Answered <- ShortAnswered
  QueueLen = 2
  TMax = 2
  Paced = TRUE
  Patient = TRUE
  Prompt = TRUE
  LowHeap = FALSE
  MaxRereads = 0
PROPERTY NoUnreadReplyOverwritten
