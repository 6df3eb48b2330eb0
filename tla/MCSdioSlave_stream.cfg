SPECIFICATION FairSpec
CONSTANTS
  Bufs = 3
  Size = 3
  MaxLoad = 7
  MaxBytes = 11
  MaxWrites = 2
INVARIANT TypeOK
INVARIANT OnOneList
INVARIANT NotDeaf
PROPERTY IsByteStream
PROPERTY PacksHandled
CHECK_DEADLOCK FALSE
