SPECIFICATION JsonSpec
CONSTANTS
  m1 = m1
  m2 = m2
  m3 = m3
  m4 = m4
  m5 = m5
  NoMac = NoMac
  Macs <- FiveMacs
  Step = 2
  MaxBatch = 2
  UseDel = TRUE
  LowHeap = TRUE
  PerOp = 3
  Rooms = {1, 2}
SYMMETRY Interchangeable
INVARIANT TypeOK
INVARIANT NoDuplicates
INVARIANT WritesInside
INVARIANT PacketReaches
PROPERTY AllAdded
PROPERTY IsDeviceSet
