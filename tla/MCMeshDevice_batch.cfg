SPECIFICATION JsonSpec
CONSTANTS
  m1 = m1
  m2 = m2
  m3 = m3
  m4 = m4
  m5 = m5
  NoMac = NoMac
  Macs <- FiveMacs
  Step = 2
  MaxBatch = 3
  UseDel = FALSE
  LowHeap = FALSE
  PerOp = 2
  Rooms = {3}
SYMMETRY Interchangeable
INVARIANT WritesInside
