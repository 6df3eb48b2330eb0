SPECIFICATION MCSpec
CONSTANTS
  KeyNum = 2
  I2cBytes = {165, 90}
  Mixes <- MCMixes
  MaxSpiCalls = 4
  ClkDivs = {1, 5}
  Speeds = {TRUE, FALSE}
  InitFirst = TRUE
  ChipSize = 5
  BuffByteNum = 4
INVARIANT KeysFollowed
INVARIANT BusAsAsked
INVARIANT TransferAsAsked
INVARIANT FourDevices
CHECK_DEADLOCK FALSE
