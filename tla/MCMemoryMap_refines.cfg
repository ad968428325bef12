\* Requests below the ceiling, bytes with two values, liveness and refinement
CONSTANTS
  AddressCount = 4
  MemorySize = 2
  ExpansionRom = 1
  RomSizes = {2}
  Device <- MCDevice
  Request <- LowRequest
  Value = {0, 1}
  Zero = 0
  NULL = NULL
  MaxRanges = 3
  r1 = r1
  r2 = r2
  w1 = w1
  w2 = w2
  c1 = c1
  c2 = c2
SPECIFICATION FairSpec
PROPERTIES ImplementsAddressSpace CallsReturn
CHECK_DEADLOCK FALSE
