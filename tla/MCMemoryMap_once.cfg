\* "a given range can only ever be mapped once"
CONSTANTS
  AddressCount = 5
  MemorySize = 4
  ExpansionRom = 3
  RomSizes = {3}
  Device <- MCDevice
  Request <- SolidRequest
  Value = {0}
  Zero = 0
  NULL = NULL
  MaxRanges = 2
  r1 = r1
  r2 = r2
  w1 = w1
  w2 = w2
  c1 = c1
  c2 = c2
SPECIFICATION Spec
INVARIANTS MappedOnce
CHECK_DEADLOCK FALSE
