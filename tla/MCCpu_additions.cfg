\* Zero and any operand, added as tests/overflow.s adds
CONSTANTS
  MemorySize = 65535
  Readable = {}
  Writable = {}
  DeviceByte = {0}
  Start <- AdditionsToZero
  MaxFrames = 2
SPECIFICATION Spec
INVARIANT AdditionsAreAsDescribed
CHECK_DEADLOCK FALSE
