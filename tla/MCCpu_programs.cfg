\* Every opcode, recursion to the depth the stack holds, one device
CONSTANTS
  MemorySize = 65535
  Readable <- Terminal
  Writable <- Terminal
  DeviceByte = {0, 255}
  Start <- Programs
  MaxFrames = 128
SPECIFICATION Spec
INVARIANTS TypeOK InstructionsMatchTheirNames RtsUndoesJsr ReturnsMatchCalls ComparisonsOrder
CHECK_DEADLOCK FALSE
