\* Files of up to three of 15 instructions, every opcode, and files at the edges
CONSTANTS
  Name <- Labels
  NameLength <- Lengths
  HexNames = {}
  NoName = NoName
  BlobLimit = 65535
  Sources = {}
  LabelBound = 12
  OffsetCount = 32
  StrayByte = {0, 6}
  Longest = 3
  Binaries <- Files
SPECIFICATION FairSpec
INVARIANTS DisassemblerTypeOK LabelsAreDistinct LabelsAreTargets RoundTripIsExact
PROPERTIES DisassemblyEnds EveryStepAdvances
CHECK_DEADLOCK FALSE
