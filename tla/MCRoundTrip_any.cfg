\* A loop that ends in its branch
CONSTANTS
  Name <- Labels
  NameLength <- Lengths
  HexNames = {}
  NoName = NoName
  BlobLimit = 65535
  Sources = {}
  LabelBound = 12
  OffsetCount = 32
  StrayByte = {0, 6}
  Longest = 3
  Binaries <- Loop
SPECIFICATION RoundTripSpec
INVARIANT EmitsTheSameBinary
CHECK_DEADLOCK FALSE
