\* Every file of up to four of 14 lines, and some longer ones
CONSTANTS
  Name <- Names
  NameLength <- Lengths
  HexNames <- Facades
  NoName = NoName
  BlobLimit = 9
  Longest = 4
  Sources <- Files
SPECIFICATION Spec
INVARIANTS TypeOK TableIsConsistent ScriptLoadsTable LabelsNameTheirCode ReferencesReachTheirNames
CHECK_DEADLOCK FALSE
