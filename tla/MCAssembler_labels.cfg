\* The layout of tests/print.s: a string between code and a label
CONSTANTS
  Name <- Names
  NameLength <- Lengths
  HexNames <- Facades
  NoName = NoName
  BlobLimit = 9
  Longest = 1
  Sources <- AfterString
SPECIFICATION Spec
INVARIANT EveryLabelNamesItsCode
CHECK_DEADLOCK FALSE
