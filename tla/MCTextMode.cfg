CONSTANTS
  Rows = 2
  Columns = 2
  RegionSize = 5
  a = a
  b = b
  Blank = Blank
  Shell = Shell
  Character <- Letters
  Terminals <- Sizes
SYMMETRY Symmetry
SPECIFICATION Spec
INVARIANTS TypeOK RefreshShowsAll ScreenShowsVideo
PROPERTIES PlacesShowTheirBytes
CHECK_DEADLOCK FALSE
