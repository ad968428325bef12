CONSTANTS
  AddressCount = 3
  ResetVector = 1
  MaxSignals = 2
SPECIFICATION FairSpec
INVARIANTS TypeOK StopsAtBreakpoints LoopSurvivesInterrupt
PROPERTIES BrkEndsLoop InterruptedLoopAdvances InterruptEndsLoop ImplementsBreakpointSet
CHECK_DEADLOCK FALSE
