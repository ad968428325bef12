CONSTANTS
  AddressCount = 3
  ResetVector = 1
  MaxSignals = 2
SPECIFICATION FairSpec
PROPERTY InterruptEndsRun
CHECK_DEADLOCK FALSE
