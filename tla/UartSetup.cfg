SPECIFICATION FairSpec
CONSTANTS
  Depth = 2
  MaxBytes = 5
PROPERTIES
  SetupWorks
CHECK_DEADLOCK FALSE
