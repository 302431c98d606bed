SPECIFICATION FairSpec
CONSTANTS
  Levels <- TwoLevels
  MaxSent = 2
  MaxClients = 3
  TickDelay = 1
  TapClocks = 1
PROPERTIES
  CableIsTransparent
  Drained
  MakesRoom
CHECK_DEADLOCK FALSE
