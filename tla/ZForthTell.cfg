SPECIFICATION Spec
CONSTANTS
  DictSize = 256
  DStackSize = 5
  RStackSize = 3
  Prims <- AllPrims
  UserVars <- AllUserVars
  Digits <- AllDigits
  Session <- TellLines
  MaxTurns = 60
PROPERTIES
  PrintsReturn
CHECK_DEADLOCK FALSE
