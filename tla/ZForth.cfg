SPECIFICATION Spec
CONSTANTS
  DictSize = 256
  DStackSize = 5
  RStackSize = 3
  Prims <- AllPrims
  UserVars <- AllUserVars
  Digits <- AllDigits
  Session <- FourLines
  MaxTurns = 60
INVARIANTS
  TypeOK
  ChainSound
  AskerWaits
  EveryLineEnds
PROPERTIES
  DictionaryIsWordList
  CodeIsKept
CHECK_DEADLOCK FALSE
