SPECIFICATION Spec
CONSTANTS
  Events <- AllEvents
  FifoDepth = 2
  NbTicks = 3
  PadCount = 6
  RefClock = 32768
  Log2MaxM = 14
  ResetConf1 <- FllResetValues
  Frequencies <- TheFrequencies
  Nominal = 18000000
  Baudrate = 115200
  Images <- OneImage
  Leftovers <- OneLeftover
  MaxAreas = 2
  BlockSize = 4
  WordSize = 2
  Wrap = 256
  DataSize = 5
  L2Start = 8
  L2End = 28
  MemTop = 36
  MaxPrints = 1
  LineMax = 7
  Digits <- AnyDigit
  Files <- ShortFile
  Exposed <- Count
  MaxFaults = 1
  MaxIgnored = 0
INVARIANTS
  SyncAtS
CHECK_DEADLOCK FALSE
