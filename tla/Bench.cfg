SPECIFICATION FairSpec
CONSTANTS
  Files <- AllFiles
  RomStart = 16
  RemapEnd = 24
  RomEnd = 32
  L2Start = 40
  L2End = 48
  Complete = 64
  Cycles = 60
  ResetTicks = 1
  InitTicks = 2
  GrantWait = 2
  ValidWait = 1
  ReadWait = 1
  PollEvery = 3
  MaxCycles = 18
  Latencies = {1, 2, 3}
INVARIANTS
  MasterOK
  ReportIsTrue
  ResultIsTrue
PROPERTIES
  Ends
CHECK_DEADLOCK FALSE
