SPECIFICATION ConsoleFairSpec
CONSTANTS
  Chars = {1, 10}
  Newline = 10
  LineMax = 2
  MaxBytes = 3
  Depth = 1
  MaxTyped = 3
INVARIANTS
  NoOverwrite
  ReadAsTyped
  SentAsConfigured
PROPERTIES
  NoDrop
  ConsoleIsChannel
  FlushedArrives
  Delivered
CHECK_DEADLOCK FALSE
