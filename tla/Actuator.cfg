SPECIFICATION SystemFairSpec
CONSTANTS
  MaxPos = 2
  Upper = {0, 1}
  Modes = {0, 1}
  Speeds = {1}
INVARIANTS
  SystemInv
PROPERTIES
  NoWriteLost
  IrqPulse
  Arrives
  DisableEndsIdle
  CallsAreAtomic
