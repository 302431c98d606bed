SPECIFICATION Spec
CONSTANTS
  Pins = {0, 1}
  Wired = {0}
  Stages = {"gated", "plain"}
  Values <- SmallMasks
  ModeValues <- TwoModes
  MaxWrites = 3
INVARIANTS
  InputsOK
PROPERTIES
  EdgesReported
  LevelKeepsTriggering
  HeldUntilCleared
