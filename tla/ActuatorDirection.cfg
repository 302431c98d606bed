SPECIFICATION FairSpec
CONSTANTS
  MaxPos = 1
  Upper = {0, 1}
  Modes = {0}
PROPERTIES
  DirectedMoveEnds
