SPECIFICATION Spec
CONSTANTS
  NumWarps = 2
  CodeLen = 3
  Target <- MCTarget
  MaxLaunch = 2
  MaxFlying = 1
  None = None
INVARIANTS
  FrontHolds
PROPERTIES
  EveryWarpIsReclaimed
