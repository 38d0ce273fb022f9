\* The two warps of the unit and three texture blocks on two lines.
SPECIFICATION MemorySpec
CONSTANTS
  Warp = {0, 1}
  Reg = {1, 2}
  Programs <- MCPrograms
  ResponseSize = 2
  None = None
  Texel = {"x", "y", "z"}
  NoBlock = NoBlock
  NLines = 2
  FragEntries = 3
  ReqEntries = 1
  RobEntries = 2
  ResEntries = 1
  MaxTex = 4
INVARIANTS
  AccessesCounted
  PromisesKept
PROPERTIES
  EveryWarpIsRetired
  EveryAccessDelivered
CHECK_DEADLOCK FALSE
