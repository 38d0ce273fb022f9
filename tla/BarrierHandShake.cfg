SPECIFICATION BarSpec
CONSTANTS
  Wid = {1, 2}
  Cta = {1}
  WarpsOf <- OneCta
  Bar = {0, 1}
  Codes <- HandShake
  MaxLaunch = 1
INVARIANT
  BarrierHolds
CHECK_DEADLOCK FALSE
