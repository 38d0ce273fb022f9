\* Three warps with two programs for the scheduler; three CTAs on two slots,
\* with barriers for all and for some of their warps.
SPECIFICATION WarpsSpec
CONSTANTS
  NumWarps = 3
  Programs <- MCPrograms
  Ages <- MCAges
  Policies = {"lrr", "gto", "two_level", "swl"}
  MaxActive = 2
  Limit = 1
  MaxIssue <- MCIssue
  Width = 1
  Wid = {1, 2, 3, 4, 5}
  Cta = {1, 2}
  WarpsOf <- MCWarpsOf
  Bar = {0, 1}
  Codes <- MCCodes
  MaxLaunch = 3
INVARIANTS
  BarriersHold
  LevelsHold
PROPERTIES
  RoundRobin
  GreedyThenOldest
  EveryWarpExits
  EveryCtaEnds
CHECK_DEADLOCK FALSE
