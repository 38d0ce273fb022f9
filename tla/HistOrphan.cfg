\* As HistReuse: a miss merged into an MSHR entry that is being drained reserves
\* a way that no fetch will fill.
CONSTANTS
  NSM = 2
  HistRange = 2
  NSet = 1
  Assoc = 1
  Key = {2, 4}
  Delay = 2
  NLines = 1
  NMshr = 2
  MaxMerge = 2
  MissQueue = 2
  MaxAccess <- Accesses41
  FreedReads = {TRUE}
SPECIFICATION Spec
CHECK_DEADLOCK FALSE
INVARIANTS
  ReservedHasFetch
