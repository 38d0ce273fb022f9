\* Two SMs, both in range.  SM 0 makes enough accesses to merge misses, evict,
\* and fetch a block again while the response to its first fetch is drained,
\* and to fill its miss queue with writes.
CONSTANTS
  NSM = 2
  HistRange = 2
  NSet = 1
  Assoc = 1
  Key = {2, 4}
  Delay = 2
  NLines = 1
  NMshr = 2
  MaxMerge = 2
  MissQueue = 2
  MaxAccess <- Accesses41
  FreedReads = {TRUE}
SPECIFICATION FairSpec
CHECK_DEADLOCK FALSE
INVARIANTS
  ReservedUntilFill
  MissQueueBound
PROPERTIES
  TablesSpec
  MissAnswered
  CourseSpec
