\* Three SMs on a 2 x 2 torus; the home tracks itself and one neighbour, the
\* third SM is out of range.  Keys 3 and 6 compete for the single entry of
\* their home 0 and for the single way of each L1D.
CONSTANTS
  NSM = 3
  HistRange = 2
  NSet = 1
  Assoc = 1
  Key = {3, 6}
  Delay = 1
  NLines = 1
  NMshr = 2
  MaxMerge = 2
  MissQueue = 2
  MaxAccess <- Accesses221
  FreedReads = {TRUE}
  DataBlock = {"x", "y", "z"}
  Local = {"x", "y"}
  Ways = 2
  Entries = 2
  MaxMerged = 2
  QueueSize = 3
  LineCycles = 1
  Configs <- MCConfigs
  MaxData = 4
  Nothing = Nothing
SPECIFICATION CachesSpec
CHECK_DEADLOCK FALSE
INVARIANTS
  TypeOK
  FetchInOnePlace
  WaitHasFiller
  NoPhantomSharer
  CacheHolds
PROPERTIES
  WaitEndsInGrants
  DirtyKept
