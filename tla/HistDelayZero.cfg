\* The documented default of -gpgpu_hist_delay.
CONSTANTS
  NSM = 2
  HistRange = 2
  NSet = 1
  Assoc = 1
  Key = {2, 4}
  Delay = 0
  NLines = 1
  NMshr = 2
  MaxMerge = 1
  MissQueue = 2
  MaxAccess <- OneEach
  FreedReads = {TRUE}
SPECIFICATION FairSpec
CHECK_DEADLOCK FALSE
PROPERTIES
  MissAnswered
