SPECIFICATION Spec
CONSTANTS
  NSM = 3
  HistRange = 2
  NSet = 1
  Assoc = 2
  Key <- MCKey
  Age = 1
  MaxTime = 1
INVARIANTS
  EntryFoundByProbe
  ParkedOnlyOnWait
  SharersInRange
PROPERTIES
  ImplementsDirectory
  SharedEntryKept
