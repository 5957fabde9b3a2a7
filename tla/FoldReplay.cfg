SPECIFICATION FairSpec
CONSTANTS
  sheet = sheet
  half = half
  quarter = quarter
  twist = twist
  corner = corner
  unread = unread
  Paths <- SomePaths
  Sheet = sheet
  Parent <- SomeParents
  Locked = {unread}
  Refused = {twist}
  Documents <- TwoDocuments
  Runs <- ThreeRuns
  Capacity = 1
  MaxCalls = 5
 
INVARIANT RunsHoldTheirStates
INVARIANT CacheBounded
INVARIANT AskedOnce
PROPERTY EveryRunReturns
CHECK_DEADLOCK FALSE
