SPECIFICATION FairSpec
CONSTANTS
  c1 = c1
  c2 = c2
  c3 = c3
  c4 = c4
  NoCall = NoCall
  Calls <- ThreeCalls
  MaxRefs = 2
  MaxLosses = 2
INVARIANT OwnedIsHeld
INVARIANT FoldsFromItsParent
INVARIANT NothingLeaks
PROPERTY EveryCallSettles
CHECK_DEADLOCK FALSE
