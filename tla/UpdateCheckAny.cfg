SPECIFICATION Spec
CONSTANTS
  t1 = t1
  t2 = t2
  t3 = t3
  t4 = t4
  NoTask = NoTask
  Tasks <- FourTasks
  Versions <- TwoVersions
INVARIANT OfferIsPending
PROPERTY InstallsTheNewest
SYMMETRY AnyOrder
CHECK_DEADLOCK FALSE
