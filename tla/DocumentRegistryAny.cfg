CONSTANTS
  a = a  b = b  z = z  c1 = c1  c2 = c2  c3 = c3  c4 = c4  c5 = c5  tm = tm  bp = bp
  Documents = {a, b, z}
  Engines = {tm, bp}
  EngineOf <- EngineEach
  Calls = {c1, c2, c3}
  Ops = {"open", "edit", "optimize", "park", "save", "close", "load", "new"}
  HotLimit = 1
  MaxSlots = 5
  MaxInFlight = 3
  MaxLosses = 1
  Refusable = {"create", "hydrate", "parkText", "new", "saveText"}
  Cold = Cold
  NoText = NoText
  Free = Free
SPECIFICATION Spec
SYMMETRY Symmetric
INVARIANTS OwnedHandlesLive HandlesOwnedOnce WithinLimit
CHECK_DEADLOCK FALSE
