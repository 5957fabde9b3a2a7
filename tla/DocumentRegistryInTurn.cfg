CONSTANTS
  a = a  b = b  z = z  c1 = c1  c2 = c2  c3 = c3  c4 = c4  c5 = c5  tm = tm  bp = bp
  Documents = {a, b, z}
  Engines = {tm}
  EngineOf <- OneEngine
  Calls = {c1, c2, c3, c4}
  Ops = {"open", "edit", "optimize", "park", "save", "close", "load", "new"}
  HotLimit = 2
  MaxSlots = 5
  MaxInFlight = 1
  MaxLosses = 0
  Refusable = {"create", "new"}
  Cold = Cold
  NoText = NoText
  Free = Free
SPECIFICATION Spec
SYMMETRY Symmetric
INVARIANTS NoLostWork NoLeakedHandle EditsLandOnTheirDocument
CHECK_DEADLOCK FALSE
