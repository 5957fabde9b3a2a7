CONSTANTS
  a = a  b = b  z = z  c1 = c1  c2 = c2  c3 = c3  c4 = c4  c5 = c5  tm = tm  bp = bp
  Documents = {a, b}
  Engines = {tm}
  EngineOf <- OneEngine
  Calls = {c1, c2, c3}
  Ops = {"edit", "park"}
  HotLimit = 1
  MaxSlots = 5
  MaxInFlight = 2
  MaxLosses = 0
  Refusable = {}
  Cold = Cold
  NoText = NoText
  Free = Free
SPECIFICATION Spec
SYMMETRY Symmetric
INVARIANTS NoLostWork
CHECK_DEADLOCK FALSE
