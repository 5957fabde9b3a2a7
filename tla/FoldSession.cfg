SPECIFICATION Spec
CONSTANTS
  valley = valley
  twist = twist
  Ops = {valley, twist}
  Refused = {twist}
  Lingers = TRUE
  Rewritable = {"lingering"}
  Failing = {"version", "preview", "fold"}
  MaxSteps = 2
  Budget <- Small
INVARIANT ShownIsItsPath
 
INVARIANT AskedIsHeld
INVARIANT RestartsBounded
INVARIANT WaitersAreWoken
INVARIANT HeldSessionSettles
CHECK_DEADLOCK FALSE
