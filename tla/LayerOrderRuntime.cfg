SPECIFICATION FairSpec
CONSTANTS
  CountLength = 2
  MaxCalls = 3
  MaxRestarts = 2
  MaxMishaps = 2
INVARIANT PumpKnowsItsQueue
INVARIANT PumpIsArmed
INVARIANT CountIsOfItsCursor
PROPERTY CountFinishes
CHECK_DEADLOCK FALSE
