CONSTANTS
  Steps <- Diagram
  FoldSteps <- Linked
  Posed <- p
  Keys <- Fields
  Overlaps = FALSE
  Budget <- Small
  MaxFolds = 2
  MaxEngineLosses = 1
SPECIFICATION Spec
INVARIANTS ProgressIsOfARun
CHECK_DEADLOCK FALSE
