SPECIFICATION Spec
CONSTANTS
  Items <- MCItems
  SequenceLength = 3
CHECK_DEADLOCK FALSE
INVARIANTS
  CoverageReached
