SPECIFICATION FairLoopSpec
CONSTANT Calls = 5
INVARIANTS
  LoopConsistent
PROPERTIES
  PauseReturns
CHECK_DEADLOCK FALSE
