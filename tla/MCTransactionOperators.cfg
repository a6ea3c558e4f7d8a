SPECIFICATION FairSpec
CONSTANTS
  Ops <- StatementOps
  RW <- StatementRW
  Plans <- BothPlans
INVARIANTS
  InputsAvailable
  RollbackConsistent
PROPERTIES
  StatementConflictIsRolledBack
CHECK_DEADLOCK FALSE
