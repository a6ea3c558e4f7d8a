SPECIFICATION FairSpec
CONSTANTS
  Operations <- MCOperations
  Block = 2
INVARIANTS
  RingIntact
  SharesKept
PROPERTIES
  BarrierKernelsFinish
CHECK_DEADLOCK FALSE
