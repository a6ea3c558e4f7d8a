SPECIFICATION FairSpec
CONSTANTS
  Tx = {t1, t2, t3}
  Root = Root
  None = None
  Records = 1
INVARIANTS
  CommitIdsUniqueAndDense
  NoPartialCommitVisible
  AcknowledgedIsVisible
  ActiveSnapshotsExact
PROPERTIES
  SnapshotStable
  ImplementsCommitOrder
  CommitReturns
