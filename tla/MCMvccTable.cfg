SPECIFICATION Spec
CONSTANTS
  Tx = {t1, t2}
  NoTid = NoTid
  ChunkSize = 2
  MaxRows = 4
  MaxOps = 2
  AnyOrder = FALSE
SYMMETRY Symmetry
INVARIANTS
  ValidateReturnsSnapshot
  NoLostUpdate
  RollbackReleasesLocks
  RowsConsistent
