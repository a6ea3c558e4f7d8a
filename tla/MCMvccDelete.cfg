SPECIFICATION FairSpec
CONSTANTS
  Tx = {t1, t2}
  Plugin = Plugin
  NoTid = NoTid
  ChunkSize = 3
  Dead = 2
  Live = 1
  MaxChunks = 3
  Hotness = 0
INVARIANTS
  PromptSnapshotIntact
  TableConsistent
  OnlyNewRowsLeftBehind
PROPERTIES
  CleanedChunkIsRemoved
