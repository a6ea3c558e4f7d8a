SPECIFICATION Spec
CONSTANTS
  Null = Null
  BloomSize = 2
  LeftTables <- MCLeftTables
  RightTables <- MCRightTables
  RadixBits = {0, 1}
  OutputChunkSize = 3
  BaseTables <- MCBaseTables
  Predicates <- MCPredicates
  MaxSteps = 4
  Relations <- MCRelations
  Queries <- MCQueries
  MaxCharacter = 9
  MaxDisjunction = 3
  MinJoin = 4
  MinUnionCount = 2
  MaxRanges = 2
  MaxReductions = 2
  WordBits = 4
  MetaBlocks = 2
  FrameBlockSize = 2
  Lz4BlockSize = 3
  Threads = {t1}
  StoredColumns <- MCColumns
  Specs <- MCSpecs
  MaxEncodings = 2
  EncodeWhileAccessed = FALSE
  FileTables <- MCFileTables
  ChunkSizes = {1, 3}
  MaxFileSteps = 4
  ExportAnything = FALSE
INVARIANTS
  JoinsExact
  OutputsExact
  PlanKeepsResult
  SegmentsExact
CHECK_DEADLOCK FALSE
