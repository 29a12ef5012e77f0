SPECIFICATION Spec
CONSTANTS
  Chunk = {c1, c2}
  Worker = {w1}
  Scope <- AllChunks
  BatchSize = 2
  MaxAttempts = 3
  Rebuild <- OnlyIncremental
  ContentReturns = TRUE
  MaxRuns = 3
  MaxEdits = 2
  MaxGeneration = 4
  MaxCrashes = 0
INVARIANTS
  CompleteRunIndexesAll
SYMMETRY ChunkSymmetry
CHECK_DEADLOCK FALSE
