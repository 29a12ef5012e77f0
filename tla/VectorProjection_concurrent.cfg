SPECIFICATION Spec
CONSTANTS
  Chunk = {c1, c2}
  Worker = {w1, w2}
  Scope <- AllChunks
  BatchSize = 2
  MaxAttempts = 2
  Rebuild <- OnlyIncremental
  ContentReturns = FALSE
  MaxRuns = 2
  MaxEdits = 1
  MaxGeneration = 4
  MaxCrashes = 0
INVARIANTS
  DeletesAreOfGone
SYMMETRY ChunkWorkerSymmetry
CHECK_DEADLOCK FALSE
