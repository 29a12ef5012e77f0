SPECIFICATION Spec
CONSTANTS
  Chunk = {c1, c2}
  Worker = {w1}
  Scope <- AnyVault
  BatchSize = 2
  MaxAttempts = 2
  Rebuild <- BothKinds
  ContentReturns = FALSE
  MaxRuns = 3
  MaxEdits = 1
  MaxGeneration = 4
  MaxCrashes = 1
INVARIANTS
  TypeOK
  CompleteRunIndexesAll
  CompleteRunLeavesNoOrphan
  DeletesAreOfGone
  OrphanIsRemembered
  StatusIsTrue
SYMMETRY ChunkSymmetry
CHECK_DEADLOCK FALSE
