SPECIFICATION Spec
CONSTANTS
  Worker = {w1, w2}
  NoWorker = NoWorker
  MaxJobs = 1
  Priority <- OnePriority
  MaxAttempts = 3
  LeaseTicks = 2
  MaxCrashes = 2
INVARIANTS
  PoolTypeOK
  RowsConsistent
  AttemptsFence
  OwnerHoldsLastAttempt
PROPERTIES
  UnexpiredLeaseIsKept
  SuccessIsEarned
  LifecycleSpec
SYMMETRY WorkerSymmetry
