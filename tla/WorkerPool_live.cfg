SPECIFICATION RollingRestarts
CONSTANTS
  Worker = {w1}
  NoWorker = NoWorker
  MaxJobs = 2
  Priority <- TwoPriorities
  MaxAttempts = 2
  LeaseTicks = 1
  MaxCrashes = 1
PROPERTIES
  EveryJobEnds
