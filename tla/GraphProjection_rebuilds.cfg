SPECIFICATION Spec
CONSTANTS
  Content = {c1, c2, c3}
  Rebuilder = {w1, w2}
  NumParts = 2
  PartsReturn = FALSE
  MaxAttempts = 2
  MaxChanges = 3
  MaxRebuilds = 3
  MaxFailures = 1
INVARIANTS
  TypeOK
  CompleteRebuildIsCurrent
  GraphIsAudited
SYMMETRY ContentRebuilderSymmetry
CHECK_DEADLOCK FALSE
