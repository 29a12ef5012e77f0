SPECIFICATION Spec
CONSTANTS
  NumPaths = 1
  Content = {c1, c2}
  None = None
  Scanner = {w1}
  MaxDocs = 1
  MaxEdits = 1
  Setting <- WithACrash
INVARIANT CompleteScanIndexesAll
SYMMETRY Symmetry
CHECK_DEADLOCK FALSE
