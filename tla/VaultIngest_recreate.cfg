SPECIFICATION Spec
CONSTANTS
  NumPaths = 1
  Content = {c1, c2}
  None = None
  Scanner = {w1}
  MaxDocs = 2
  MaxEdits = 2
  Setting <- WithPathsUsedAgain
INVARIANT ChangesAreStorable
SYMMETRY Symmetry
CHECK_DEADLOCK FALSE
