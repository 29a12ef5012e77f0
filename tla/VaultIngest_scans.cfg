SPECIFICATION Spec
CONSTANTS
  NumPaths = 2
  Content = {c1, c2, c3}
  None = None
  Scanner = {w1, w2}
  MaxDocs = 4
  MaxEdits = 2
  Setting <- InTurnAndAtOnce
INVARIANTS
  TypeOK
  CompleteScanIndexesAll
  NoHistoricalText
  StatesOwnDocuments
  ActiveHasState
PROPERTIES
  MoveKeepsDocument
SYMMETRY Symmetry
CHECK_DEADLOCK FALSE
