SPECIFICATION Spec
CONSTANTS
  Doc = {d1, d2}
  Text = {t1, t2}
  Run = {r1, r2}
  None = None
  MaxScans = 3
  MaxAnswers = 2
INVARIANTS
  TypeOK
  NoTextOutlivesItsSource
  DecisionsAreWhole
PROPERTIES
  OnlyItsOwnGoes
SYMMETRY Symmetry
CHECK_DEADLOCK FALSE
