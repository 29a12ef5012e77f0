SPECIFICATION Spec
CONSTANTS
  Job = {1}
  Chunk = {1, 2}
  Extractor = {x}
  Resolver = {w1, w2}
  Local = {1, 2}
  serial = serial
  asset = asset
  Identifier = {serial, asset}
  NoEntity = NoEntity
  Answer <- Answers
  MaxStarts = 2
  MaxEdits = 2
  MaxResolves = 2
INVARIANTS
  TypeOK
  FinishedRunMissesNothing
  SameIdentifierSameEntity
  KnowledgeIsGrounded
  AssertionsAreGrounded
  ResolvedRunIsWhole
PROPERTIES
  AnswersAreKept
SYMMETRY Symmetry
CHECK_DEADLOCK FALSE
