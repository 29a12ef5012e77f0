SPECIFICATION Spec
CONSTANTS
  Doc = {"d1", "d2"}
  Version = {1, 2}
  Section = {"top", "sub"}
  NoVersion = 0
  Chunk <- TwoDocuments
  Within <- SubInTop
  Navigation = {}
  Limit = 2
  ClaimLimit = 1
  MaxPaths = 2
  MaxContext = 1
  MaxFound = 3
  MaxHops = 2
  MaxChanges = 2
INVARIANTS
  TypeOK
  AnswerWasCurrent
  ContextBelongsToFound
  SilenceMeansComplete
CHECK_DEADLOCK FALSE
