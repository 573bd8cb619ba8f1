CONSTANTS
  i1 = i1
  i2 = i2
  u1 = u1
  u2 = u2
  Ids = {i1, i2}
  Utterances = {u1, u2}
  MaxEvidence = 2
  MaxHistory = 2
  MaxOperations = 1
  MaxRevision = 4
  MaxSessions = 3
SYMMETRY Symmetry
SPECIFICATION Spec
INVARIANTS
  TypeOK
  AlwaysRestorable
  AppliedToWhatItSaw
PROPERTIES
  NothingErased
  HumanProtected
CHECK_DEADLOCK FALSE
