CONSTANTS
  a = a
  b = b
  c = c
  None = None
  Ids = {a, b, c}
  Limit = 2
  MaxCalls = 3
  MaxRequests = 4
  MaxClock = 1
SYMMETRY Symmetry
SPECIFICATION Spec
INVARIANTS
  WithinLimit
  Durable
PROPERTIES
  OpensSwept
CHECK_DEADLOCK FALSE
