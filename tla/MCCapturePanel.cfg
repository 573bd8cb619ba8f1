CONSTANTS
  Microphones = {1}
  MaxAttempts = 2
  MaxOps = 2
  MaxRequests = 2
  MaxSaves = 2
  MaxLost = 1
SPECIFICATION Spec
INVARIANTS
  NoOrphan
  RevokedStops
  DeleteIsHonest
  CaptureIsShown
CHECK_DEADLOCK FALSE
