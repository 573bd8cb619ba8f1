CONSTANTS
  Group = 2
  MaxPipe = 1
  MaxInput = 1
  MaxEvents = 2
  MaxPacket = 1
  MaxSamples = 1
  MaxChanges = 2
  MaxFaults = 0
  MaxConsents = 2
  MaxGenerations = 2
  MaxLost = 2
SPECIFICATION FairSpecAll
INVARIANTS
  ProbeIsCurrent
  ShownAgrees
PROPERTIES
  LeaseEnds
  EndIsShown
CHECK_DEADLOCK FALSE
