\* Two chunks, a queue of one; pipes and ring of two.
CONSTANTS
  MaxQueued = 1
  MaxPipe = 2
  MaxEvents = 2
  MaxChunks = 2
  MaxRevisions = 1
  MaxFaults = 1
SPECIFICATION FairSpec
PROPERTIES
  InOrder
  FinalsStay
  StopEnds
CHECK_DEADLOCK FALSE
