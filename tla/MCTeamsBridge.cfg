CONSTANTS
  Group = 3
  MaxPipe = 2
  MaxInput = 1
  MaxEvents = 1
  MaxPacket = 4
  MaxSamples = 7
  MaxChanges = 1
  MaxFaults = 1
SPECIFICATION FairSpec
PROPERTIES
  InOrder
  PipeMoves
  TogetherEnd
CHECK_DEADLOCK FALSE
