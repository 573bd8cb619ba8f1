\* One stream, one packet, a ring of two events; the companion takes part in full.
CONSTANTS
  s1 = s1
  p1 = p1
  alice = alice
  None = None
  Streams = {s1}
  Packets = {p1}
  Speakers = {alice}
  SpeakerOf <- MCSpeakerOf
  MaxEvents = 2
  MaxAliases = 1
  MaxSeen = 1
  Horizon = 4
SPECIFICATION FairSpecAll
PROPERTIES
  AnnouncedLoss
  EndIsTold
  EndIsNoticed
CHECK_DEADLOCK FALSE
