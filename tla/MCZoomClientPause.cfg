\* The user pauses, Zoom interrupts and reconnects, the user resumes.
CONSTANTS
  s1 = s1
  p1 = p1
  alice = alice
  None = None
  Streams = {s1}
  Packets = {p1}
  Speakers = {alice}
  SpeakerOf <- MCSpeakerOf
  MaxEvents = 8
  MaxAliases = 1
  MaxSeen = 1
  Horizon = 7
SPECIFICATION SpecAll
CONSTRAINT Undisturbed
INVARIANTS
  NoSilentPause
CHECK_DEADLOCK FALSE
