\* One session, two announced streams, two packets of two speakers.
CONSTANTS
  s1 = s1
  s2 = s2
  p1 = p1
  p2 = p2
  alice = alice
  bob = bob
  None = None
  Streams = {s1, s2}
  Packets = {p1, p2}
  Speakers = {alice, bob}
  SpeakerOf <- MCSpeakerOf
  MaxEvents = 3
  MaxAliases = 1
  MaxSeen = 1
  Horizon = 6
SPECIFICATION FairSpec
INVARIANTS
  TypeOK
  OneConnection
  IdentityForgotten
PROPERTIES
  StoppedIsFinal
  ConfirmedStreamOnly
  PendingForgotten
