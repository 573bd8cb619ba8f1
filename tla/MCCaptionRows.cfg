\* Two lines, two people of whom one has an alias, and two texts that look alike.
CONSTANTS
  a = a
  b = b
  c = c
  anon = anon
  t1 = t1
  t2 = t2
  t3 = t3
  None = None
  Keys = {1, 2}
  Names = {a, b, c, anon}
  Generic = {anon}
  Texts = {t1, t2, t3}
  Rewrites <- MCRewrites
  MaxAliases = 1
  MaxRows = 3
  MaxRevisions = 2
SYMMETRY Symmetry
SPECIFICATION Spec
INVARIANTS
  ScreenAgrees
PROPERTIES
  KeepsContract
  ReadTwice
  OneVoice
CHECK_DEADLOCK FALSE
