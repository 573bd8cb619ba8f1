\* Two workers; the panel keeps one row, the ring holds two events.  With Settle = 0 the tick
\* of a frame already settles its rows: what follows a final comes within few frames.
CONSTANTS
  t1 = t1
  t2 = t2
  NoText = NoText
  First = t1
  Texts = {t1, t2}
  MaxEvents = 2
  MaxKept = 1
  Settle = 0
  MaxWorkers = 2
  MaxRows <- MCRows
  MaxRevisions = 2
  MaxClock <- MCClock
  MaxPipe = 1
SPECIFICATION Spec
INVARIANTS
  OnlyItsWorker
  NoIdleCapture
  FinalsAgree
  PausedIsTrue
PROPERTIES
  PausedIsQuiet
CHECK_DEADLOCK FALSE
