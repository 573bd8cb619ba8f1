\* Two chunks, a queue of one; pipes and ring of two, no fault: an utterance that
\* ends blank.
CONSTANTS
  MaxQueued = 1
  MaxPipe = 2
  MaxEvents = 2
  MaxChunks = 2
  MaxRevisions = 1
  MaxFaults = 0
SPECIFICATION Spec
INVARIANT
  MonotonicRevision
CHECK_DEADLOCK FALSE
