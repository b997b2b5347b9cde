CONSTANTS
  Streams = {s1}
  Capacity = 3
  BatchSize = 2
  Limit = 2
  MaxEvents = 5
  MaxRuns = 2
SPECIFICATION Spec
INVARIANT InSequence
PROPERTY ImplementsJournal
PROPERTY NoLostWakeup
PROPERTY StreamCatchesUp
CHECK_DEADLOCK FALSE
