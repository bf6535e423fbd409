\* Every kind of end of the two processes, alone and together: unitcomm dies and
\* connects again, event_logger is told to end, killed, told to flush, the unit
\* loses power, clients are slow to append to the file.
SPECIFICATION LiveSpec
CONSTANTS
  NoEvent = NoEvent
  Events = {e1, e2, e3}
  QueueLen = 2
  MaxSaved = 1
  FaultSets = {
    {"reader", "boot"},
    {"kill", "boot"},
    {"reader", "term", "late"},
    {"flush", "term"}}
INVARIANTS ErasedWereTaken Kept NewlineOwed CountCovers
PROPERTIES Reaches
CHECK_DEADLOCK FALSE
