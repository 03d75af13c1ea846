CONSTANTS
  Sessions = {s1}
  MaxConcurrent = 2
SPECIFICATION Spec
INVARIANTS SessionInv EventsInOrder CloseMatchesReport
PROPERTY SessionEnds
CHECK_DEADLOCK FALSE
