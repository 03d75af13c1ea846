CONSTANTS
  Sessions = {s1}
  MaxConcurrent = 1
SPECIFICATION Spec
INVARIANT EveryFailureReported
CHECK_DEADLOCK FALSE
