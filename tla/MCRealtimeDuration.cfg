CONSTANTS
  Sessions = {s1}
  MaxConcurrent = 1
SPECIFICATION Spec
PROPERTY SessionDurationBounded
CHECK_DEADLOCK FALSE
