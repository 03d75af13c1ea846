CONSTANTS
  Requests = {r1, r2, r3}
  MaxConcurrent = 1
  QueueCapacity = 1
  EngineLimit = 1
  MaxRequestId = 3
SPECIFICATION Spec
SYMMETRY Symmetry
INVARIANTS AdmissionInv GracefulReturnsEverything
PROPERTIES OverloadIsReal BusyNeedsOutsider
CHECK_DEADLOCK FALSE
