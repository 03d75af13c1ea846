CONSTANTS
  Requests = {r1, r2}
  MaxConcurrent = 1
  QueueCapacity = 1
  EngineLimit = 1
  MaxRequestId = 2
SPECIFICATION Spec
PROPERTIES AdmittedIsAnswered DrainEmptiesGate
CHECK_DEADLOCK FALSE
