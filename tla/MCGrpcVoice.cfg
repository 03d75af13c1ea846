CONSTANTS
  Rpcs = {r1}
  Kinds = {"transcribe", "synthesize", "stream_transcribe", "stream_synthesize"}
  MaxConcurrent = 2
  OutputQueue = 2
SPECIFICATION Spec
INVARIANTS CallInv ResponsesConclude
PROPERTIES FinalIsRead StreamEnds
CHECK_DEADLOCK FALSE
