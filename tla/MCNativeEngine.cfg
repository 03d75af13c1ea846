CONSTANTS
  Batches = {b1, b2}
  Streams = {s1}
  Speeches = {t1}
  MaxConcurrent = 2
  Workers = 1
  MaxDecodeSteps = 1
  MaxFrames = 2
  Nobody = nobody
SPECIFICATION Spec
INVARIANT NativeInv
PROPERTIES ExecutorRecovers ProcessEnds
CHECK_DEADLOCK FALSE
