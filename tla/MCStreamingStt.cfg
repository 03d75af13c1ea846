CONSTANTS
  TargetRate = 3
  MinSpeech = 2
  TrailingSilence = 2
  MaxUtterance = 4
  SourceRates = {2, 3, 4}
  FrameSamples = 2
  MaxChunk = 5
  MaxBytes = 19
  MaxDuration = 3
SPECIFICATION Spec
INVARIANTS SttInv StreamIsOneShot TranscriptCoversAudio VadFollowsStream
CHECK_DEADLOCK FALSE
