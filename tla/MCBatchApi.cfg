CONSTANTS
  MaxU32 = 127
  MaxUsize = 127
  MaxEncodedBytes = 64
  MaxDurationMs = 1
  Rates <- MCRates
  Unsupported = Unsupported
  Lengths <- MCLengths
  Sizes <- MCSizes
  ExtractorLimit = 70
  MaxMcpAudio = 50
  Envelope = 1
  PcmLengths <- MCPcmLengths
  Outputs <- MCOutputs
  MaxFields = 3
  Absent = Absent
  Malformed = Malformed
  OddRate = OddRate
SPECIFICATION Spec
INVARIANTS BatchInv ReaderSound AnswersAreFaithful SpeechReadsBack
PROPERTY RequestDecided
CHECK_DEADLOCK FALSE
