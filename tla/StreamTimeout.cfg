SPECIFICATION Spec
CONSTANTS
  Providers <- OnlyAnthropic
  Consumers <- OnlyCollect
  ChunkCap = 2
  MaxReads = 2
INVARIANT TimeoutSparesStartedStream
CHECK_DEADLOCK FALSE
