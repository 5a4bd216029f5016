SPECIFICATION Spec
CONSTANTS
  Providers <- OnlyOpenAI
  Consumers <- OnlyCollect
  ChunkCap = 2
  MaxReads = 2
INVARIANT UsageAccounted
CHECK_DEADLOCK FALSE
