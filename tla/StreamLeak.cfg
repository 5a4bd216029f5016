SPECIFICATION FairSpec
CONSTANTS
  Providers <- OnlyAnthropic
  Consumers <- OnlyCollect
  ChunkCap = 1
  MaxReads = 3
PROPERTY ChannelsClosed
CHECK_DEADLOCK FALSE
