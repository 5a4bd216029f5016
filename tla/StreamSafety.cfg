SPECIFICATION FairSpec
CONSTANTS
  Providers <- AllProviders
  Consumers <- AllConsumers
  ChunkCap = 2
  MaxReads = 3
INVARIANTS UsageBeforeDone UsageWithFinish DoneIsFinal
PROPERTIES ContractHonoured ConsumerReturns ProducerLeaves CancelReturns
CHECK_DEADLOCK FALSE
