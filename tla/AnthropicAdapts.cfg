SPECIFICATION FairSpec
CONSTANTS
  Calls = {a, b}
  Requests <- MixedRequests
  Apis <- Extremes
  MaxSends = 6
INVARIANTS LearnedTrue AdjustedForCause AdjustmentsHold GetsThrough
PROPERTY Settles
CHECK_DEADLOCK FALSE
