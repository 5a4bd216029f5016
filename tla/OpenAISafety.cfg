SPECIFICATION FairSpec
CONSTANTS
  Calls = {a, b}
  Requests <- MixedRequests
  Models <- Opposites
  Forced = "unset"
  MaxSends = 4
INVARIANTS LearnedTrue AdjustedForCause EffortNearest ExhaustedForCause
PROPERTIES Settles
CHECK_DEADLOCK FALSE
