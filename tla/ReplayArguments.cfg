SPECIFICATION ReplaySpec
CONSTANTS
  Providers = {"anthropic"}
  MaxBlocks = 1
  MaxPieces = 1
  Targets = {"anthropic"}
  MaxReplied = 1
INVARIANT ReadyToPassBack
CHECK_DEADLOCK FALSE
