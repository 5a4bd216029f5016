SPECIFICATION PromptSpec
CONSTANTS
  Conns = {c1, c2}
  None = None
  MaxRetries = 2
  Retrying = TRUE
  PerAttempt = TRUE
  InitialBackoff = 1
  MaxBackoff = 1
  RetryAfters = {0, 3}
  EmptyOn = {}
INVARIANTS BodyUsable OneConnection NothingLeftBehind BudgetSpent
PROPERTIES NoForeignClose StuckFreed HeadersBounded CancelEnds
CHECK_DEADLOCK FALSE
