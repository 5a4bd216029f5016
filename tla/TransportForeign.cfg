SPECIFICATION Spec
CONSTANTS
  Conns = {c1, c2, c3}
  None = None
  MaxRetries = 1
  Retrying = TRUE
  PerAttempt = FALSE
  InitialBackoff = 1
  MaxBackoff = 1
  RetryAfters = {0, 3}
  EmptyOn = {"busy"}
PROPERTY NoForeignClose
CHECK_DEADLOCK FALSE
