SPECIFICATION Spec
CONSTANTS
  Session <- MCSession
  Scenarios <- TwoTurns
  PaceDepth = 2
  MaxFaults = 1
  Overlap = FALSE
  RetryAnyTurn = TRUE
PROPERTIES RetryPopsItsOwnQuestion
CHECK_DEADLOCK FALSE
