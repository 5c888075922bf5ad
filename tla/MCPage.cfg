SPECIFICATION Spec
CONSTANTS
  Session <- MCSession
  Scenarios <- MCScenarios
  PaceDepth = 2
  MaxFaults = 1
  Overlap = FALSE
  RetryAnyTurn = FALSE
INVARIANTS TypeOK DrainedMeansFreed NeverClosedWhileRunning HistoryIsTheConversation
PROPERTIES DeliversReply RetryPopsItsOwnQuestion EveryStreamEnds ComposerComesBack
CHECK_DEADLOCK FALSE
