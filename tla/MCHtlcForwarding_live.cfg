CONSTANTS
  InKey = {k1}
  MaxOut = 1
  NoKey = NoKey
  MaxStopsIn = 0
  MaxStopsOut = 1
  MaxCrashes = 2
  MaxFaults = 1
  Expires = TRUE
  ExpiresOpen = TRUE
  WindowCloses = FALSE
SPECIFICATION FairSpec
CHECK_DEADLOCK FALSE
INVARIANT AnswersAgree
INVARIANT CircuitOutlivesHtlc
INVARIANT AckedIsAnswered
PROPERTY UsesCircuitMap
PROPERTY EveryAddAnswered
PROPERTY CircuitsReleased
