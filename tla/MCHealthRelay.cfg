SPECIFICATION Spec
CONSTANTS
  Reasons = {"code"}
  Retries = 2
  FailureTop = 1
  StreakBound = 3
  ProcBound = 2
  RunBound = 2
  QueueBound = 1
INVARIANTS
  QuietMeansTruthful
  BudgetIsNeverSwallowed
PROPERTIES
  RelaysEnd
CHECK_DEADLOCK FALSE
