SPECIFICATION TrackerSpec
CONSTANTS
  ShiftBits = 5
  FactorBits = 3
  DurationMax = 12
  AttemptTop = 12
  FailureBound = 14
  Settings <- MCSettings
INVARIANTS
  BackoffIsTheDocumentedMinimum
  BudgetIsExact
CHECK_DEADLOCK FALSE
