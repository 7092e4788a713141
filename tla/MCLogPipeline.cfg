SPECIFICATION Spec
CONSTANTS
  Senders = {out, err}
  out = out
  err = err
  LineBound <- MCLineBound
  MaxQueued = 1
  FloodOverBelow = 1
  ReportDropsEvery = 2
  QueueCapacity = 1
  FlushEveryLines = 2
  MaxSize = 2
  HistoryChoices = {0, 1, 2}
  Needed <- MCNeeded
  FaultBound = 1
  Absent = Absent
  Unlinked = Unlinked
  NoLine = NoLine
INVARIANTS
  EveryLossIsTold
  LogIsInOrder
  NothingIsLostSilently
  FollowPrintsOnce
PROPERTIES
  PipelineDrains
CHECK_DEADLOCK FALSE
