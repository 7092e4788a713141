SPECIFICATION Spec
CONSTANTS
  ev = ev
  w1 = w1
  w2 = w2
  sudo = sudo
  prog = prog
  Casts <- MCCasts
  Sends = {w1, w2, sudo}
  Follows = {ev}
  Programs = {prog}
  Foreign = {sudo}
  NoLogs = {ev}
  Waits = {w1, w2}
  NoCall = NoCall
  MaxConnections = 1
  MaxMalformed = 3
  SocketBuffer = 1
  StreamBacklog = 1
INVARIANTS
  StreamHasNoSilentGap
  WaitAgreesWithTheEvents
PROPERTIES
  FailureMeansNoAnswer
  SlotComesBack
CHECK_DEADLOCK FALSE
