SPECIFICATION DoorSpec
CONSTANTS
  Daemons = {d1, d2}
  Files = {f1, f2, f3}
  Attempts = 2
  None = None
  Stale = Stale
INVARIANTS
  OneDaemonPerProject
  ServingIsReachable
PROPERTIES
  StartTellsTheTruth
  SignalEndsIt
CHECK_DEADLOCK FALSE
