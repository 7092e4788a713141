SPECIFICATION Spec
CONSTANTS
  Requested = Requested
  Terminated = Terminated
  NoReason = NoReason
  Services <- MCServices
  Reasons <- MCReasons
  AttemptTop = 2
INVARIANTS
  NoProcessOutlivesItsRun
PROPERTIES
  OnlyLegalTransitions
  NotOvertaken
  ShutdownCompletes
  ImplementsContract
