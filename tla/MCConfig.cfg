\* Loading: every family of configurations, every selection.
CONSTANTS
  HumanTime <- MCHumanTime
  Sizes <- MCSizes
  Addresses <- MCAddresses
  BadNames = {"bad"}
  BadServices = {9}
  InPath = {"run"}
  None = None
  Cases <- MCCases
  Selections <- MCSelections
  Stopped <- MCStopped
  Here <- MCHere
  MaxSocketPath = 107
  SocketLen = 23
  MovedLen = 32
  Unset = Unset
SPECIFICATION Spec
INVARIANTS
  IncludesAreExact
  ValuesAreAsWritten
  LoadedConfigIsSound
  PlanIsExact
  OneSocketPerProject
CHECK_DEADLOCK FALSE
