SPECIFICATION Spec
CONSTANTS
  db = db
  api = api
  log = log
  Services = {db, api, log}
  Commanded = {db, api}
  Starts <- MCStarts
  NextConfigs <- MCNext
  Exits <- MCExits
INVARIANTS
  CounterIsExact
  DependentsStopFirst
  NothingSurvives
PROPERTIES
  OneRunPerService
  ImplementsStackContract
CHECK_DEADLOCK FALSE
