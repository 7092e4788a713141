SPECIFICATION Spec
CONSTANTS
  db = db
  api = api
  Services = {db, api}
  log = log
  Commanded = {db, api}
  Starts <- MCStartsLive
  NextConfigs <- MCNextLive
  Exits <- MCExitsLive
PROPERTIES
  CommandsAreAnswered
  ShutdownEnds
CHECK_DEADLOCK FALSE
