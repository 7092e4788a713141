SPECIFICATION Spec
CONSTANTS
  db = db
  api = api
  c1 = c1
  c2 = c2
  Nobody = Nobody
  Services = {db, api}
  Clients = {c1, c2}
  Configs <- MCConfigs
  Watched = {api}
  EventBound = 1
SYMMETRY MCSymmetry
PROPERTY HandStoppedStaysStopped
CHECK_DEADLOCK FALSE
