SPECIFICATION Spec
CONSTANTS
  Paths = {p1}
  Apps = {a1}
  MaxCalls = 2
  MaxFailures = 0
  MaxSessions = 0
PROPERTIES RemovedForGood
CHECK_DEADLOCK FALSE
