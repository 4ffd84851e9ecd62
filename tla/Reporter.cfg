SPECIFICATION BothSpec
CONSTANTS
  Paths = {p1}
  Apps = {a1, a2}
  MaxCalls = 4
  MaxFailures = 1
  MaxSessions = 1
  Callers = {c1, c2}
  Timed = TRUE
  CheckerCalls = 4
CHECK_DEADLOCK FALSE
INVARIANTS NoForgottenRemoval PromisesOK
PROPERTIES Registered RemoveReturns StopEndsLoop
