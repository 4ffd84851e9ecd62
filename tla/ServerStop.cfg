CONSTANTS
  Registered = {"ca", "cb"}
  MaxRequests = 2
  MaxPings = 1
  MaxRuns = 2
SPECIFICATION LifeSpec
INVARIANT PingServiceAlive
CHECK_DEADLOCK FALSE
