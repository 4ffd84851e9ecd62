SPECIFICATION ZkSpec
CONSTANTS
  ZkCallers = {hb, app}
  Connectors = {hb, app}
  Requesters = {}
  MaxHandles = 2
  MaxContexts = 2
  MaxEvents = 1
INVARIANT NoFinalizeDeadlock
CHECK_DEADLOCK FALSE
