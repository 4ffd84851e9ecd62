SPECIFICATION Spec
CONSTANTS
  Nodes = {n1}
  Paths = {"top", "sub"}
  SubPaths <- TopAndSub
  Apps = {a1}
  Deletable = {"sub"}
  MaxChanges = 2
  MaxCalls = 3
  MaxFailures = 1
CHECK_DEADLOCK FALSE
INVARIANTS RemovedStaysRemoved StatusOK
PROPERTIES Converges
