SPECIFICATION LeaderSpec
CONSTANTS
  Nodes = {n1, n2}
  top = top
  sub = sub
  Paths <- MCPaths
  SubPaths <- MCSubPaths
  Pickers = {t1, t2}
  Free = Free
  ZkCallers = {hb, app}
  Connectors = {hb}
  Requesters = {app}
  MaxHandles = 2
  MaxContexts = 2
  MaxEvents = 1
  Specs = {s1}
  Getters = {u1, u2}
  Capacity = 2
  MaxGets = 2
  MaxHeartbeats = 1
SYMMETRY Symmetry
INVARIANTS ListsOK TablesOK EvenlyServed ContextsOK HandlesOK GroupsOK RoundsOK
PROPERTIES RemoveKeepsBlackList
