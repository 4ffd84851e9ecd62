SPECIFICATION BothSpec
CONSTANTS
  Requests = {r1, r2, r3}
  Sessions = {s1, s2}
  Workers = {w1, w2}
  Net = Net
  fetch = fetch
  merge = merge
  GraphNodes <- MCGraphNodes
  RpcNodes <- MCGraphNodes
  Entry = fetch
  EndNode = EndNode
  NoNode = NoNode
  Successors <- MCSuccessors
  MaxCalls = 2
  QueueSize = 1
  TlsSize = 1
  None = None
  Tasks = {a, b, c, d}
  Stop = Stop
  WorkerNum = 3
  QueueNum = 1
  PoolQueueSize = 3
INVARIANTS HandOffOK NoUseAfterRelease PoolOK
PROPERTIES Answered DestructorReturnsWithRoom
