CONSTANTS
  Requests = {r1, r2}
  Sessions = {s1, s2}
  Workers = {w1, w2}
  Net = Net
  fetch = fetch
  merge = merge
  GraphNodes <- MCGraphNodes
  RpcNodes <- MCGraphNodes
  Entry = fetch
  EndNode = EndNode
  NoNode = NoNode
  Successors <- MCSuccessors
  MaxCalls = 2
  QueueSize = 1
  TlsSize = 1
  None = None
SPECIFICATION Spec
INVARIANTS AnsweredOnce
