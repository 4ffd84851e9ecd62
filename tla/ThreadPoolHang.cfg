SPECIFICATION PoolSpec
CONSTANTS
  Tasks = {a, b, c}
  Stop = Stop
  WorkerNum = 2
  QueueNum = 2
  PoolQueueSize = 2
PROPERTIES DestructorReturns
CHECK_DEADLOCK FALSE
