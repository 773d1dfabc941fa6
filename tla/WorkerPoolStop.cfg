SPECIFICATION Spec
CONSTANTS
  Tasks = {t1, t2}
  NodeTasks = {t2}
  InitialWorkers = 1
  MaxWorkers = 2
  QueueSize = 2
  MaxRetries = 1
  Scalers = {s1}
  WorkerCap = 2
  CountLag = 2
  None = None
INVARIANT StopsGracefully
CHECK_DEADLOCK FALSE
