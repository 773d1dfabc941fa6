\* The levelled queue alone.
SPECIFICATION LevelsSpec
CONSTANTS
  None = None
  PoolTasks = {"t1", "t2"}
  NodeTasks = {"t2"}
  InitialWorkers = 1
  MaxWorkers = 2
  PoolSize = 1
  PoolRetries = 1
  Scalers = {"s1"}
  WorkerCap = 2
  CountLag = 1
  Tasks = {"t1", "t2", "t3"}
  Priority <- MCPriority
  Consumers = {"c1", "c2", "c3"}
  Nackers = {"c1", "c2"}
  MaxNacks = 1
  LevelTasks = {"t1", "t2", "t3"}
  TopLevel = 3
  LevelOf <- MCLevelOf
  LevelConsumers = {"c1", "c2"}
  QTasks = {"t1", "t2"}
  RedisConsumers = {"c1", "c2"}
  PriorityOf <- MCPriorityOf
  RetriesOf <- MCRetriesOf
  PriorityWeight = 2
  AddBound = 4
  FaultBound = 2
PROPERTY
  QueuedIsDelivered
CHECK_DEADLOCK FALSE
