\* Each behaviour runs one of the components.
SPECIFICATION FairSpec
CONSTANTS
  None = None
  \* two executions, started asynchronously or by a request that waits
  ExecutionIds = {"x1", "x2"}
  WorkflowNodes = {1, 2, 3}
  NodeTypes = {"trigger", "action"}
  Workflows <- MCWorkflows
  \* two goroutines, two schedules and up to three cron entries
  CronCallers = {"c1", "c2"}
  EngineSchedules = {"s1", "s2"}
  EntryBound = 3
  \* two schedules of two owners, restarts at any moment
  ScheduleIds = {"s1", "s2"}
  Owners = {"u1", "u2"}
  TriggerBound = 2
  \* two callers share the breaker without a lock; one failure opens it
  Callers = {"c1", "c2"}
  Errors = {"transient"}
  Retryable = {"transient"}
  MaxAttempts = 2
  MaxFailures = 1
  HalfOpenMax = 1
  Policies = {"circuit_breaker"}
  MaxErrors = 2
  ErrorWindow = 1
  TimeBound = 1
  OpenError = "open"
  \* two clients of one channel with queues of two messages
  Clients = {"c1", "c2"}
  HubChannels = {"ch"}
  SendCap = 2
INVARIANTS
  OneOutcome
  StartsWhatItReaches
  QuietWhenOff
  TrialEnds
  NoMessageToClosed
PROPERTIES
  RefusalsLeaveNoTrace
  RunsEnd
  LeaversAreServed
CHECK_DEADLOCK FALSE
