SPECIFICATION FairSpec
CONSTANTS
  Tasks = {t1, t2}
  Workers = {w1}
  Reporters = {r1, r2}
  Capacity <- MCCapacity
  QueueSize = 1
  MaxRetries = 1
  MaxFaults = 1
  None = None
INVARIANTS
  LoadMatchesTasks
  PendingIsCarried
PROPERTIES
  OutcomeIsFinal
  WaitingIsAssigned
CHECK_DEADLOCK FALSE
