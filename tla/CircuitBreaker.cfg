SPECIFICATION FairSpec
CONSTANTS
  Callers = {c1, c2}
  MaxFailures = 2
  HalfOpenSuccess = 2
  MaxRetries = 1
  FailureCap = 4
INVARIANTS
  CountersMatchState
PROPERTIES
  LegalTransitions
  Recovers
