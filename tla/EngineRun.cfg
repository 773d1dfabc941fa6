SPECIFICATION FairSpec
CONSTANTS
  Nodes = {"t", "a", "b", "m"}
  Workflows <- MCWorkflows
  Ports = {"yes", "no"}
  AllPorts = AllPorts
  Known = {"t", "a", "b", "m"}
  None = None
INVARIANTS
  TraversalExact
  StopsAfterCancel
  StatusTellsOutcome
PROPERTIES
  ExecuteReturns
CHECK_DEADLOCK FALSE
