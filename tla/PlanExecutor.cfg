SPECIFICATION Spec
CONSTANTS
  Nodes = {"t", "a", "b", "m"}
  Triggers = {"t", "a"}
  Known = {"t", "a", "m"}
  Workflows <- MCWorkflows
INVARIANTS
  PlanMatchesGraph
  InputsComplete
  ErrorsEndTheRun
CHECK_DEADLOCK FALSE
