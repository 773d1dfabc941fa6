\* Each behaviour runs one of the features or one node.
SPECIFICATION Spec
CONSTANTS
  None = None
  NaN = NaN
  Scalar = Scalar
  Fail = Fail
  NoIndex = NoIndex
  Panic = Panic
INVARIANTS
  WorkflowsStayWhole
  NodesRouteAndMerge
  FunctionsAnswer
  CountedOnce
CHECK_DEADLOCK FALSE
