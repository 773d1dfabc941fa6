\* Two calls of Execute on one saga object, in sequence or overlapping.
SPECIFICATION Spec
CONSTANTS
  Calls = {c1, c2}
  NumSteps = 4
  Compensable = {1, 2, 4}
  NoCall = none
INVARIANTS
  AllOrNothing
  UndoneInReverse
PROPERTIES
  UndoesOnlyWhatWasDone
  ImplementsContract
CHECK_DEADLOCK FALSE
