\* The editing of one workflow alone.
SPECIFICATION EditingSpec
CONSTANTS
  None = None
  NaN = NaN
  Scalar = Scalar
  Fail = Fail
  NoIndex = NoIndex
  Panic = Panic
PROPERTY
  WritesWhatItLoaded
CHECK_DEADLOCK FALSE
