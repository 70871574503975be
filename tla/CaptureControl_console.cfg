CONSTANTS
  MayFail = TRUE
  Period = 3
  MaxQueued = 1
SPECIFICATION Spec
CHECK_DEADLOCK FALSE
INVARIANTS
  TypeOK
  StoppedIsStopped
  OneReassembler
  CaptureOutlived
  FaultOnlyWhenFull
  OverrunBounded
  DestroyFindsNoCapture
PROPERTIES
  ControlEnds
