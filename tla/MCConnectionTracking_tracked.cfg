CONSTANTS
  Keys = {k1, k2}
  Single = TRUE
  Prompt = TRUE
  MayLose = TRUE
  MaxSessions = 2
  MaxSent = 3
  MaxQueued = 1
SPECIFICATION Spec
SYMMETRY KeySymmetry
CHECK_DEADLOCK FALSE
INVARIANTS
  TypeOK
  FlowsShared
  AnswersBelong
  StoredAsSent
PROPERTIES
  ImplementsLog
