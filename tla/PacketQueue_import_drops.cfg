CONSTANTS
  MaxPackets = 4
  ImportOnly = TRUE
SPECIFICATION Spec
CHECK_DEADLOCK FALSE
INVARIANTS
  ImportedPacketsHandled
