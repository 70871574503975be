CONSTANTS
  MaxPackets = 4
  ImportOnly = FALSE
SPECIFICATION Spec
CHECK_DEADLOCK FALSE
INVARIANTS
  TypeOK
  HandOffInOrder
  StopIsPrompt
PROPERTIES
  StopCompletes
  ImplementsChannel
