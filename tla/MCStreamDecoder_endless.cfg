SPECIFICATION Spec
CONSTANTS
  Capacity = 12
  MaxPayload = 4
  Replies <- AccountWithAddressReplies
  MaxStored = 4
  MayLose = FALSE
  MayFail = FALSE
PROPERTIES HandlerReturns
