SPECIFICATION Spec
CONSTANTS
  Capacity = 3
  MaxPayload = 5
  Replies <- AnyReplies
  MaxStored = 3
  MayLose = TRUE
  MayFail = TRUE
INVARIANTS TypeOK
PROPERTIES LoopsEnd
