SPECIFICATION Spec
CONSTANTS
  Capacity = 6
  MaxPayload = 4
  Replies <- PullReplies
  MaxStored = 4
  MayLose = FALSE
  MayFail = FALSE
INVARIANTS EntriesInOrder NothingReadyWaits WholeStreamStored
PROPERTIES ImplementsStream
