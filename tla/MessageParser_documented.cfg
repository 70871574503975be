CONSTANTS
  MessageTypes = {"bulk_push"}
  BlockTypes = {"invalid", "not_a_block", "send", "receive", "open", "change", "state"}
  ItemCounts = {1}
  MaxSize = 8
SPECIFICATION Spec
CHECK_DEADLOCK FALSE
INVARIANTS
  ParseAgrees
