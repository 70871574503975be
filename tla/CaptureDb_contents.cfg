CONSTANTS
  Kinds = {"vote_block", "keepalive", "bulk_pull_account", "bulk_pull"}
  Budget = 8
  Period = 3
  MaxDraws = 4
  MaxSeq = 2
SPECIFICATION Spec
CHECK_DEADLOCK FALSE
INVARIANTS
  TypeOK
  IdsAreFresh
  ReferencesHold
  CountsMatch
PROPERTIES
  DestroyIsDurable
