CONSTANTS
  MessageTypes = {"keepalive", "publish", "confirm_req", "confirm_ack", "bulk_pull",
     "bulk_push", "frontier_req", "bulk_pull_blocks", "node_id_handshake",
     "bulk_pull_account", "telemetry_req", "telemetry_ack", "invalid"}
  BlockTypes = {"invalid", "not_a_block", "send", "receive", "open", "change", "state"}
  ItemCounts = {0, 1, 2, 3}
  MaxSize = 340
SPECIFICATION Spec
CHECK_DEADLOCK FALSE
INVARIANTS
  TypeOK
  ParseAgreesElsewhere
  MalformedVotesAreCut
