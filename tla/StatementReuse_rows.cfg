CONSTANTS
  Kinds = {"plain", "publish", "regular", "hashes", "malformed",
           "hash_amount", "address_only", "hash_amount_address"}
  MayFail = TRUE
  MaxPuts = 4
SPECIFICATION Spec
CHECK_DEADLOCK FALSE
INVARIANTS
  MeaningfulColumnsOwn
  PacketsOwnTheirContent
