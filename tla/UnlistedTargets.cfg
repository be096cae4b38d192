SPECIFICATION Spec
CONSTANTS
  Inventories <- EvidenceInventories
  Requests <- EvidenceRequests
  StartsWith <- MCStartsWith
CHECK_DEADLOCK FALSE
INVARIANTS UnresolvedIsInAvailableSection
