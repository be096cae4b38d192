SPECIFICATION Spec
CONSTANTS
  Catalogue <- ReviewedLines
  ALL <- MemberALL
  Worlds <- MemberWorlds
  MaxRecord = 1
  MaxInventory = 3
  UnroutableIds = {}
  PingFaults <- None
  VersionFaults <- None
  ListFaults = {"InventoryHttpStatus"}
  ListDefects = {}
  InspectFaults = {"InventoryJson"}
  MaxChanges = 0
CHECK_DEADLOCK FALSE
INVARIANTS ConflictNeedsEvidence
