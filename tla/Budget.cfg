SPECIFICATION Spec
CONSTANTS
  Catalogue <- ReviewedLines
  ALL <- BudgetALL
  Worlds <- BudgetWorlds
  MaxRecord = 2
  MaxInventory = 4
  UnroutableIds = {5}
  PingFaults <- None
  VersionFaults <- None
  ListFaults = {"InventoryShape"}
  ListDefects = {"bad"}
  InspectFaults = {"transport"}
  MaxChanges = 1
CHECK_DEADLOCK FALSE
INVARIANTS TypeOK NoKindStarved BudgetAccounted EachListedOnce
PROPERTIES Terminates
