SPECIFICATION Spec
CONSTANTS
  Catalogue <- ReviewedLines
  ALL <- MemberALL
  Worlds <- ProbedWorlds
  MaxRecord = 1
  MaxInventory = 3
  UnroutableIds = {}
  PingFaults <- BadPings
  VersionFaults <- BadVersions
  ListFaults = {"InventoryHttpStatus"}
  ListDefects = {"repeat"}
  InspectFaults = {"InventoryJson"}
  MaxChanges = 2
CHECK_DEADLOCK FALSE
INVARIANTS ProbeNotTorn CleanInventoryIsClosed NoFalseAlarm
