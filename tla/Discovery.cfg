SPECIFICATION FairSpec
CONSTANTS
  Inventories <- MCInventories
  Requests <- MCRequests
  StartsWith <- MCStartsWith
CHECK_DEADLOCK FALSE
INVARIANTS ClosureExact UnusedOverridesRedundant GroupsAreComponents PrerequisitesAreShared ExplanationsComplete AllMissesOnlyReported FindingsAgreeWithInventory LabelsGroupByRule
PROPERTIES DiscoveryTerminates
