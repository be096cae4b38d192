SPECIFICATION Spec
CONSTANTS
  KindOf <- MCKindOf
  Intents <- MCIntents
CHECK_DEADLOCK FALSE
INVARIANTS PlanOrdered PlanSufficient StartupHonoured ValidationExact
PROPERTIES PlanningTerminates
