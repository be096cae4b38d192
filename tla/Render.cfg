SPECIFICATION Spec
CONSTANTS
  KindOf <- MCKindOf
  NameOf <- MCNameOf
  ReviewedVersions <- MCReviewedVersions
  Width <- MCWidth
  I32Max <- MCI32Max
  I64Max <- MCI64Max
  Cap <- MCCap
  Setups <- MCSetups
  Calls <- MCCalls
  MaxCalls <- MCMaxCalls
  Targets <- MCTargets
CHECK_DEADLOCK FALSE
INVARIANTS PlanesAgree DisclosureControlled ScriptInputsChecked OutcomeExact GatesAgree
PROPERTIES CallsKeepDeclarations
