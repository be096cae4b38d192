SPECIFICATION Spec
CONSTANTS
  Width <- MCWidth
  I32Max = 500
  I64Max = 1000
  U32Max = 200
  U64Max = 2000
  PortMax = 100
  Cap <- MCCap
  NATIVE_CAPABILITIES <- MCCapabilities
  PortKeys <- MCPortKeys
  Responses <- MCResponses
CHECK_DEADLOCK FALSE
INVARIANTS DescendantsRetained
