SPECIFICATION Spec
CONSTANTS
  Kind = "SINK"
  Requests <- SomeRequests
  MaxTrouble = 1
  MayOvertake = FALSE
PROPERTIES DestroyCompletes
CHECK_DEADLOCK FALSE
