SPECIFICATION Spec
CONSTANTS
  Workers = {"w1", "w2"}
  Clients = {"c"}
  MaxEvents = 2
  MaxSends = 3
  ClientCalls = {"pushing"}
  Kinds = {"sends", "syncs"}
INVARIANTS OnePlace
PROPERTIES AllHandled 
CHECK_DEADLOCK FALSE
