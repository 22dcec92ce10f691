SPECIFICATION Spec
CONSTANTS
  Apps = {a1, a2}
  Sources = {a1}
  SharedKey = FALSE
  Asks = {"Start", "AppendSurface", "Play"}
  Waits = TRUE
  MaxLives = 2
  MaxMade = 3
  MaxCrashes = 1
INVARIANTS ClientsAreHeard
 
CHECK_DEADLOCK FALSE
