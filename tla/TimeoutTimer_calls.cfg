SPECIFICATION TimerSpec
CONSTANTS
  MaxOps = 4
  AllowReuse = TRUE
  Spurious = TRUE
INVARIANTS FiresOnlyIfArmed
PROPERTIES NoFireAfterDestroy DestructorReturns WaitingStartFires
