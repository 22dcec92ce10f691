SPECIFICATION Spec
CONSTANTS
  Receivers = {"video"}
  TypeOf <- NamedKinds
  InitialCapacity = 2
  MaxCapacity = 3
  Increment = 1
  MaxFrames = 6
  MaxStarts = 1
  ReaderGap = TRUE
INVARIANTS RingAgrees
PROPERTIES InOrder OnlyFullLosesKey
CHECK_DEADLOCK FALSE
