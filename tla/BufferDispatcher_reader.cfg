SPECIFICATION Spec
CONSTANTS
  Receivers = {"video", "av"}
  TypeOf <- NamedKinds
  InitialCapacity = 2
  MaxCapacity = 3
  Increment = 1
  MaxFrames = 3
  MaxStarts = 1
  ReaderGap = FALSE
PROPERTIES CatchesUp StopReturns
CHECK_DEADLOCK FALSE
