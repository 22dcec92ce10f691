CONSTANTS
  MaxFrames = 4
  Modulus = 16
  FirstSeq = 14
  KMin = 1
  KMax = 2
  MaxRepeated = 1
SPECIFICATION Spec
INVARIANT SortedOnce  NoLostWakeup
PROPERTY OnlyLateDropped StoppedIsQuiet
CHECK_DEADLOCK FALSE
