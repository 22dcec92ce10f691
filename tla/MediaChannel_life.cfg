SPECIFICATION Spec
CONSTANTS
  Workers = {w1, w2}
  Nobody = Nobody
  Surfaces = {s1, s2}
  MaxInputs = 1
  Tracks = {"audio", "video"}
  Renderer = FALSE
  Producers = {p1}
  MaxRequests = 4
  MaxExtras = 1
  MaxPlayed = 1
  Late = TRUE
INVARIANTS NoOrphanPlayer CaptureEnds
PROPERTIES HandlersReturn
CHECK_DEADLOCK FALSE
