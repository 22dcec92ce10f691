SPECIFICATION Spec
CONSTANTS
  Devices = {d1, d2}
  Surfaces = {s1, s2}
  Clients = {c1, c2}
  Workers = {w1}
  AccessDevMaximum = 2
  SurfaceMaximum = 1
  ForegroundMaximum = 1
  MaxAgents = 2
  MaxRemoves = 1
  MaxTrouble = 1
SYMMETRY Interchangeable
INVARIANTS StoppedIsEmpty WithinLimits SurfacesHaveDevice PlayingIsShown 
CHECK_DEADLOCK FALSE
