SPECIFICATION Spec
CONSTANTS
  MaxContext = 2
  MaxSinkAgent = 2
  MaxSrcAgent = 2
  MaxFaults = 1
  Macs = {m1}
  NoMac = NoMac
  MaxLinks = 2
  MaxCalls = 3
  Allowed = {{"fault"}, {"flap", "ports"}}
 
PROPERTIES OnlyOwnEnd EndsClean
CHECK_DEADLOCK FALSE
