SPECIFICATION Spec
CONSTANTS
  o1 = o1
  h1 = h1
  Origins = {o1}
  Hosts = {h1}
  Requests = {r1}
  Serves <- Advertised
  MaxInFlight = 1
  MaxSockets = 1
  MaxPings = 0
  MaxFaults = 0
PROPERTIES DrainLosesNothing
CHECK_DEADLOCK FALSE
