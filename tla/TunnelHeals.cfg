SPECIFICATION FairSpec
CONSTANTS
  o1 = o1
  h1 = h1
  Origins = {o1}
  Hosts = {h1}
  Requests = {r1}
  Serves <- Advertised
  MaxInFlight = 1
  MaxSockets = 6
  MaxPings = 1
  MaxFaults = 1
PROPERTIES Heals ForwardSettles
CHECK_DEADLOCK FALSE
