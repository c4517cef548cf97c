SPECIFICATION Spec
CONSTANTS
  o1 = o1
  h1 = h1
  Origins = {o1}
  Hosts = {h1}
  Requests = {r1, r2}
  Serves <- Advertised
  MaxInFlight = 1
  MaxSockets = 3
  MaxPings = 2
  MaxFaults = 1
SYMMETRY RequestSymmetry
INVARIANTS TypeOK LiveIsRouted RoutesAreLive OneSocket
PROPERTIES StaysDown
CHECK_DEADLOCK FALSE
