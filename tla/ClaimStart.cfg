SPECIFICATION Spec
CONSTANTS
  Callers = {c1}
  NoCaller = NoCaller
  MaxRestarts = 1
  MaxWorkers = 1
  MaxLaunches = 2
PROPERTIES StartResetsCounter
CHECK_DEADLOCK FALSE
