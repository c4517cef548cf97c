SPECIFICATION FairSerialSpec
CONSTANTS
  Callers = {c1}
  NoCaller = NoCaller
  MaxRestarts = 2
  MaxWorkers = 2
  MaxLaunches = 3
INVARIANTS WatchdogArmed
PROPERTIES ImplementsLifecycle StopReturns CrashIsRetried
CHECK_DEADLOCK FALSE
