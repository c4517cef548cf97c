SPECIFICATION Spec
CONSTANTS
  Callers = {c1, c2}
  NoCaller = NoCaller
  MaxRestarts = 1
  MaxWorkers = 2
  MaxLaunches = 2
SYMMETRY CallerSymmetry
INVARIANTS TypeOK CrashIsScheduled RestartBudget
PROPERTIES StopIsRespected
CHECK_DEADLOCK FALSE
