SPECIFICATION FairSpec
CONSTANTS
  Ids = {j1, j2}
  Callers = {c1}
  Loop = loop
  Schedules <- TwoInstants
  MaxAttempts = 2
  MaxJobs = 2
  MaxTime = 3
PROPERTIES NoPileUp EveryDueJobFires StopEnds
CHECK_DEADLOCK FALSE
