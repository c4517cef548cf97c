SPECIFICATION FairSpec
CONSTANTS
  Deployments = {d1, d2}
  Plain = {d2}
  MaxCalls = 1
  MaxFaults = 1
INVARIANTS RunsFromDisk SandboxIsClean OneCurrent
INVARIANTS CancelIsHonoured ServedIsCurrent
PROPERTIES BuildsSettle
CHECK_DEADLOCK FALSE
