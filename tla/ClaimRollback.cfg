SPECIFICATION SequentialSpec
CONSTANTS
  Deployments = {d1, d2}
  Plain = {}
  MaxCalls = 1
  MaxFaults = 0
PROPERTIES RollbackFindsBackup
CHECK_DEADLOCK FALSE
