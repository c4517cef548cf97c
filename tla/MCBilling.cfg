SPECIFICATION BillingSpec
CONSTANTS
  MaxEvents = 4
  MaxHandlers = 2
  MaxFaults = 1
  Reporters = {r1, r2}
  Types <- TwoTypes
  MaxUsage = 2
  MaxReportFaults = 1
INVARIANTS  NewestRepairs CanceledIsEnded NothingUnpushed NeverOvercounted
CHECK_DEADLOCK FALSE
