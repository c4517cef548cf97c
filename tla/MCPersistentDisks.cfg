SPECIFICATION FairSpec
CONSTANTS
  v1 = v1
  v2 = v2
  t1 = t1
  Vols = {v1, v2}
  Tenants = {t1}
  Owner <- OneOwner
  Workers = {w1}
  None = none
  Callers = {c1, c2}
  Quota = 3
  Sizes = {2}
  NewSizes = {1}
  MaxSnapshots = 1
INVARIANTS HolderKeepsVolume WithinQuota StorageAccounted
PROPERTIES FollowsLifecycle TransientsEnd
CHECK_DEADLOCK FALSE
