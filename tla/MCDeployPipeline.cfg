SPECIFICATION FairSpec
CONSTANTS
  t1 = t1
  t2 = t2
  h1 = h1
  h2 = h2
  Tenants = {t1, t2}
  Hosts = {h1, h2}
  Builds = {b1}
  Owner <- OneEach
  MaxDeploys = 3
  MaxFaulty = 1
  MaxCrashes = 1
INVARIANTS TypeOK FirstInFirstOut RoutesAreServed FailureRestoresRoute BundleIffLive
PROPERTIES DeploysSettle
CHECK_DEADLOCK FALSE
