SPECIFICATION FairSpec
CONSTANTS
  Bridges = {b1}
  ORPHAN_RESOURCE_PATHS <- Paths
  ORPHAN_MIN_AGE = 3
  ORPHAN_REAP_ENABLED = TRUE
  Role <- ShippedRole
  InstallTime = 1
  ListTime = 1
  SweepTime = 1
  MaxErrors = 1
  MaxFailures = 0
PROPERTY RetryGetsThrough
