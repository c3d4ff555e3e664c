SPECIFICATION TimersSpec
CONSTANTS
  Period = 72
  Jitter = 1
  Lifetime = 144
  Delay = 2
  Tolerated = 0
  MaxMisses = 1
  MaxReboots = 1
  Baked = FALSE
  Bridges = {b1, b2}
  ORPHAN_RESOURCE_PATHS <- Paths
  ORPHAN_MIN_AGE = 3
  ORPHAN_REAP_ENABLED = TRUE
  Role <- FullRole
  InstallTime = 1
  ListTime = 1
  SweepTime = 1
  MaxErrors = 2
  MaxFailures = 1
PROPERTIES
  MarginHolds
  OnlyNamesakesGo
  RetryGetsThroughIfMay
