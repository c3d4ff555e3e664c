SPECIFICATION ControlPlaneSpec
CONSTANTS
  N = 3
  MaxBundles = 9
  MaxWipes = 1
  Replicas <- ReplicasOf3
  Overlaps <- DistinctOrPrefix
  MaxAttempts = 5
  Patient = FALSE
  Brisk = TRUE
  MaxFailures = 3
  MaxSlips = 1
  MaxReboots = 1
INVARIANTS
  OneBundle
  JoinTypeOK
  JoinedAreMembers
  NeverWaitsForItself
  GivesUpForAReason
PROPERTIES
  HostsAreKept
  Converges
  JoinsEnd
CHECK_DEADLOCK FALSE
