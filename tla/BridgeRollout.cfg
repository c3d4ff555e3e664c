SPECIFICATION Spec
CONSTANTS
  b1 = b1
  b2 = b2
  Bridges <- TwoBridges
  Published <- BootstrapKeys
  Replays = TRUE
  Timely = FALSE
  MaxPubs = 2
  MaxFailures = 1
SYMMETRY Swap
INVARIANTS
  TypeOK
  NoAutoRedeploy
  BundleCoherent
