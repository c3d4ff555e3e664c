SPECIFICATION Spec
CONSTANTS
  A = A
  B = B
  Raid = Raid
  None = None
  Images = {A, B}
  StepLists = {Raid}
  Specs <- SafeSpecs
  AutomatedClean = TRUE
  MayUninstall = TRUE
  MaxEdits = 2
  MaxFaults = 1
  MaxCrashes = 1
INVARIANTS
  TypeOK
  OnlyAllowedCRs
  DriveIsWhole
  InspectedOnce
PROPERTIES
  InspectedBeforeProvide
  HoldIsStable
  KeptWhileWanted
  DetachedIsLeftAlone
  ImplementsLifecycle
CHECK_DEADLOCK FALSE
