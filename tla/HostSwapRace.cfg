SPECIFICATION Spec
CONSTANTS
  A = A
  B = B
  Raid = Raid
  None = None
  Images = {A, B}
  StepLists = {Raid}
  Specs <- SwapSpecs
  AutomatedClean = FALSE
  MayUninstall = FALSE
  MaxEdits = 1
  MaxFaults = 0
  MaxCrashes = 0
INVARIANT DeployLandsWantedImage
