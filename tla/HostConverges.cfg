SPECIFICATION FairSpec
CONSTANTS
  A = A
  B = B
  Raid = Raid
  None = None
  Images = {A, B}
  StepLists = {Raid}
  Specs <- InspectSpecs
  AutomatedClean = TRUE
  MayUninstall = FALSE
  MaxEdits = 3
  MaxFaults = 0
  MaxCrashes = 1
PROPERTY Converges
