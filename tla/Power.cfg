SPECIFICATION FairSpec
CONSTANTS
  MaxEdits = 2
  MaxFlaps = 1
  MaxCrashes = 1
PROPERTY TargetIsEnforced
