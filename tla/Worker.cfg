SPECIFICATION FairSpec
CONSTANT MaxEdits = 4
PROPERTIES
  DrainedBeforeWiped
  FailedIsReleased
