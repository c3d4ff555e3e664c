SPECIFICATION FairSpec
CONSTANT MaxEdits = 1
PROPERTY RemovedIsReleased
