SPECIFICATION FairSpec
CONSTANTS
  b1 = b1
  b2 = b2
  Bridges <- OneBridge
  Published <- SingleKeys
  Replays = TRUE
  Timely = TRUE
  MaxPubs = 3
  MaxFailures = 1
INVARIANT JoinIsCurrent
PROPERTIES
  WindowCleans
  PublishedReachesCR
