SPECIFICATION FairLoopSpec
CONSTANTS
  NumChildren = 2
  ContinueStatus <- NormalChildren
  Statuses = {0, 1}
  MaxStops = 2
INVARIANTS
  CachedStateFresh
  NoneOverlooked
PROPERTIES
  MoveTogether
  ShutdownCompletes
