SPECIFICATION LoopSpec
CONSTANTS
  NumChildren = 2
  ContinueStatus <- FerryChildren
  Statuses = {77}
  MaxStops = 0
INVARIANTS
  NoneOverlooked
