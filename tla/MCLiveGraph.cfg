SPECIFICATION FairGraphSpec
CONSTANTS
  Kinds = {"rate", "delay"}
  Width = 1
  LogicalWidth = 1
  Amounts = {1, 2}
  MaxCalls = 2
  LastTime = 4
INVARIANTS
  BinsAreDrawnOnce
PROPERTIES
  CountedOnTime
  Destroyed
CHECK_DEADLOCK FALSE
