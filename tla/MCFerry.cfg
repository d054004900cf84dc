SPECIFICATION Spec
CONSTANTS
  MAX_LIM = 1000000
  Forever = 1000
  Ferries <- MCFerries
  Headers <- MCHeaders
  Slack = 1
  MaxTime = 6
  MaxPackets <- MCMaxPackets
INVARIANTS
  NoBusyWait
  InOrder
  DelayKept
  LossFollowsLink
  EndsTidily
CHECK_DEADLOCK FALSE
