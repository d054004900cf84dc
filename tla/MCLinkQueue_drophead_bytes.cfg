SPECIFICATION Spec
CONSTANTS
  Discipline = "drophead"
  PacketLimit = 0
  ByteLimit = 4
  PACKET_SIZE = 4
  Schedules <- MCSchedules
  Repeats = {TRUE, FALSE}
  Sizes = {1, 3}
  ClockSteps <- Forward
  StartTime = 0
  MaxTime = 4
  MaxPackets = 4
INVARIANTS
  AssertionsHold
CHECK_DEADLOCK FALSE
