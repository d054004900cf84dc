SPECIFICATION Spec
CONSTANTS
  Discipline = "drophead"
  PacketLimit = 2
  ByteLimit = 0
  PACKET_SIZE = 3
  Schedules <- MCSchedules
  Repeats = {TRUE, FALSE}
  Sizes = {2, 4}
  ClockSteps <- ForwardAndBack
  StartTime = 0
  MaxTime = 4
  MaxPackets = 4
INVARIANTS
  AssertionsHold
  DelayPositive
  Conservation
CHECK_DEADLOCK FALSE
