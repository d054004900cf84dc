SPECIFICATION FairSpec
CONSTANTS
  Discipline = "infinite"
  PacketLimit = 0
  ByteLimit = 0
  PACKET_SIZE = 3
  Schedules <- MCSchedules
  Repeats = {TRUE, FALSE}
  Sizes = {1, 2, 3}
  ClockSteps <- Forward
  StartTime = 1
  MaxTime = 6
  MaxPackets = 3
INVARIANTS
  SlotTimes
  IdealLink
PROPERTIES
  CallsReturn
  ImplementsService
