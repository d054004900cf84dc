SPECIFICATION Spec
CONSTANTS
  PacketLimit = 8
  ByteLimit = 0
  PACKET_SIZE = 2
  Sizes = {1, 2}
  target = 1
  interval = 2
  Word = 256
  ArrivalTimes = {1}
  qdelay_ref = 2
  max_burst = 3
  t_update = 2
  dq_threshold = 2
  ClockSteps <- MCClockSteps
  MaxTime <- MCMaxTime
  MaxPackets <- MCMaxPackets
INVARIANTS
  DropsUnderPressure
  DropsOnSchedule
  OnlyPacketIsKept
  SameAsTimer
CHECK_DEADLOCK FALSE
