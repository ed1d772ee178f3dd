SPECIFICATION Spec
CONSTANTS
  BatchSize = 2
  MaxSegPackets = 3
  SegTicks = 1
  KeepSegments = 2
  RingSize = 1
  Hours <- MCHours
  HourOf <- MCHourOf
  Faults = {"kill"}
  FaultyAt <- MCFaultyAt
  MaxPackets = 7
  MaxClock = 3
  NoTime = NoTime
INVARIANTS
  GracefulStopLosesLessThanABatch
  ListedWhenHealthy
  HoursOrdered
PROPERTIES
  StreamImplemented
  LiveSequenceStable
