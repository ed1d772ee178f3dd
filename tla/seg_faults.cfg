SPECIFICATION RestartSpec
CONSTANTS
  FaultyAt <- MCFaultyAt
  BatchSize = 2
  MaxSegPackets = 3
  SegTicks = 1
  KeepSegments = 2
  RingSize = 1
  Hours <- MCHours
  HourOf <- MCHourOf
  Faults = {"segment_put", "m3u8_write", "index_put", "presign", "hourly_write", "hourly_put", "log_write", "index_open", "kill"}
  MaxPackets = 4
  MaxClock = 2
  MaxRuns = 2
  NoTime = NoTime
INVARIANTS
  EntriesStoredAcrossRuns
  HoursStoredAcrossRuns
  NoPacketForgotten
PROPERTIES
  SequenceStableWithinRun
  HoursGrowWithinRun
