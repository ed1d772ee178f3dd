SPECIFICATION FairSpec
CONSTANTS
  SegmentCells <- ThreeSegments
  PacketCells = 2
  MaxBuffer = 6
  SegCap = 1
  UdpCap = 2
  Options <- SomeOptions
  Faults = {"start", "socket", "no_pcr"}
  MaxSignals = 3
INVARIANT
  EndLosesAtMostTheQueue
PROPERTIES
  RelayImplemented
  ShutdownCompletes
  OnlyTheThrottleHolds
