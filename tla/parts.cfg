SPECIFICATION PartsSpec
CONSTANTS
  HourLen = 4
  Recordings <- FourSegments
  IndexRanges <- SomeRanges
  AgentRanges <- SomeRangesOrNone
  Fails = TRUE
  Faults = {"list", "item", "fetch"}
  Recorders = {p1, p2}
  MaxHour = 2
  MaxWrites = 3
  Kills = TRUE
  p1 = p1
  p2 = p2
  Size = 3
  Batch = 2
  Header = 2
  FrameHeader = 1
  RtpHeader = 1
  SnapCount = 2
  DatagramSizes = {2, 3, 5, 6}
  Loss = TRUE
  LookAlikes = {1, 5, 8}
  DropCorrupt = TRUE
  WriteFails = TRUE
  MaxBytes = 12
  Starters = {p1, p2}
  MaxStartFaults = 2
  Pids = {p1}
  Disturbed = {p1}
  NullPid = NullPid
  Invalid = Invalid
  Ok = Ok
  MaxMissing = 17
  MaxFaults = 2
INVARIANTS
  HoursPlayRange
  CombinedWhole
  BytesInOrder
  PacketsPass
  StartsUnlessRaced
  TrackerFollows
  NoCompoundingErrors
PROPERTIES
  LossNeedsOverlap
  GapsReported
