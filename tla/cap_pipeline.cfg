SPECIFICATION FairSpec
CONSTANTS
  ChannelCap = 2
  KernelCap = 2
  HasDuration = TRUE
  CaptureFails = TRUE
  MaxPackets = 5
  MaxSignals = 3
\* a full channel and the join may stop the process for good: see cap_full_channel
CHECK_DEADLOCK FALSE
INVARIANTS
  NoLossInside
  ExitIsClean
PROPERTY
  OnlyTheCaptureHolds
