SPECIFICATION FairSpec
CONSTANTS
  ChannelCap = 1
  KernelCap = 2
  HasDuration = TRUE
  CaptureFails = FALSE
  MaxPackets = 4
  MaxSignals = 1
CHECK_DEADLOCK FALSE
PROPERTY
  ShutdownCompletes
