SPECIFICATION Spec
CONSTANTS
  Size = 3
  Batch = 2
  Header = 2
  FrameHeader = 1
  RtpHeader = 1
  SnapCount = 2
  DatagramSizes = {6}
  Loss = FALSE
  LookAlikes = {}
  DropCorrupt = FALSE
  WriteFails = FALSE
  MaxBytes = 12
INVARIANT SourceTaken
