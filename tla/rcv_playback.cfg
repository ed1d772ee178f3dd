SPECIFICATION FairSpec
CONSTANTS
  Segments = 6
  HistCap = 3
  SegCap = 1
  Offset <- EveryOther
  Situations <- SomeSituations
INVARIANTS
  PlayedInOrder
  LiveStartsAtTheEdge
  VodPlaysRange
PROPERTY
  PlaybackEnds
