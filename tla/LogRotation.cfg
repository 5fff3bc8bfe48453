SPECIFICATION Spec
CONSTANTS
  Encoders = {"road", "qRoad"}
  Recorded = {"road", "qRoad"}
  AudioEncoders = {"qRoad"}
  SegmentFrames = 4
  LongFrames = 7
  Patience = 2
  GopSize = 2
  QueueLimit = 3
  MaxFrame = 10
  MaxPackets = 2
  MaxMissed = 1
  MaxRestarts = 1
CHECK_DEADLOCK FALSE
INVARIANTS InTheirSegment NothingLost FallbackOnlyOnMalfunction
