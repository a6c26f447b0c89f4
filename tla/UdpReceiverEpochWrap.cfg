SPECIFICATION Spec
CONSTANTS
  Shards <- WrappedEpoch
  Probes = {1}
  Started <- OneStart
  FrameTimeout = 1
  CompletedTtl = 2
  MaxPartialFrames = 2
  StallAge = 0
PROPERTIES
  KeyframeUnfreezes
