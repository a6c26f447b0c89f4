SPECIFICATION Spec
CONSTANTS
  Shards <- TwoSessions
  Probes = {2, 3}
  Started <- EarlyThird
  FrameTimeout = 1
  CompletedTtl = 2
  MaxPartialFrames = 2
  StallAge = 0
INVARIANTS
  TypeOK
  StrictGating
  SynchronizedConsistent
  SessionNeverReturns
PROPERTIES
  ImplementsPlayback
  ReportsAreTrue
  KeyframeUnfreezes
