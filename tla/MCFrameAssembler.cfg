SPECIFICATION Spec
CONSTANTS
  Packets <- MCPackets
  FrameTimeout = 1
  CompletedTtl = 2
  MaxPartialFrames = 1
INVARIANTS
  TypeOK
  PartialIsIncomplete
PROPERTIES
  DeliveredOnce
  EvictionKeepsNewest
  PartialsEnd
