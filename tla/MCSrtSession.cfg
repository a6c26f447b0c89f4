SPECIFICATION Spec
CONSTANTS
  Profiles = {p, i}
  IntraProfiles = {i}
  MinResolved = 1
  StallTicks = 1
  EpochBase = 10
  MaxConnections = 2
  MaxFrames <- FramesOfConnections
  MaxEpochs = 2
  MaxReports <- ReportsOfConnections
  Capacity = 2
INVARIANTS
  TypeOK
  LossIsOfThisConnection
  StallIsNotCountedTwice
PROPERTIES
  PFramesHaveTheirReference
  DecodesIntact
  WaitingIsServed
  ImplementsPlayback
