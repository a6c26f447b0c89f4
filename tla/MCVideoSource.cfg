SPECIFICATION Spec
CONSTANTS
  Profiles <- TwoProfiles
  Inputs = {"file", "camera"}
  FileTimes <- ThreePictures
  FrameSizes = {1, 5, 13, 40}
  TargetShardBytes = 3
  MaxShards = 6
  MaxBlocks = 3
  LastEpoch = 3
  Tolerance = 1
  RetryDelays = {1}
  MaxTime = 6
\* The sender stops when it is asked to.
CHECK_DEADLOCK FALSE
INVARIANTS
  BurstsOnlyCatchUp
  LateFramesDoNotBurst
  BlocksCanBeDecoded
PROPERTIES
  EpochNamesTheEncoder
