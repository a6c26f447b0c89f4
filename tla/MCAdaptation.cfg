SPECIFICATION HSpec
CONSTANTS
  Losses <- MCLosses
  Rtts <- MCRtts
  MaxVideoKbps = 1000
  RttWindowBound = 5
INVARIANTS
  TypeOK
  ConfirmationsHold
PROPERTIES
  RttDegradeConfirmed
  LossDegradeConfirmed
  RecoveryEarned
  DegradeImmediate
