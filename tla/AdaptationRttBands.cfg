SPECIFICATION HSpec
CONSTANTS
  Losses <- MCLosses
  Rtts <- MCRtts
  MaxVideoKbps = 2000
  RttWindowBound = 5
INVARIANTS
  SustainedRttDegrades
