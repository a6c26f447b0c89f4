SPECIFICATION AckSpec
CONSTANTS
  Losses = {10, 90}
  Rtts = {0}
  MaxVideoKbps = 2000
  RttWindowBound = 5
  NoLoss = NoLoss
  MaxFrames = 2
  MaxReports = 3
  MaxDelayed = 2
  MaxRestarts = 0
PROPERTIES
  ExitAcknowledgedTwice
