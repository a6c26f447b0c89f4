SPECIFICATION Spec
CONSTANTS
  Interval = 2
  Blends = TRUE
  MaxQueued = 2
  Sizes = {small, large}
  LoopPeriod = 1
  MaxFrames = 3
  MaxTime = 8
  MaxSessions = 2
\* The render thread ends when the window is closed, or the program stops.
CHECK_DEADLOCK FALSE
INVARIANTS
  TypeOK
  OutputKeepsUp
  SamplesOfThisSession
PROPERTIES
  ScreenGoesForward
