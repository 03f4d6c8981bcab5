SPECIFICATION FramesFairSpec
CONSTANTS
  Screens = 1
  Interval <- MCInterval
  FatalFailures = 2
  MaxFaults = 2
  OnePerOutput = TRUE
INVARIANTS NoBlackFrame OnePointer
PROPERTIES CatchesUp
