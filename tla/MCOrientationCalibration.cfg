SPECIFICATION Spec
CHECK_DEADLOCK FALSE
CONSTANTS
  Rates = {1, 2, 3}
  MaxSamples = 6
  MinSamples = 2
  StillWindow = 2
  StillLength = 3
  Hold = 2
  MinMotion = 2
  MaxRuns = 1
  MaxFaults = 2
INVARIANTS
  ExitSaysTheFile
  OneMotionIsJudged
