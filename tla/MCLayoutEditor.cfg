SPECIFICATION EditorSpec
CONSTANTS
  MaxScreens = 3
  MaxVdd = 3
  MaxAngle = 2
  MaxFps = 2
  Positions = {0, 1}
  Names = {1, 2}
  Home <- MCHome
  Factory <- MCFactory
  Saved <- MCSaved
  MaxOps = 4
  MaxForeign = 1
INVARIANTS CleanIsOnDisk OnlyValidIsWritten OnlyTheEndsAreRefused
