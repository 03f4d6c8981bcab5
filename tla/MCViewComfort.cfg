SPECIFICATION Spec
CONSTANTS
  MaxLevel = 2
  DefaultLevel = 1
  Screens = {1}
  Percent = {0, 40, 100}
  Full = 100
  DefaultDim = 40
  DefaultWarmth = 40
  Areas <- MCAreas
  MaxLost = 1
INVARIANTS DriftIsExplained FileIsConfig
