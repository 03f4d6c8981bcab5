SPECIFICATION FairSpec
CONSTANTS
  Index = {0, 1, 2, 3}
  MaximumDisplays = 4
  CarriedOut = {"add"}
  FatalPings = 1
  Layouts <- MCLayouts
  MaxEdits = 1
  EditsAtStart = FALSE
INVARIANTS
  Consistent
  WatermarkIsHonest
PROPERTIES
  ReloadEnds
CHECK_DEADLOCK FALSE
