SPECIFICATION FairSpec
CONSTANTS
  h1 = h1
  h2 = h2
  Helper <- MCHelper
  LogNames <- MCLogNames
  Stem <- MCStem
  MaxSession = 2
  MaxDown = 1
  MaxViewer = 1
  Keep = 1
  StageErrors = TRUE
CHECK_DEADLOCK FALSE
INVARIANTS PublishedComplete NoStagedLogLost NoPendingMissed
PROPERTIES HelperTerminates
