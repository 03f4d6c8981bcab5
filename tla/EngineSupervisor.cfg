SPECIFICATION FairSpec
CONSTANTS
    None = None
    Engines = {e1, e2}
    MaxClicks = 3
    MaxHand = 1
CHECK_DEADLOCK FALSE
INVARIANTS
    NoOrphan
PROPERTIES
    LogsAfterEngine
    FailureRecoversPanel
    EveryWaitEnds
