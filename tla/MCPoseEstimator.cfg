SPECIFICATION EstimatorFairSpec
CONSTANTS
  Worlds <- MCWorlds
  Field <- MCField
  AcquireS = 3
  ReacquireS = 5
  FieldGate = 1
  FieldStable = 1
  MaxStall = 2
  Warmup = 2
  StillHold = 2
  MotionHoldoff = 1
  CalWindow = 2
  CalTimeout = 3
  BiasLimit = 3
  RestRate = 4
  MotionRate = 5
  ResidualCap = 1
  FastStep = 2
  SlowStep = 1
  EscapeDwell = 4
  ReturnTol = 1
  ReturnDwell = 2
  ExcursionMin = 0
  DriftRate = 3
  DriftLimit = 2
CHECK_DEADLOCK FALSE
PROPERTIES OneWindowGaveTheBias ExcursionCreepsOrIsUndone StaleBiasIsRecovered ReacquiresOnlySteadyFields ANewFieldIsReacquired
