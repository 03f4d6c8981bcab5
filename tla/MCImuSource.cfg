SPECIFICATION FairSpec
CONSTANTS
  r1 = r1
  Reader <- MCReader
  Comp <- MCComp
  MaxPose = 4
CHECK_DEADLOCK FALSE
INVARIANTS HasPoseIsLive RecenterHonoured
PROPERTIES AtomicPose CallersReturn
