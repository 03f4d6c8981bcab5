SPECIFICATION Spec
CONSTANTS
  laptop = laptop
  glasses = glasses
  tv = tv
  v1 = v1
  v2 = v2
  Physical = {laptop, glasses, tv}
  Panel = laptop
  Vdds = {v1, v2}
  Pos <- MCPos
  Homes <- MCHomes
  Plans <- MCPlans
  MaxUnplugs = 1
  MaxMoves = 1
CHECK_DEADLOCK FALSE
INVARIANTS RestoredIsHome ChangedIsRestored NoBatchLeftBehind
