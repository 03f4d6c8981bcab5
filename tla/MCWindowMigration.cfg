SPECIFICATION DeskSpec
CONSTANTS
  w1 = w1
  w2 = w2
  Windows = {w1, w2}
  Quiet = 2
  Steady = 2
  Budget = 4
  MaxSession = 2
  MaxWaves = 2
  MaxUser = 1
  MaxFlips = 1
SYMMETRY WindowSymmetry
INVARIANTS RecordedComeHome NothingIsStranded TaskbarComesBack

