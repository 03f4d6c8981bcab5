SPECIFICATION Spec
CONSTANTS
  glasses = glasses
  tv = tv
  panel = panel
  vdd = vdd
  e1 = e1
  e2 = e2
  app = app
  Branded = {glasses}
  Tcl = {tv}
  Plain = {panel}
  Virtual = {vdd}
  Laptop = panel
  Engines = {e1, e2}
  Controller = app
  Callers = {e1, e2, app}
  Options <- MCOptions
  Worlds <- MCWorlds
  MaxPass = 1
  MaxFaults = 1
SYMMETRY EngineSymmetry
INVARIANTS GlassesAreFound FailedRecoveryLeavesNoTrace HomeAgain ShownIsCurrent
