\* One handle whose solver may fail: when is a model given out?
CONSTANTS
  h1 = h1
  w1 = w1
  w2 = w2
  Handles = {h1}
  Worlds = {w1, w2}
  NoModel = NoModel
  MaxLevels = 2
  MaxScript = 1
  Timeouts = FALSE
  SolverFails = TRUE
SPECIFICATION Spec
INVARIANTS
  ModelOnlyAfterSat
