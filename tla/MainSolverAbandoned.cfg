\* Searches are interrupted and, as the preprocessing, abandoned by exceptions: what does not depend on
\* the clauses being right.
CONSTANTS
  w1 = w1
  w2 = w2
  w3 = w3
  Worlds = {w1, w2}
  MaxLevels = 2
  MaxFrameId = 2
  TrackPartitions = TRUE
  Interrupts = TRUE
  PreprocessingFails = TRUE
  SearchFails = TRUE
SYMMETRY WorldSymmetry
SPECIFICATION Spec
INVARIANTS
  StackInv
