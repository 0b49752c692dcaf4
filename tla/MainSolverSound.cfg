\* No interrupts, no failures: MainSolver is an assertion stack.
CONSTANTS
  w1 = w1
  w2 = w2
  w3 = w3
  Worlds = {w1, w2}
  MaxLevels = 3
  MaxFrameId = 3
  TrackPartitions = FALSE
  Interrupts = FALSE
  PreprocessingFails = FALSE
  SearchFails = FALSE
SYMMETRY WorldSymmetry
SPECIFICATION Spec
INVARIANTS
  LevelsGiven
  SatAnswerSound
  UnsatFlagSound
  UnsatAnswerSound
PROPERTY ImplementsAssertionStack
