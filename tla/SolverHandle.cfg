\* One handle, scripts of two commands; the solver may fail and be stopped.
CONSTANTS
  h1 = h1
  w1 = w1
  w2 = w2
  Handles = {h1}
  Worlds = {w1, w2}
  NoModel = NoModel
  MaxLevels = 2
  MaxScript = 2
  Timeouts = TRUE
  SolverFails = TRUE
SPECIFICATION FairSpec
INVARIANTS
  AnswersAreCurrent
  DeadlineOwned
  DecidedAnswerReported
  InterruptsAccounted
PROPERTIES
  BoundedCheckReturns
  CtrlCEndsSearch
