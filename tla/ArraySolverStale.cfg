CONSTANTS
  Problems <- MCStaleProblems
  True <- MCTrue
  False <- MCFalse
SPECIFICATION ArraySpec
CHECK_DEADLOCK FALSE
INVARIANT SelectsAgree
