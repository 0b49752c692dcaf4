CONSTANTS
  Atoms = {1, 2, 3, 4, 5}
  Problems <- MCProblems
  RestartAfter = 1
  CRef_Undef = CRef_Undef
  CRef_Fake = CRef_Fake
SPECIFICATION Spec
CHECK_DEADLOCK FALSE
INVARIANTS
  AllImplied
  PropagationComplete
  TheoryMirrorsTrail
  AnswerRight
PROPERTY SearchEnds
