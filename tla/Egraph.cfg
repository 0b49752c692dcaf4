CONSTANTS
  Nodes <- MCNodes
  Symbol <- MCSymbol
  Args <- MCArgs
  Atoms <- MCAtoms
  True = "true"
  False = "false"
  Constants <- MCConstants
  Equalities <- MCEqualities
  Distincts <- MCDistincts
  Early <- MCEarly
  NoNode = NoNode
  NoLiteral = NoLiteral
  MaxAsserted = 3
  Facts <- MCFacts
SPECIFICATION Spec
CHECK_DEADLOCK FALSE
INVARIANTS
  ClosureExact
  ConflictsAndDeductionsRight
