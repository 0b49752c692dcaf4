CONSTANTS
  Nodes <- MCNodes
  Symbol <- MCSymbol
  Args <- MCArgs
  Atoms <- MCAtoms
  True = "true"
  False = "false"
  Constants <- MCConstants
  Equalities <- MCEqualities
  Distincts <- MCDistincts
  Early <- MCEarly
  NoNode = NoNode
  NoLiteral = NoLiteral
  MaxAsserted = 4
  Facts = {}
SPECIFICATION Spec
CHECK_DEADLOCK FALSE
INVARIANT SatIsConsistent
