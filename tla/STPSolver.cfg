CONSTANTS
  a1 = a1
  a2 = a2
  a3 = a3
  a4 = a4
  Atoms = {a1, a2, a3, a4}
  NoLiteral = NoLiteral
  Vertices <- MCVertices
  Assignments <- MCAssignments
  zero = 0
  Parsed <- MCParsed
  Declared <- MCDeclared
  Width = 4
  Mantissa = 2
  MaxTime = 5
  MaxSolves = 1
SPECIFICATION Spec
CHECK_DEADLOCK FALSE
INVARIANTS
  ConflictExact
  ExplanationsRight
  DeductionsExact
  ModelRight
