CONSTANTS
  p = p
  x = x
  a = a
  b = b
  Names = {a, b}
  Terms = {p, x}
  NotBool = {x}
  NotDifference = {p}
  Functions = {"f"}
  Symbols = {"s"}
  Logics = {"difference", "other"}
  Undef = Undef
  NoName = NoName
  MaxLevels = 2
  MaxAssertions = 1
SPECIFICATION Spec
CHECK_DEADLOCK FALSE
SYMMETRY MCSymmetry
INVARIANTS
  NamesAndScopesAgree
PROPERTY ImplementsScopedScript
