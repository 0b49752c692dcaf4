CONSTANTS
    x = 0
    x2y = 1
    y = 2
    u = 3
    sum = 4
    w = 5
    diff = 6
    abc = 7
    ra = 8
    rb = 9
    rc = 10
    bc = 11
    ab_c = 12
    a2b = 13
    rv = 14
    Atoms <- MCAtoms
    Vars <- MCVars
    Rows <- MCRows
    IntVars <- MCIntVars
    Interface <- MCInterface
    Declared <- MCDeclared
    Late <- MCLate
    MaxStack = 3
    Long <- MCLong
    MaxChecks = 3
SPECIFICATION Spec
INVARIANTS ModelsExact ConflictsAndDeductionsRight ModelKeepsApart CheckEnds
CHECK_DEADLOCK FALSE
