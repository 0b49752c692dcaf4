CONSTANTS
    maxDistinctClasses = 1
    Signatures <- MCSignatures
    Universe <- MCUniverse
    Bits = 3
    Operands <- MCOperands
    MaxPart = 12
    Problems <- MCProblems
    True <- MCTrue
    False <- MCFalse
SPECIFICATION Spec
CHECK_DEADLOCK FALSE
INVARIANTS
    TermsMeanWhatIsAsked SubstitutionsRight PassesKeepMeaning ClausesRight RationalsExact
    DerivationsKept ProofRight InterpolantsRight
    WeakEquivalenceExact LemmasRight SatRight
