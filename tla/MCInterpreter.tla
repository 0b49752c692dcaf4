--------------------------- MODULE MCInterpreter ---------------------------
(***************************************************************************)
(* The interpreter for TLC: p is a Boolean term that a difference-logic    *)
(* solver cannot read, and x is a term of another sort.  The two names are *)
(* interchangeable.                                                        *)
(***************************************************************************)
EXTENDS Interpreter

T == INSTANCE TLC

CONSTANTS
    p, x,
    a, b

MCSymmetry == T!Permutations(Names)
=============================================================================
