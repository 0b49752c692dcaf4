---------------------------- MODULE MCMainSolver ----------------------------
(***************************************************************************)
(* Instances of MainSolver for TLC.                                        *)
(***************************************************************************)
EXTENDS MainSolver, TLC

CONSTANTS w1, w2, w3

\* Nothing tells one world from another.
WorldSymmetry == Permutations(Worlds)
=============================================================================
