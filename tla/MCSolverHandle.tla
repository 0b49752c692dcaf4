--------------------------- MODULE MCSolverHandle ---------------------------
(***************************************************************************)
(* Instances of SolverHandle for TLC.                                      *)
(***************************************************************************)
EXTENDS SolverHandle

CONSTANTS h1, w1, w2
=============================================================================
