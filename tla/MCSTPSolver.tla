---------------------------- MODULE MCSTPSolver ----------------------------
(***************************************************************************)
(* Three vertices and four atoms for STPSolver, with costs of a few bits.  *)
(***************************************************************************)
EXTENDS STPSolver, TLC

CONSTANTS a1, a2, a3, a4

MCVertices == 0..2

\* With zero at 0, no value need be further from it than the two largest costs of a path.
MCAssignments == {m \in [MCVertices -> -14..14] : m[0] = 0}

MCDeclared == <<a1, a2, a3, a4>>

MCParsed == (a1 :> [from |-> 1, to |-> 2, c |-> 6])
         @@ (a2 :> [from |-> 2, to |-> 0, c |-> -8])
         @@ (a3 :> [from |-> 0, to |-> 1, c |-> 2])
         @@ (a4 :> [from |-> 1, to |-> 0, c |-> 5])
=============================================================================
