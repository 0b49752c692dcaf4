--------------------------- MODULE AssertionStack ---------------------------
(***************************************************************************)
(* What an incremental solver promises its caller, and nothing of how.     *)
(*                                                                         *)
(* A formula is the set of the worlds (valuations) that satisfy it, so a   *)
(* conjunction is an intersection and an unsatisfiable formula is {}.  The *)
(* caller keeps a stack of assertion levels, pushes and pops levels,       *)
(* asserts into the last one, and asks.  An answer "sat" or "unsat" is     *)
(* right for the assertions on the stack at that moment; a check may also  *)
(* end undecided ("unknown") or fail ("error"), and then promises nothing. *)
(***************************************************************************)
EXTENDS Naturals

CONSTANTS
  Worlds   \* the valuations the formulas are about

VARIABLES
  depth,   \* number of assertion levels; level 0 is never popped
  level,   \* level[i]: the conjunction of what was asserted at level i
  answer   \* what the last call returned, "none" if it was not a check

vars == <<depth, level, answer>>

Formula == SUBSET Worlds

\* The worlds that satisfy every assertion on the stack.
Asserted == {w \in Worlds : \A i \in 0..(depth - 1) : w \in level[i]}

Init ==
  /\ depth = 1
  /\ level = [i \in {0} |-> Worlds]
  /\ answer = "none"

Push ==
  /\ depth' = depth + 1
  /\ level' = [i \in 0..depth |-> IF i < depth THEN level[i] ELSE Worlds]
  /\ answer' = "none"

Pop ==
  /\ depth > 1
  /\ depth' = depth - 1
  /\ level' = [i \in 0..(depth - 2) |-> level[i]]
  /\ answer' = "none"

Assert(f) ==
  /\ level' = [level EXCEPT ![depth - 1] = @ \cap f]
  /\ answer' = "none"
  /\ UNCHANGED depth

Check ==
  /\ answer' \in {"sat", "unsat", "unknown", "error"}
  /\ answer' = "sat" => Asserted # {}
  /\ answer' = "unsat" => Asserted = {}
  /\ UNCHANGED <<depth, level>>

\* The next call has begun and has not answered yet.
Forget ==
  /\ answer' = "none"
  /\ UNCHANGED <<depth, level>>

Next ==
  \/ Push
  \/ Pop
  \/ \E f \in Formula : Assert(f)
  \/ Check
  \/ Forget

Spec == Init /\ [][Next]_vars
=============================================================================
