-------------------------- MODULE MCCoreSMTSolver --------------------------
(***************************************************************************)
(* Small problems for CoreSMTSolver: five atoms, some of a theory.         *)
(***************************************************************************)
EXTENDS CoreSMTSolver, TLC

Is(v) == [tr |-> v, sgn |-> TRUE]
Not(v) == [tr |-> v, sgn |-> FALSE]
Check(clauses, assumptions_) == [clauses |-> clauses, assumptions |-> assumptions_]

\* Two frames, enabled by the negation of atoms 4 and 5, over theory atoms 1, 2 and 3 of which not all
\* hold; then a second check with the first frame alone.
Frames ==
    [rounds |-> <<Check(<<{Is(1), Is(2)}, {Is(4), Is(3)}, {Is(5), Not(1), Is(2)}, {Is(5), Not(2)}>>,
                        <<Not(4), Not(5)>>),
                  Check(<<{Not(1), Is(2), Not(3)}>>, <<Not(4), Is(5)>>)>>,
     theory |-> {1, 2, 3}, conflicts |-> {{Is(1), Is(2), Is(3)}}, splits |-> {}]

\* No theory: decisions end in conflicts, the learnt clauses in others, until nothing is left; a second
\* check finds the solver inconsistent.
Boolean ==
    [rounds |-> <<Check(<<{Is(1), Is(2), Is(3)}, {Is(1), Is(2), Not(3)}, {Is(1), Not(2), Is(3)},
                          {Is(1), Not(2), Not(3)}, {Not(1), Is(2)}, {Not(1), Not(2)}>>, <<>>),
                  Check(<<{Is(3)}>>, <<>>)>>,
     theory |-> {}, conflicts |-> {}, splits |-> {}]

\* Order of three points: 1, 2 and 3 are atoms with transitivity, 4 has no theory, 5 enables the frame.
Theory ==
    [rounds |-> <<Check(<<{Is(1), Is(3)}, {Is(2), Not(3)}, {Not(5), Not(2), Is(4)}>>, <<Is(5)>>),
                  Check(<<{Not(3)}, {Is(2)}>>, <<Is(5)>>)>>,
     theory |-> {1, 2, 3}, conflicts |-> {{Is(1), Is(2), Not(3)}}, splits |-> {}]

\* The same with a fourth atom, against two of the others, that holds from the first level on.
Excluding ==
    [Theory EXCEPT !.rounds[1].clauses[3] = {Not(5), Is(4)}, !.theory = {1, 2, 3, 4},
                   !.conflicts = @ \cup {{Is(3), Is(4)}, {Is(2), Is(4)}}]

\* Splits on atoms that are new: after some decisions both clauses are unit, at different levels.
Splitting ==
    [rounds |-> <<Check(<<{Not(1), Is(2)}, {Not(2), Not(3)}>>, <<>>)>>,
     theory |-> {1, 2, 3, 4, 5}, conflicts |-> {{Is(4), Is(5)}},
     splits |-> {{Is(1), Is(4)}, {Is(2), Is(5)}}]

\* The theory may notice only later that the clauses of level 0 contradict it.
Contradiction ==
    [rounds |-> <<Check(<<{Is(1)}, {Is(3), Is(4)}, {Is(2)}, {Not(1), Not(2), Is(3)}>>, <<>>),
                  Check(<<{Not(1)}>>, <<>>)>>,
     theory |-> {1, 2, 3}, conflicts |-> {{Is(1), Is(2)}}, splits |-> {}]

MCProblems == {Frames, Boolean, Theory, Excluding, Splitting, Contradiction}
=============================================================================
