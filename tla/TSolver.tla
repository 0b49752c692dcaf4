------------------------------ MODULE TSolver ------------------------------
(***************************************************************************)
(* What every theory solver of OpenSMT inherits (tsolvers/TSolver.h and    *)
(* .cc): the list of literals it deduced, the cursor up to which the SAT   *)
(* solver has fetched them, the polarity of the atoms it knows something   *)
(* about, and a mark of the first two for every backtrack point.           *)
(***************************************************************************)
EXTENDS Integers, Sequences, FiniteSets

CONSTANT
    Atoms           \* the atoms (PTRef) a solver can be told about

Literal == [tr : Atoms, sgn : BOOLEAN]      \* PtAsgn

Negated(l) == [tr |-> l.tr, sgn |-> ~ l.sgn]

VARIABLES
    informed,           \* informed_PTRefs: the atoms declared to this solver
    th_deductions,      \* the deduced literals, oldest first
    deductions_next,    \* how many of them the SAT solver has fetched
    deductions_marks,   \* deductions_lim and deductions_last, a pair for each backtrack point
    polarity,           \* polarityMap: the atoms with a polarity other than l_Undef
    has_explanation     \* this solver is the cause of an inconsistency

tsolverVars == <<informed, th_deductions, deductions_next, deductions_marks, polarity, has_explanation>>

TSolverTypeOK ==
    /\ informed \subseteq Atoms
    /\ th_deductions \in Seq(Literal)
    /\ deductions_next \in 0..Len(th_deductions)
    /\ deductions_marks \in Seq([lim : Nat, next : Nat])
    /\ polarity \subseteq Atoms
    /\ has_explanation \in BOOLEAN

TSolverInit ==
    /\ informed = {}
    /\ th_deductions = <<>>
    /\ deductions_next = 0
    /\ deductions_marks = <<>>
    /\ polarity = {}
    /\ has_explanation = FALSE

\* The deductions and the cursor as the last mark of a stack of marks stands for.
Mark == [lim |-> Len(th_deductions), next |-> deductions_next]

\* storeDeduction() for each literal of a sequence.
StoreDeductions(lits) ==
    /\ th_deductions' = th_deductions \o lits
    /\ polarity' = polarity \cup {lits[i].tr : i \in DOMAIN lits}

\* Bugs to detect: the cursor stays where it was; so do the polarities.
PopMarksAlone(n) ==
    LET mark == deductions_marks[Len(deductions_marks) - n + 1]
    IN  /\ th_deductions' = SubSeq(th_deductions, 1, mark.lim)
        /\ deductions_marks' = SubSeq(deductions_marks, 1, Len(deductions_marks) - n)
        /\ polarity' = polarity \ {th_deductions[i].tr : i \in (mark.lim + 1)..Len(th_deductions)}
        /\ UNCHANGED deductions_next

PopMarksKeepPolarity(n) ==
    LET mark == deductions_marks[Len(deductions_marks) - n + 1]
    IN  /\ th_deductions' = SubSeq(th_deductions, 1, mark.lim)
        /\ deductions_marks' = SubSeq(deductions_marks, 1, Len(deductions_marks) - n)
        /\ deductions_next' = mark.next
        /\ UNCHANGED polarity

\* popBacktrackPoint(), n times: back to the mark n from the top.
PopMarks(n) ==
    LET mark == deductions_marks[Len(deductions_marks) - n + 1]
    IN  /\ th_deductions' = SubSeq(th_deductions, 1, mark.lim)
        /\ deductions_next' = mark.next
        /\ polarity' = polarity \ {th_deductions[i].tr : i \in (mark.lim + 1)..Len(th_deductions)}
        /\ deductions_marks' = SubSeq(deductions_marks, 1, Len(deductions_marks) - n)

\* getDeduction() until there is none left, as CoreSMTSolver::deduceTheory calls it.
FetchDeductions ==
    /\ deductions_next < Len(th_deductions)
    /\ deductions_next' = Len(th_deductions)

\* clearSolver(): the polarities stay, as the code leaves polarityMap alone.
ClearTSolver ==
    /\ informed' = {}
    /\ th_deductions' = <<>>
    /\ deductions_next' = 0
    /\ deductions_marks' = <<>>
    /\ has_explanation' = FALSE
    /\ UNCHANGED polarity
=============================================================================
