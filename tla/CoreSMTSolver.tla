--------------------------- MODULE CoreSMTSolver ---------------------------
(***************************************************************************)
(* The search of the SAT solver (smtsolvers/CoreSMTSolver.cc, TheoryIF.cc) *)
(* with the theory handler (tsolvers/THandler.cc, TSolverHandler.cc) and   *)
(* one theory solver behind it.  Clauses are added at level 0, then a      *)
(* search decides, propagates, asks the theory, learns and jumps back, on  *)
(* one trail of which the theory handler's stack and the theory solver's   *)
(* backtrack points are mirrors that lag behind.                           *)
(*                                                                         *)
(* The theory is the contract every theory solver must keep: some sets of  *)
(* literals are contradictory, others are split clauses, of which one      *)
(* literal must hold.  The solver may notice a contradiction when the last *)
(* literal is asserted or leave it to the check, must notice it in a       *)
(* complete check, and may deduce any implied literal or none.             *)
(* The model has the default options: a theory clause is never stored      *)
(* (sat_learn_up_to_size = 0), theory calls are never skipped              *)
(* (sat_initial_skip_step = 1), conflicts are minimised up to theory       *)
(* reasons (sat_minimize_conflicts = 1), and no proof is logged.           *)
(*                                                                         *)
(* An action is an iteration of a loop of the code: a clause visited by    *)
(* propagate(), a literal resolved on by analyze(), a deduction fetched,   *)
(* a split clause added.                                                   *)
(***************************************************************************)
EXTENDS TSolver, SequencesExt, FiniteSetsExt, Functions

CONSTANTS
    Problems,       \* what there is to solve, see `problem'
    RestartAfter,   \* nof_conflicts of every search() (it grows in the code)
    CRef_Undef,     \* no reason
    CRef_Fake       \* the reason is to be asked of the theory

Reasons == {CRef_Undef, CRef_Fake} \cup SUBSET Literal
Entry == [lit : Literal, level : Nat, reason : Reasons]
Clause == [lits : Seq(Literal), learnt : BOOLEAN]

\* The assumptions are the literals of the frames (MainSolver), which no theory knows; a split clause is
\* attached, so it has more than one literal (attachClause() asserts it).
Problem ==
    {p \in [rounds : Seq([clauses : Seq(SUBSET Literal), assumptions : Seq(Literal)]),
            theory : SUBSET Atoms, conflicts : SUBSET SUBSET Literal, splits : SUBSET SUBSET Literal] :
        /\ p.rounds # <<>>
        /\ \A r \in DOMAIN p.rounds :
              \A j \in DOMAIN p.rounds[r].assumptions : p.rounds[r].assumptions[j].tr \notin p.theory
        /\ \A c \in p.splits : Cardinality(c) > 1}

ASSUME CoreSMTSolverAssumption ==
    /\ IsFiniteSet(Atoms)
    /\ Problems \subseteq Problem
    /\ RestartAfter \in Nat
    /\ CRef_Undef # CRef_Fake
    /\ \A reason \in SUBSET Literal : reason # CRef_Undef /\ reason # CRef_Fake

VARIABLES
    problem,        \* what every call of solve() adds and assumes, and what the theory allows
    round, loaded,  \* the call of solve(), and the clauses that were added for it
    pc,             \* where the solver is
    db,             \* clauses and learnts, with the two watched literals first
    trail,          \* the assigned literals; a reason is the other literals of the clause
    trail_lim,      \* the length of the trail at each new level
    qhead,          \* how much of the trail has been propagated
    decision,       \* the variables that may be decided
    order_heap,     \* those of them that wait to be decided
    watchers,       \* propagate(): the clauses still to be visited for the literal before qhead
    seen,           \* analyze(): the false literals of the clause resolved so far
    new_splits,     \* handleNewSplitClauses(): the clauses still to be added
    propData,       \* ... and the literals that the added ones imply, with their reasons
    res,            \* where the search goes on after the deductions or the splits
    conflictC,      \* conflicts of this search()
    ok, conflict_frame, status,
    stack,          \* THandler: the literals it has seen, checked_trail_size many
    given           \* the theory solver: the literals asserted, a backtrack point each

inputVars == <<problem, round, loaded>>
clauseVars == <<db, order_heap, decision>>
trailVars == <<trail, trail_lim, qhead>>
splitVars == <<new_splits, propData, res>>
answerVars == <<ok, conflict_frame, status>>
theoryVars == <<tsolverVars, stack, given>>
vars == <<inputVars, pc, clauseVars, trailVars, watchers, seen, splitVars, conflictC, answerVars, theoryVars>>

-----------------------------------------------------------------------------
(* Reading the trail.                                                      *)

OnTrail == {trail[i].lit : i \in DOMAIN trail}
TrueNow(l) == l \in OnTrail
FalseNow(l) == Negated(l) \in OnTrail
Undefined(l) == ~ TrueNow(l) /\ ~ FalseNow(l)
EntryOf(v) == CHOOSE i \in DOMAIN trail : trail[i].lit.tr = v
LevelOf(l) == trail[EntryOf(l.tr)].level
Assigned == {trail[i].lit.tr : i \in DOMAIN trail}

decisionLevel == Len(trail_lim)
Round == problem.rounds[round]
assumptions == Round.assumptions
Given == {given[i] : i \in DOMAIN given}
LitsOf(c) == {c.lits[k] : k \in DOMAIN c.lits}

\* uncheckedEnqueue() after a part of the trail.
Enqueued(kept, l, level, from) == Append(kept, [lit |-> l, level |-> level, reason |-> from])

Answer(s) == status' = s /\ pc' = "done"

zeroLevelConflictHandler == ok' = FALSE /\ Answer("l_False")

-----------------------------------------------------------------------------
(* The theory.                                                             *)

Contradictory(S) ==
    \/ \E k \in problem.conflicts : k \subseteq S
    \/ \E c \in problem.splits : \A l \in c : Negated(l) \in S

\* The smallest explanations: of a contradiction, and of a literal that the others imply.
Conflicts(S) == {k \in problem.conflicts \cup {{Negated(l) : l \in c} : c \in problem.splits} : k \subseteq S}
ReasonsFor(l, S) == {k \ {Negated(l)} : k \in {h \in Conflicts(S \cup {Negated(l)}) : Negated(l) \in h}}

Deducible(S) ==
    {l \in Literal : /\ l.tr \in informed \ polarity
                     /\ l \notin S /\ Negated(l) \notin S
                     /\ Contradictory(S \cup {Negated(l)})}

\* The split clauses that the theory needs before it can be sure of the trail.
Splits == {c \in problem.splits : ~ \E l \in c : TrueNow(l)}

\* A bug to detect: a pop for every literal, also for those that the theory was never told.
PopsAll(kept) == Min({Len(given), Len(stack) - kept})

\* The backtrack points of the literals of the stack above the first `kept'.
Pops(kept) == Cardinality({i \in (kept + 1)..Len(stack) : stack[i].tr \in informed})

\* THandler::backtrack(): back to the first n literals of the trail.
backtrack(n) ==
    LET kept == Min({n, Len(stack)})
        pops == Pops(kept)
    IN  /\ stack' = SubSeq(stack, 1, kept)
        /\ IF pops = 0 THEN UNCHANGED <<tsolverVars, given>>
           ELSE /\ PopMarks(pops)
                /\ given' = SubSeq(given, 1, Len(given) - pops)
                /\ has_explanation' = FALSE
                /\ UNCHANGED informed

-----------------------------------------------------------------------------
(* cancelUntil(): back to a level.                                         *)

KeptAt(level) == IF decisionLevel > level THEN trail_lim[level + 1] ELSE Len(trail)
Kept(level) == SubSeq(trail, 1, KeptAt(level))

\* A bug to detect: the variables are lost.
ReinsertedNone(level) == order_heap

\* What becomes of the variables that leave the trail: insertVarOrder().
Reinserted(level) ==
    order_heap \cup {v \in decision : \E i \in (KeptAt(level) + 1)..Len(trail) : trail[i].lit.tr = v}

\* All but the trail itself, to which some callers add at once.
cancelLevels(level) ==
    /\ trail_lim' = SubSeq(trail_lim, 1, Min({level, decisionLevel}))
    /\ qhead' = IF decisionLevel > level THEN KeptAt(level) ELSE qhead
    /\ order_heap' = Reinserted(level)

cancelUntil(level) ==
    /\ cancelLevels(level)
    /\ IF decisionLevel > level THEN backtrack(KeptAt(level)) ELSE UNCHANGED theoryVars

-----------------------------------------------------------------------------
Init ==
    /\ problem \in Problems
    /\ round = 1 /\ loaded = 0
    /\ pc = "load"
    /\ db = <<>> /\ order_heap = {} /\ decision = {}
    /\ trail = <<>> /\ trail_lim = <<>> /\ qhead = 0
    /\ watchers = {} /\ seen = {}
    /\ new_splits = <<>> /\ propData = <<>> /\ res = "none"
    /\ conflictC = 0
    /\ ok = TRUE /\ conflict_frame = 0 /\ status = "l_Undef"
    /\ TSolverInit
    /\ stack = <<>> /\ given = <<>>

\* addVar_() of some variables: they may be decided from now on.
addVars(vs) ==
    /\ decision' = decision \cup vs
    /\ order_heap' = order_heap \cup vs

\* addOriginalSMTClause(): without its false literals; a unit is enqueued and will be propagated.
addOriginalClause_ ==
    LET clause == Round.clauses[loaded + 1]
        free == {l \in clause : ~ FalseNow(l)}
        holds == \E l \in clause : TrueNow(l) \/ Negated(l) \in clause
    IN  /\ pc = "load" /\ loaded < Len(Round.clauses)
        /\ loaded' = loaded + 1
        /\ addVars({l.tr : l \in clause})
        /\ \/ /\ ~ ok \/ holds
              /\ UNCHANGED <<pc, db, trail, ok>>
           \/ /\ ok /\ free = {}
              /\ ok' = FALSE
              /\ UNCHANGED <<pc, db, trail>>
           \/ /\ ok /\ ~ holds
              /\ \E l \in free : free = {l} /\ trail' = Enqueued(trail, l, 0, CRef_Undef)
              /\ pc' = "unit"
              /\ UNCHANGED <<db, ok>>
           \/ /\ ok /\ ~ holds /\ Cardinality(free) > 1
              /\ db' = Append(db, [lits |-> SetToSeq(free), learnt |-> FALSE])
              /\ UNCHANGED <<pc, trail, ok>>
        /\ UNCHANGED <<problem, round, trail_lim, qhead, watchers, seen, splitVars, conflictC, conflict_frame,
                       status, theoryVars>>

\* solve_(): assumptions become variables, the theory is emptied and told the atoms of the trail and of
\* the original clauses (declareVarsToTheories); other variables are no longer decided.
solve_ ==
    LET original == UNION {LitsOf(db[i]) : i \in {j \in DOMAIN db : ~ db[j].learnt}}
        var_seen == Assigned \cup {l.tr : l \in original}
        added == {assumptions[j].tr : j \in DOMAIN assumptions}
    IN  /\ pc = "load" /\ loaded = Len(Round.clauses)
        /\ decision' = (decision \cup added) \cap var_seen
        /\ order_heap' = order_heap \cup added
        /\ informed' = var_seen \cap problem.theory
        /\ th_deductions' = <<>> /\ deductions_next' = 0 /\ deductions_marks' = <<>>
        /\ has_explanation' = FALSE
        /\ given' = <<>>
        /\ conflictC' = 0
        /\ IF ok THEN pc' = "entry" /\ status' = "l_Undef" ELSE Answer("l_False")
        /\ UNCHANGED <<inputVars, db, trailVars, watchers, seen, splitVars, ok, conflict_frame, polarity, stack>>

-----------------------------------------------------------------------------
(* propagate(): for each literal of the trail that was not propagated yet, *)
(* the clauses watching its negation, in any order.  It is called by the   *)
(* search ("propagate", then "watch") and for a unit clause ("unit").      *)

Propagating == pc \in {"propagate", "watch", "unit"}

takeLiteral ==
    /\ Propagating /\ watchers = {} /\ qhead < Len(trail)
    /\ qhead' = qhead + 1
    /\ watchers' = {i \in DOMAIN db : Negated(trail[qhead'].lit) \in {db[i].lits[1], db[i].lits[2]}}
    /\ pc' = IF pc = "unit" THEN pc ELSE "watch"
    /\ UNCHANGED <<inputVars, clauseVars, trail, trail_lim, seen, splitVars, conflictC, answerVars, theoryVars>>

\* The clause is visited with the false literal in second place.
FalseLit == Negated(trail[qhead].lit)
Visited(i) ==
    LET c == db[i].lits
    IN  IF c[1] = FalseLit THEN [c EXCEPT ![1] = c[2], ![2] = c[1]] ELSE c

\* A bug to detect: the last literal is never looked at.
FreeFew(lits) == {k \in 3..(Len(lits) - 1) : ~ FalseNow(lits[k])}

\* The places of the literals that could be watched instead.
Free(lits) == {k \in 3..Len(lits) : ~ FalseNow(lits[k])}

visit(i, lits) ==
    /\ pc \in {"watch", "unit"} /\ i \in watchers
    /\ db' = [db EXCEPT ![i].lits = lits]
    /\ UNCHANGED <<inputVars, order_heap, decision, trail_lim, splitVars, theoryVars>>

\* The clause is true, as its first literal says, or the blocker: another literal that was watched once.
keepWatch ==
    \E i \in watchers :
        /\ \/ TrueNow(Visited(i)[1]) /\ visit(i, Visited(i))
           \/ (\E l \in LitsOf(db[i]) : TrueNow(l)) /\ visit(i, db[i].lits)
        /\ watchers' = watchers \ {i}
        /\ UNCHANGED <<pc, trail, qhead, seen, conflictC, answerVars>>

\* In place of the false literal, the first other one that is not false.
moveWatch ==
    \E i \in watchers :
        LET c == Visited(i)
        IN  /\ ~ TrueNow(c[1]) /\ Free(c) # {}
            /\ visit(i, [c EXCEPT ![2] = c[Min(Free(c))], ![Min(Free(c))] = c[2]])
            /\ watchers' = watchers \ {i}
            /\ UNCHANGED <<pc, trail, qhead, seen, conflictC, answerVars>>

propagateUnit ==
    \E i \in watchers :
        LET c == Visited(i)
        IN  /\ Undefined(c[1]) /\ Free(c) = {}
            /\ visit(i, c)
            /\ trail' = Enqueued(trail, c[1], decisionLevel, LitsOf(db[i]) \ {c[1]})
            /\ watchers' = watchers \ {i}
            /\ UNCHANGED <<pc, qhead, seen, conflictC, answerVars>>

\* The resolution starts from a clause whose literals are all false.
analyze(confl) ==
    /\ seen' = {l \in confl : LevelOf(l) > 0}
    /\ conflictC' = conflictC + 1
    /\ pc' = "analyze"

\* A conflict: nothing else is propagated.
falsified ==
    \E i \in watchers :
        LET c == Visited(i)
        IN  /\ FalseNow(c[1]) /\ Free(c) = {}
            /\ visit(i, c)
            /\ qhead' = Len(trail)
            /\ watchers' = {}
            /\ \/ /\ pc = "unit"
                  /\ ok' = FALSE /\ pc' = "load"
                  /\ UNCHANGED <<seen, conflictC, conflict_frame, status>>
               \/ /\ pc = "watch" /\ decisionLevel = 0
                  /\ zeroLevelConflictHandler
                  /\ UNCHANGED <<seen, conflictC, conflict_frame>>
               \/ /\ pc = "watch" /\ decisionLevel > 0
                  /\ analyze(LitsOf(db[i]))
                  /\ UNCHANGED answerVars
            /\ UNCHANGED trail

propagated ==
    /\ Propagating /\ watchers = {} /\ qhead = Len(trail)
    /\ pc' = IF pc = "unit" THEN "load" ELSE "stable"
    /\ UNCHANGED <<inputVars, clauseVars, trailVars, watchers, seen, splitVars, conflictC, answerVars, theoryVars>>

-----------------------------------------------------------------------------
(* analyze(): from a conflict back along the reasons to the first literal  *)
(* of the level through which all of them go.                              *)

\* The literals of the level on which the resolution goes on, and the last of them.
Open == {l \in seen : LevelOf(l) = decisionLevel}
LastOpen == Max({EntryOf(l.tr) : l \in Open})

\* The reason of a literal; for one that the theory deduced, what it may answer among the literals that
\* were asserted before it.
ReasonsOf(i) ==
    LET Asserted == {trail[j].lit : j \in 1..Min({i - 1, Len(stack)})} \cap Given
    IN  IF trail[i].reason = CRef_Fake
        THEN {{Negated(l) : l \in why} : why \in ReasonsFor(trail[i].lit, Asserted)}
        ELSE {trail[i].reason}

resolve ==
    /\ pc = "analyze"
    /\ \E l \in Open : Open # {l}
    /\ \E reason \in ReasonsOf(LastOpen) :
          seen' = (seen \ {Negated(trail[LastOpen].lit)}) \cup {l \in reason : LevelOf(l) > 0}
    /\ UNCHANGED <<inputVars, pc, clauseVars, trailVars, watchers, splitVars, conflictC, answerVars, theoryVars>>

\* litRedundant(): a literal that follows from others of the clause by reasons other than the theory's.
Redundant(lits) ==
    LET levels == {LevelOf(l) : l \in lits}
        Closed(S) ==
            \A i \in S :
                /\ trail[i].reason \notin {CRef_Undef, CRef_Fake}
                /\ \A l \in trail[i].reason :
                      LET j == EntryOf(l.tr)
                      IN  \/ trail[j].level = 0 \/ l \in lits
                          \/ trail[j].level \in levels /\ j \in S
        redundant == UNION {S \in SUBSET DOMAIN trail : Closed(S)}
    IN  {l \in lits : EntryOf(l.tr) \in redundant}

\* A bug to detect: back one level too far.
belowLevel(lits) == Max({1} \cup {LevelOf(l) : l \in lits}) - 1

\* The lowest level at which all the false literals of a clause are still false.
backtrackLevel(lits) == Max({0} \cup {LevelOf(l) : l \in lits})

\* A bug to detect: the learnt clause is used once and forgotten.
StoredNever(asserting, rest) == db

\* A unit is not stored; otherwise a literal of the level to jump to is watched.
Stored(asserting, rest) ==
    LET second == CHOOSE l \in rest : LevelOf(l) = backtrackLevel(rest)
    IN  IF rest = {} THEN db
        ELSE Append(db, [lits |-> <<asserting, second>> \o SetToSeq(rest \ {second}), learnt |-> TRUE])

\* One literal of the level is left: the clause is learnt, the search jumps back to where it is unit, and
\* its literal is enqueued.
learn ==
    /\ pc = "analyze"
    /\ \E asserting \in Open :
          LET lower == seen \ Open
              rest == lower \ Redundant(lower)
              level == backtrackLevel(rest)
          IN  /\ Open = {asserting}
              /\ trail' = Enqueued(Kept(level), asserting, level, IF rest = {} THEN CRef_Undef ELSE rest)
              /\ db' = Stored(asserting, rest)
              /\ cancelUntil(level)
    /\ seen' = {}
    /\ pc' = "propagate"
    /\ UNCHANGED <<inputVars, decision, watchers, splitVars, conflictC, answerVars>>

-----------------------------------------------------------------------------
(* What comes before and after propagation in the loop of search().        *)

\* okContinue() is false: a deadline or an interrupt.
stop ==
    /\ pc = "propagate"
    /\ trail' = Kept(0)
    /\ cancelUntil(0)
    /\ Answer("l_Undef")
    /\ UNCHANGED <<inputVars, db, decision, watchers, seen, splitVars, conflictC, ok, conflict_frame>>

\* The bound on the conflicts is reached: back to level 0, and a new search() begins.
restart ==
    /\ pc = "stable" /\ conflictC >= RestartAfter
    /\ trail' = Kept(0)
    /\ cancelUntil(0)
    /\ conflictC' = 0
    /\ pc' = "entry"
    /\ UNCHANGED <<inputVars, db, decision, watchers, seen, splitVars, answerVars>>

\* simplify() at level 0 may remove the learnt clauses that hold; then comes the early theory check.
simplify ==
    /\ pc = "stable" /\ conflictC < RestartAfter
    /\ \/ pc' = "early"
       \/ decisionLevel = 0 /\ pc' = "simplify"
    /\ UNCHANGED <<inputVars, clauseVars, trailVars, watchers, seen, splitVars, conflictC, answerVars, theoryVars>>

Satisfied == {i \in DOMAIN db : db[i].learnt /\ \E l \in LitsOf(db[i]) : TrueNow(l)}

removeSatisfied ==
    /\ pc = "simplify"
    /\ \/ Satisfied # {} /\ db' = RemoveAt(db, Min(Satisfied)) /\ UNCHANGED pc
       \/ Satisfied = {} /\ pc' = "early" /\ UNCHANGED db
    /\ UNCHANGED <<inputVars, order_heap, decision, trailVars, watchers, seen, splitVars, conflictC, answerVars,
                   theoryVars>>
-----------------------------------------------------------------------------
(* checkTheory(): at the entry of a search, after every propagation        *)
(* ("early"), and when every variable is assigned ("complete").            *)

InCheck == pc \in {"entry", "early", "complete"}

\* THandler::assertLits() gives the next literal of the trail to the theory solver, unless it has
\* rejected one.  The solver may reject it, or deduce some of what it implies.
assertLit ==
    LET l == trail[Len(stack) + 1].lit
    IN  /\ InCheck /\ ~ has_explanation /\ Len(stack) < Len(trail)
        /\ stack' = Append(stack, l)
        /\ IF l.tr \notin informed THEN UNCHANGED <<tsolverVars, given>>
           ELSE /\ given' = Append(given, l)
                /\ deductions_marks' = Append(deductions_marks, Mark)
                /\ \/ /\ Contradictory(Given \cup {l})
                      /\ has_explanation' = TRUE
                      /\ UNCHANGED <<th_deductions, polarity>>
                   \/ /\ Contradictory(Given \cup {l})
                      /\ UNCHANGED <<th_deductions, polarity, has_explanation>>
                   \/ /\ ~ Contradictory(Given \cup {l})
                      /\ \E some \in SUBSET Deducible(Given \cup {l}) : StoreDeductions(SetToSeq(some))
                      /\ UNCHANGED has_explanation
                /\ UNCHANGED <<informed, deductions_next>>
        /\ UNCHANGED <<inputVars, pc, clauseVars, trailVars, watchers, seen, splitVars, conflictC, answerVars>>

Asserted == InCheck /\ (has_explanation \/ Len(stack) = Len(trail))

\* The theory accepts: it may miss a contradiction, but not in a complete check.
Accepted == Asserted /\ ~ has_explanation /\ (pc = "complete" => ~ Contradictory(Given))

\* handleUnsat(): the solver explains the contradiction, and the search goes back to the highest level of
\* the explanation and learns from it.
handleUnsat ==
    LET At(k) == Max({0} \cup {LevelOf(l) : l \in k})
    IN  /\ Asserted /\ Contradictory(Given)
        /\ \/ /\ decisionLevel = 0
              /\ zeroLevelConflictHandler
              /\ has_explanation' = TRUE
              /\ UNCHANGED <<order_heap, trailVars, seen, conflictC, informed, th_deductions, deductions_next,
                             deductions_marks, polarity, stack, given>>
           \/ \E k \in Conflicts(Given) :
                 /\ decisionLevel > 0 /\ At(k) = 0
                 /\ trail' = Kept(0)
                 /\ cancelUntil(0)
                 /\ zeroLevelConflictHandler
                 /\ UNCHANGED <<seen, conflictC>>
           \/ \E k \in Conflicts(Given) :
                 /\ At(k) > 0
                 /\ trail' = Kept(At(k))
                 /\ cancelUntil(At(k))
                 /\ analyze({Negated(l) : l \in k})
                 /\ UNCHANGED <<ok, status>>
        /\ UNCHANGED <<inputVars, db, decision, watchers, splitVars, conflict_frame>>

\* handleSat() without split clauses: what the theory deduced and the trail does not have is enqueued.
\* The search goes on to propagate if there is any, or decides.
handleSat ==
    /\ Accepted /\ (pc = "complete" => Splits = {})
    /\ pc' = "deduce"
    /\ res' = CASE pc = "entry" -> "propagate" [] pc = "early" -> "decide" [] pc = "complete" -> "last"
    /\ UNCHANGED <<inputVars, clauseVars, trailVars, watchers, seen, new_splits, propData, conflictC, answerVars,
                   theoryVars>>

\* An iteration of deduceTheory(); no two deductions are of the same atom.
deduceTheory ==
    LET ded == th_deductions[deductions_next + 1]
    IN  /\ pc = "deduce"
        /\ \/ /\ deductions_next < Len(th_deductions)
              /\ deductions_next' = deductions_next + 1
              /\ IF Undefined(ded)
                 THEN trail' = Enqueued(trail, ded, decisionLevel, CRef_Fake) /\ res' = "propagate"
                 ELSE UNCHANGED <<trail, res>>
              /\ UNCHANGED pc
           \/ /\ deductions_next = Len(th_deductions)
              /\ pc' = res /\ res' = "none"
              /\ UNCHANGED <<deductions_next, trail>>
        /\ UNCHANGED <<inputVars, clauseVars, trail_lim, qhead, watchers, seen, new_splits, propData, conflictC,
                       answerVars, informed, th_deductions, deductions_marks, polarity, has_explanation, stack,
                       given>>
-----------------------------------------------------------------------------
(* handleNewSplitClauses(): the theory needs a split, which the solvers    *)
(* ask for in a complete check alone.  The clauses come in                 *)
(* the order of the levels at which their literals were last assigned (for *)
(* an unassigned one that is a level of the past).  A unit one takes the   *)
(* search back to where it became unit; at level 0 it need not be stored.  *)

LastAssigned(c) == Max({0} \cup {LevelOf(l) : l \in {k \in c : ~ Undefined(k)}})

ByLevel(batch) ==
    {order \in [1..Cardinality(batch) -> batch] :
        /\ IsInjective(order)
        /\ \A i, j \in DOMAIN order :
              i < j => \/ LastAssigned(order[i]) <= LastAssigned(order[j])
                       \/ \E l \in order[j] : Undefined(l)}

\* The clauses are fetched, and with them what was deduced, which is dropped.
handleNewSplitClauses ==
    LET AtomsOf(batch) == {l.tr : l \in UNION batch}
    IN  /\ Accepted /\ pc = "complete"
        /\ \E batch \in (SUBSET Splits) \ {{}} :
              /\ new_splits' \in ByLevel(batch)
              /\ addVars(AtomsOf(batch))
              /\ informed' = informed \cup (AtomsOf(batch) \cap problem.theory)
        /\ deductions_next' = Len(th_deductions)
        /\ propData' = <<>> /\ res' = "last"
        /\ pc' = "split"
        /\ UNCHANGED <<inputVars, db, trailVars, watchers, seen, conflictC, answerVars, th_deductions,
                       deductions_marks, polarity, has_explanation, stack, given>>

\* A clause of which one literal is not false: back to the lowest level where the others are false.
addUnitSplit ==
    /\ pc = "split" /\ new_splits # <<>>
    /\ \E implied \in Head(new_splits) :
          LET rest == Head(new_splits) \ {implied}
              level == backtrackLevel(rest)
          IN  /\ Undefined(implied) /\ \A l \in rest : FalseNow(l)
              /\ trail' = IF level = 0 THEN Enqueued(Kept(0), implied, 0, CRef_Undef) ELSE Kept(level)
              /\ cancelUntil(level)
              /\ db' = IF level = 0 THEN db
                       ELSE Append(db, [lits |-> <<implied>> \o SetToSeq(rest), learnt |-> FALSE])
              /\ propData' = (IF level < decisionLevel THEN <<>> ELSE propData)
                                 \o (IF level = 0 THEN <<>> ELSE <<[lit |-> implied, reason |-> rest]>>)
    /\ new_splits' = Tail(new_splits)
    /\ res' = "propagate"
    /\ UNCHANGED <<inputVars, pc, decision, watchers, seen, conflictC, answerVars>>

\* Any other clause is attached, with a literal that is not false in the first place.
addSplit ==
    LET clause == Head(new_splits)
        lits == SetToSeq(clause)
        good == Max({i \in DOMAIN lits : ~ FalseNow(lits[i])})
        attached == IF FalseNow(lits[1]) THEN [lits EXCEPT ![1] = lits[good], ![good] = lits[1]] ELSE lits
    IN  /\ pc = "split" /\ new_splits # <<>>
        /\ \/ \E l \in clause : TrueNow(l)
           \/ \E l, m \in clause : l # m /\ Undefined(l) /\ Undefined(m)
        /\ db' = Append(db, [lits |-> attached, learnt |-> FALSE])
        /\ new_splits' = Tail(new_splits)
        /\ UNCHANGED <<inputVars, pc, order_heap, decision, trailVars, watchers, seen, propData, res, conflictC,
                       answerVars, theoryVars>>

\* The implied literals of the unit clauses, each of them once.
enqueueSplits ==
    /\ pc = "split" /\ new_splits = <<>>
    /\ \/ /\ propData # <<>>
          /\ trail' = IF Undefined(Head(propData).lit)
                      THEN Enqueued(trail, Head(propData).lit, decisionLevel, Head(propData).reason)
                      ELSE trail
          /\ propData' = Tail(propData)
          /\ UNCHANGED <<pc, res>>
       \/ /\ propData = <<>>
          /\ pc' = res /\ res' = "none"
          /\ UNCHANGED <<trail, propData>>
    /\ UNCHANGED <<inputVars, clauseVars, trail_lim, qhead, watchers, seen, new_splits, conflictC, answerVars,
                   theoryVars>>
-----------------------------------------------------------------------------
(* Decisions: the assumptions first, one for each level.                   *)

NewLevel(l) ==
    /\ trail_lim' = Append(trail_lim, Len(trail))
    /\ trail' = Enqueued(trail, l, decisionLevel + 1, CRef_Undef)
    /\ pc' = "propagate"

\* An assumption that holds already gets an empty level.
skipAssumption ==
    /\ pc = "decide" /\ decisionLevel < Len(assumptions)
    /\ TrueNow(assumptions[decisionLevel + 1])
    /\ trail_lim' = Append(trail_lim, Len(trail))
    /\ UNCHANGED <<inputVars, pc, clauseVars, trail, qhead, watchers, seen, splitVars, conflictC, answerVars,
                   theoryVars>>

assume ==
    /\ pc = "decide" /\ decisionLevel < Len(assumptions)
    /\ Undefined(assumptions[decisionLevel + 1])
    /\ NewLevel(assumptions[decisionLevel + 1])
    /\ UNCHANGED <<inputVars, clauseVars, qhead, watchers, seen, splitVars, conflictC, answerVars, theoryVars>>

\* analyzeFinal(): the assumptions that led to a false one: the marks go from its variable down the
\* reasons, for which the theory is asked with the trail cut back for a moment, without a trace.
FinalConflict(p, why) ==
    LET Closed(marks) ==
            \A i \in DOMAIN trail :
                trail[i].lit.tr \in marks /\ trail[i].reason # CRef_Undef
                    => {l.tr : l \in IF i \in DOMAIN why THEN why[i] ELSE trail[i].reason} \subseteq marks
        marked == {v \in Atoms : \A marks \in SUBSET Atoms : p.tr \in marks /\ Closed(marks) => v \in marks}
        Active == {assumptions[j].tr : j \in {h \in DOMAIN assumptions : ~ assumptions[h].sgn}}
    IN  {p} \cup {Negated(trail[i].lit) : i \in {h \in DOMAIN trail : /\ trail[h].lit.tr \in marked \cap Active
                                                                      /\ trail[h].reason = CRef_Undef}}

\* assumptions_order: the place of a variable among the assumptions that enable a frame (negative ones).
Order(v) ==
    LET Active(n) == {j \in 1..n : ~ assumptions[j].sgn}
    IN  Cardinality(Active((CHOOSE j \in Active(Len(assumptions)) : assumptions[j].tr = v) - 1))

analyzeFinal ==
    LET p == assumptions[decisionLevel + 1]
        fakes == {i \in DOMAIN trail : trail[i].reason = CRef_Fake}
        Before(i) == {trail[j].lit : j \in 1..(i - 1)} \cap Given
    IN  /\ pc = "decide" /\ decisionLevel < Len(assumptions) /\ FalseNow(p)
        /\ \E why \in {w \in [fakes -> SUBSET Given] : \A i \in fakes : w[i] \in ReasonsFor(trail[i].lit, Before(i))} :
              conflict_frame' = 1 + Max({0} \cup {Order(l.tr) : l \in {k \in FinalConflict(Negated(p), why) : k.sgn}})
        /\ zeroLevelConflictHandler
        /\ UNCHANGED <<inputVars, clauseVars, trailVars, watchers, seen, splitVars, conflictC, theoryVars>>

\* pickBranchLit(): a variable of the heap, by activity or at random, and a phase.
Candidates == {v \in order_heap \cap decision : v \notin Assigned}

Deciding == (pc = "decide" /\ decisionLevel >= Len(assumptions)) \/ pc = "last"

pickBranchLit ==
    /\ Deciding
    /\ \E v \in Candidates, sgn \in BOOLEAN : NewLevel([tr |-> v, sgn |-> sgn]) /\ order_heap' = order_heap \ {v}
    /\ UNCHANGED <<inputVars, db, decision, qhead, watchers, seen, splitVars, conflictC, answerVars, theoryVars>>

\* Every variable has a value: a complete check, and after one, unless it brought new variables, the answer.
complete ==
    /\ Deciding /\ Candidates = {}
    /\ IF pc = "decide" THEN pc' = "complete" /\ UNCHANGED status ELSE Answer("l_True")
    /\ UNCHANGED <<inputVars, clauseVars, trailVars, watchers, seen, splitVars, conflictC, ok, conflict_frame,
                   theoryVars>>

\* MainSolver: clearSearch(), then more clauses and the next check.  A frame that is in the way is popped
\* first, with restoreOK().
clearSearch ==
    /\ pc = "done" /\ round < Len(problem.rounds)
    /\ trail' = Kept(0)
    /\ cancelLevels(0)
    /\ backtrack(0)
    /\ ok' = (ok \/ conflict_frame > 0)
    /\ conflict_frame' = 0
    /\ round' = round + 1 /\ loaded' = 0
    /\ pc' = "load"
    /\ UNCHANGED <<problem, db, decision, watchers, seen, splitVars, conflictC, status>>

Next ==
    \/ addOriginalClause_ \/ solve_
    \/ takeLiteral \/ keepWatch \/ moveWatch \/ propagateUnit \/ falsified \/ propagated
    \/ resolve \/ learn
    \/ stop \/ restart \/ simplify \/ removeSatisfied
    \/ assertLit \/ handleUnsat \/ handleSat \/ deduceTheory
    \/ handleNewSplitClauses \/ addUnitSplit \/ addSplit \/ enqueueSplits
    \/ skipAssumption \/ assume \/ analyzeFinal \/ pickBranchLit \/ complete
    \/ clearSearch

\* The solver runs in one thread, which the operating system schedules.
Spec == Init /\ [][Next]_vars /\ WF_vars(Next)
-----------------------------------------------------------------------------
(* What the search is for. *)

Holds(a, l) == a[l.tr] = l.sgn

\* The assignments that the theory allows.
Models ==
    {a \in [Atoms -> BOOLEAN] : /\ \A k \in problem.conflicts : \E l \in k : ~ Holds(a, l)
                                /\ \A c \in problem.splits : \E l \in c : Holds(a, l)}

\* What no explanation contradicts, and gives every split clause a literal, has a model: the theory solver
\* has an explanation for whatever the theory excludes.
ASSUME TheoryAssumption ==
    \A p \in Problems :
        /\ \A l \in UNION (p.conflicts \cup p.splits) : l.tr \in p.theory
        /\ \A S \in SUBSET {l \in Literal : l.tr \in p.theory} :
              /\ \A l \in S : Negated(l) \notin S
              /\ \A k \in p.conflicts : ~ k \subseteq S
              /\ \A c \in p.splits : c \cap S # {}
              => \E a \in [Atoms -> BOOLEAN] : /\ \A l \in S : Holds(a, l)
                                              /\ \A k \in p.conflicts : \E l \in k : ~ Holds(a, l)

\* The clauses that were added so far.
Added == (UNION {{problem.rounds[r].clauses[j] : j \in DOMAIN problem.rounds[r].clauses} : r \in 1..(round - 1)})
             \cup {Round.clauses[j] : j \in 1..loaded}

Satisfying(lits) ==
    LET clauses == Added
    IN  {a \in Models : (\A c \in clauses : \E l \in c : Holds(a, l)) /\ \A l \in lits : Holds(a, l)}

Decided(i) == trail[i].level > 0 /\ trail[i].reason = CRef_Undef

\* The type of the state.
TypeOK ==
    /\ TSolverTypeOK
    /\ problem \in Problems /\ round \in DOMAIN problem.rounds /\ loaded \in 0..Len(Round.clauses)
    /\ pc \in {"load", "unit", "entry", "propagate", "watch", "analyze", "stable", "simplify", "early", "decide",
               "complete", "deduce", "split", "last", "done"}
    /\ db \in Seq(Clause) /\ decision \subseteq Atoms /\ order_heap \subseteq Atoms
    /\ trail \in Seq(Entry) /\ trail_lim \in Seq(0..Len(trail)) /\ qhead \in 0..Len(trail)
    /\ watchers \subseteq DOMAIN db /\ seen \subseteq Literal
    /\ new_splits \in Seq(SUBSET Literal)
    /\ propData \in Seq([lit : Literal, reason : SUBSET Literal])
    /\ res \in {"none", "propagate", "decide", "last"}
    /\ conflictC \in Nat /\ ok \in BOOLEAN /\ conflict_frame \in Nat
    /\ status \in {"l_True", "l_False", "l_Undef"}
    /\ stack \in Seq(Literal) /\ given \in Seq(Literal)

\* Every literal of the trail is a decision or follows, with the clauses and the theory, from the
\* decisions of its level and the levels below: backjumping may keep it as long as those stay.
TrailImplied ==
    \A a \in Satisfying({}), i \in DOMAIN trail :
        \/ Decided(i) \/ Holds(a, trail[i].lit)
        \/ \E j \in 1..i : Decided(j) /\ trail[j].level <= trail[i].level /\ ~ Holds(a, trail[j].lit)

\* Every clause of the database, learnt or split, follows from the clauses that were added.
ClausesImplied ==
    \A a \in Satisfying({}), i \in DOMAIN db : \E l \in LitsOf(db[i]) : Holds(a, l)

\* Whatever was learnt, split, propagated, deduced or undone, every clause and every propagated
\* literal follows from what was added (analyze, propagate, handleSat, cancelUntil).
AllImplied == TrailImplied /\ ClausesImplied

\* The reason of a literal is false on the trail before it, so that conflict analysis terminates.
ReasonsBefore ==
    \A i \in DOMAIN trail :
        trail[i].reason \in {CRef_Undef, CRef_Fake}
            \/ \A l \in trail[i].reason : \E j \in 1..(i - 1) : trail[j].lit = Negated(l)

\* When propagation ends without a conflict, no clause is false, although each is looked at only when one
\* of its two watched literals becomes false.
NoClauseFalse ==
    pc \in {"stable", "simplify", "early", "decide", "complete", "last"} =>
        \A i \in DOMAIN db : \E l \in LitsOf(db[i]) : ~ FalseNow(l)

\* Watched literals, backjumps and restarts leave no clause unpropagated and no reason after its
\* literal (propagate, cancelUntil, attachClause).
PropagationComplete == ReasonsBefore /\ NoClauseFalse

\* The theory handler's stack is a part of the trail, and the theory solver has the literals of it that it
\* was told, in their order, with a backtrack point each.
TheoryMirrorsTrail ==
    LET Told(n) == {i \in 1..n : stack[i].tr \in informed}
    IN  /\ Len(stack) <= Len(trail)
        /\ \A i \in DOMAIN stack : stack[i] = trail[i].lit
        /\ Len(given) = Cardinality(Told(Len(stack))) /\ Len(deductions_marks) = Len(given)
        /\ \A i \in Told(Len(stack)) : given[Cardinality(Told(i))] = stack[i]

\* The answer is right: a model that every clause, every assumption and the theory allow; or none, even
\* if only the frames below conflict_frame are enabled.  A clause with a literal and its negation is
\* dropped, and its atoms may stay without a value.
SatAnswersRight ==
    pc = "done" /\ status = "l_True" =>
        /\ Satisfying(OnTrail \cup {assumptions[j] : j \in DOMAIN assumptions}) # {}
        /\ \A c \in Added : \E l \in c : TrueNow(l) \/ Negated(l) \in c

Enabled(n) ==
    {assumptions[j] : j \in {h \in DOMAIN assumptions : assumptions[h].sgn \/ Order(assumptions[h].tr) < n}}

UnsatAnswersRight ==
    pc = "done" /\ status = "l_False" =>
        Satisfying(IF conflict_frame = 0 THEN {} ELSE Enabled(conflict_frame)) = {}

AnswerRight == SatAnswersRight /\ UnsatAnswersRight

\* Every search ends: with an answer, or because it was told to stop.
SearchEnds == pc = "entry" ~> pc = "done"
=============================================================================
