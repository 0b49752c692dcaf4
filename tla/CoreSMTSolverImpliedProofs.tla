--------------------- MODULE CoreSMTSolverImpliedProofs ---------------------
(***************************************************************************)
(* What the search learns, propagates, deduces and answers follows from    *)
(* what was added, for all problems.  The argument goes assignment by      *)
(* assignment: one that the theory and the clauses allow never disagrees   *)
(* with the trail first at a literal that was not decided.                 *)
(***************************************************************************)
EXTENDS CoreSMTSolverProofs

\* An assignment meets an entry of the trail with the entries before it: at level 0, by the reason of
\* the literal, or by what the theory deduced it from.
Meets(a, tr, i) ==
    /\ tr[i].level = 0 => Holds(a, tr[i].lit)
    /\ tr[i].reason \notin {CRef_Undef, CRef_Fake} => Holds(a, tr[i].lit) \/ \E l \in tr[i].reason : Holds(a, l)
    /\ tr[i].reason = CRef_Fake => Holds(a, tr[i].lit) \/ \E j \in 1..(i - 1) : ~ Holds(a, tr[j].lit)

MeetsTrail(a) == \A i \in DOMAIN trail : Meets(a, trail, i)
MeetsClauses(a) == \A i \in DOMAIN db : \E l \in LitsOf(db[i]) : Holds(a, l)

\* A deduction follows from what the theory solver had been given when it was made.
MeetsDeductions(a) ==
    \A n \in 0..Len(given), d \in DOMAIN th_deductions :
        n = Len(given) \/ d <= deductions_marks[n + 1].lim
            => Holds(a, th_deductions[d]) \/ \E j \in 1..n : ~ Holds(a, given[j])

\* The clause that analyze() resolves, without its literals that are false at level 0.
MeetsResolvent(a) == pc = "analyze" => \E l \in seen : Holds(a, l)

MeetsSplits(a) ==
    \A k \in DOMAIN propData : Holds(a, propData[k].lit) \/ \E l \in propData[k].reason : Holds(a, l)

\* An assignment that satisfies what was added shows that the solver is not inconsistent, unless
\* because of the assumptions.
MeetsAll(a) ==
    /\ MeetsTrail(a) /\ MeetsClauses(a) /\ MeetsDeductions(a) /\ MeetsResolvent(a) /\ MeetsSplits(a)
    /\ ok \/ conflict_frame > 0

\* Of the levels of the assumptions, each is decided by its own, and nothing else is decided before.
AssumptionsDecided ==
    /\ \A i \in DOMAIN trail :
          Decided(i) /\ trail[i].level <= Len(assumptions) => trail[i].lit = assumptions[trail[i].level]
    /\ pc \in {"complete", "last"} \/ res = "last" => decisionLevel >= Len(assumptions)

ImpliedInv ==
    /\ StepInv /\ AssumptionsDecided /\ UnsatAnswersRight
    /\ \A a \in Satisfying({}) : MeetsAll(a)

-----------------------------------------------------------------------------
(* Assignments.                                                            *)

\* An assignment satisfies a literal or its negation.
LEMMA HoldsOne ==
    ASSUME NEW a \in [Atoms -> BOOLEAN], NEW l \in Literal
    PROVE  Holds(a, Negated(l)) <=> ~ Holds(a, l)
<1>1. a[l.tr] \in BOOLEAN /\ l.sgn \in BOOLEAN
  BY DEF Literal
<1>2. Negated(l).tr = l.tr /\ Negated(l).sgn = ~ l.sgn
  BY DEF Negated
<1> QED BY <1>1, <1>2 DEF Holds

\* What satisfies everything that was added is an assignment that the theory allows.
LEMMA Allowed ==
    ASSUME NEW lits, NEW a \in Satisfying(lits)
    PROVE  /\ a \in Models /\ a \in [Atoms -> BOOLEAN] /\ a \in Satisfying({})
           /\ \A l \in lits : Holds(a, l)
BY DEF Satisfying, Models

\* The theory allows no assignment that satisfies a contradiction.
LEMMA NoContradiction ==
    ASSUME TypeOK, NEW a \in Models, NEW S \in SUBSET Literal, NEW k \in Conflicts(S)
    PROVE  k \subseteq S /\ \E l \in k : ~ Holds(a, l)
<1>1. a \in [Atoms -> BOOLEAN] /\ k \subseteq S
  BY DEF Models, Conflicts
<1>2. CASE k \in problem.conflicts
  BY <1>1, <1>2 DEF Models
<1>3. CASE \E c \in problem.splits : k = {Negated(l) : l \in c}
  <2>1. PICK c \in problem.splits : k = {Negated(l) : l \in c}
    BY <1>3
  <2>2. PICK l \in c : Holds(a, l)
    BY <2>1 DEF Models
  <2>3. l \in Literal
    BY <2>1, <2>2, Asked
  <2>4. ~ Holds(a, Negated(l)) /\ Negated(l) \in k
    BY <1>1, <2>1, <2>2, <2>3, HoldsOne
  <2> QED BY <2>4, <1>1
<1> QED BY <1>1, <1>2, <1>3 DEF Conflicts

\* Sets of literals that the theory excludes.
LEMMA ExcludedSet ==
    ASSUME TypeOK, NEW a \in Models, NEW S \in SUBSET Literal, Contradictory(S)
    PROVE  \E l \in S : ~ Holds(a, l)
<1>1. a \in [Atoms -> BOOLEAN]
  BY DEF Models
<1>2. CASE \E k \in problem.conflicts : k \subseteq S
  BY <1>2 DEF Models
<1>3. CASE \E c \in problem.splits : \A l \in c : Negated(l) \in S
  <2>1. PICK c \in problem.splits : \A l \in c : Negated(l) \in S
    BY <1>3
  <2>2. PICK l \in c : Holds(a, l)
    BY <2>1 DEF Models
  <2>3. l \in Literal
    BY <2>1, <2>2, Asked
  <2> QED BY <1>1, <2>1, <2>2, <2>3, HoldsOne
<1> QED BY <1>2, <1>3 DEF Contradictory

\* Clauses are only ever added: what satisfies them later does so before.
LEMMA FewerModels ==
    ASSUME StepInv, [Next]_vars, NEW a \in Satisfying({})'
    PROVE  /\ a \in Satisfying({})
           /\ addOriginalClause_ => \E l \in Round.clauses[loaded + 1] : Holds(a, l)
<1>1. problem' = problem /\ TypeOK /\ Phases
  BY SameProblem DEF StepInv
<1>2. a \in Models /\ \A c \in Added' : \E l \in c : Holds(a, l)
  BY <1>1 DEF Satisfying, Models
<1>3. /\ loaded \in 0..Len(Round.clauses) /\ round \in Nat /\ round >= 1 /\ round \in DOMAIN problem.rounds
      /\ Round.clauses \in Seq(SUBSET Literal) /\ Len(Round.clauses) \in Nat
  BY <1>1, Asked, LenProperties DEF TypeOK
<1>4. CASE inputVars' = inputVars
  <2>1. Added' = Added
    BY <1>4 DEF Added, Round, inputVars
  <2>2. ~ addOriginalClause_
    BY <1>3, <1>4 DEF addOriginalClause_, inputVars
  <2> QED BY <1>2, <2>1, <2>2 DEF Satisfying
<1>5. CASE addOriginalClause_
  <2>1. /\ loaded' = loaded + 1 /\ round' = round /\ loaded < Len(Round.clauses)
    BY <1>5 DEF addOriginalClause_
  <2>2. Round' = Round
    BY <1>1, <2>1 DEF Round
  <2>3. \A j \in 1..loaded : j \in 1..(loaded + 1)
    BY <1>3
  <2>4. Added \subseteq Added'
    BY <1>1, <2>1, <2>2, <2>3 DEF Added
  <2>5. loaded + 1 \in 1..loaded'
    BY <2>1, <1>3
  <2>6. Round.clauses[loaded + 1] \in Added'
    BY <2>1, <2>2, <2>5 DEF Added
  <2> QED BY <1>2, <2>4, <2>6 DEF Satisfying
<1>6. CASE clearSearch
  <2>1. /\ pc = "done" /\ round' = round + 1 /\ loaded' = 0
    BY <1>6 DEF clearSearch
  <2>2. loaded = Len(Round.clauses)
    BY <2>1, <1>1 DEF Phases, Loading
  <2>3. DOMAIN Round.clauses = 1..loaded
    BY <2>2, <1>3
  <2>4. 1..(round' - 1) = 1..round /\ round \in 1..round /\ 1..(round - 1) \subseteq 1..round
    BY <2>1, <1>3
  <2>5. Added \subseteq Added'
    <3> DEFINE In(r, c) == \E j \in DOMAIN problem.rounds[r].clauses : c = problem.rounds[r].clauses[j]
    <3>1. \A c \in Added : (\E r \in 1..(round - 1) : In(r, c)) \/ \E j \in 1..loaded : c = Round.clauses[j]
      BY DEF Added
    <3>2. \A c : (\E j \in 1..loaded : c = Round.clauses[j]) => In(round, c)
      BY <2>3 DEF Round
    <3>3. \A c : (\E r \in 1..(round' - 1) : In(r, c)) => c \in Added'
      BY <1>1 DEF Added
    <3> HIDE DEF In
    <3> QED BY <3>1, <3>2, <3>3, <2>4
  <2>6. ~ addOriginalClause_
    BY <2>1 DEF addOriginalClause_
  <2> QED BY <1>2, <2>5, <2>6 DEF Satisfying
<1>7. CASE ~ (inputVars' = inputVars) /\ ~ addOriginalClause_ /\ ~ clearSearch
  <2>1. CASE solve_ \/ takeLiteral \/ keepWatch \/ moveWatch \/ propagateUnit \/ falsified \/ propagated
    BY <2>1, <1>7 DEF solve_, takeLiteral, keepWatch, moveWatch, propagateUnit, falsified, visit, propagated
  <2>2. CASE resolve \/ learn \/ stop \/ restart \/ simplify \/ removeSatisfied \/ assertLit
    BY <2>2, <1>7 DEF resolve, learn, stop, restart, simplify, removeSatisfied, assertLit
  <2>3. CASE handleUnsat \/ handleSat \/ deduceTheory \/ handleNewSplitClauses \/ addUnitSplit \/ addSplit
    BY <2>3, <1>7 DEF handleUnsat, handleSat, deduceTheory, handleNewSplitClauses, addUnitSplit, addSplit
  <2>4. CASE enqueueSplits \/ skipAssumption \/ assume \/ analyzeFinal \/ pickBranchLit \/ complete
    BY <2>4, <1>7 DEF enqueueSplits, skipAssumption, assume, analyzeFinal, pickBranchLit, complete
  <2>5. CASE UNCHANGED vars
    BY <2>5, <1>7 DEF vars
  <2> QED BY <2>1, <2>2, <2>3, <2>4, <2>5, <1>7 DEF Next
<1> QED BY <1>4, <1>5, <1>6, <1>7

-----------------------------------------------------------------------------
(* The trail.                                                              *)

\* A literal that is false at level 0 is false in every assignment that the trail admits.
LEMMA FalseAtZero ==
    ASSUME TypedTrail(trail, trail_lim), NEW a \in [Atoms -> BOOLEAN], MeetsTrail(a),
           NEW l \in Literal, FalseNow(l), LevelOf(l) = 0
    PROVE  ~ Holds(a, l)
<1>1. EntryOf(l.tr) \in DOMAIN trail /\ trail[EntryOf(l.tr)].lit = Negated(l)
  BY Places
<1>2. Holds(a, Negated(l))
  BY <1>1 DEF MeetsTrail, Meets, LevelOf
<1> QED BY <1>2, HoldsOne

\* Nothing above level 0: whatever is false now is false in the assignment.
LEMMA FalseAtBottom ==
    ASSUME TypedTrail(trail, trail_lim), NEW a \in [Atoms -> BOOLEAN], MeetsTrail(a), decisionLevel = 0,
           NEW l \in Literal, FalseNow(l)
    PROVE  ~ Holds(a, l)
<1>1. LevelOf(l) \in 0..decisionLevel
  BY Places
<1>2. LevelOf(l) = 0
  BY <1>1
<1> QED BY <1>2, FalseAtZero

\* What a new literal needs, after the part of the trail that is kept.
MayFollow(a, k, l, from) ==
    /\ k = 0 => Holds(a, l)
    /\ from \notin {CRef_Undef, CRef_Fake} => Holds(a, l) \/ \E m \in from : Holds(a, m)
    /\ from = CRef_Fake => Holds(a, l) \/ \E j \in DOMAIN Kept(k) : ~ Holds(a, Kept(k)[j].lit)

\* A trail that is cut back, or kept, is still met.
LEMMA MeetsKept ==
    ASSUME TypedTrail(trail, trail_lim), NEW a, MeetsTrail(a), NEW k \in 0..decisionLevel
    PROVE  \A i \in DOMAIN Kept(k) : Meets(a, Kept(k), i)
<1>1. /\ KeptAt(k) \in 0..Len(trail) /\ DOMAIN Kept(k) = 1..KeptAt(k) /\ DOMAIN Kept(k) \subseteq DOMAIN trail
      /\ \A i \in 1..KeptAt(k) : Kept(k)[i] = trail[i]
  BY KeptPart
<1>2. Len(trail) \in Nat
  BY Places
<1> SUFFICES ASSUME NEW i \in DOMAIN Kept(k) PROVE Meets(a, Kept(k), i)
  OBVIOUS
<1>3. i \in 1..KeptAt(k) /\ Kept(k)[i] = trail[i] /\ Meets(a, trail, i)
  BY <1>1 DEF MeetsTrail
<1>4. \A j \in 1..(i - 1) : j \in 1..KeptAt(k) /\ Kept(k)[j] = trail[j]
  BY <1>1, <1>2, <1>3
<1> QED BY <1>3, <1>4 DEF Meets

\* Cancelling levels leaves a trail that is met.
LEMMA MeetsCut ==
    ASSUME TypedTrail(trail, trail_lim), NEW a, MeetsTrail(a), NEW k, Cuts(k)
    PROVE  MeetsTrail(a)'
BY MeetsKept DEF Cuts, MeetsTrail

\* Adding a literal that follows leaves a trail that is met.
LEMMA MeetsAdd ==
    ASSUME TypedTrail(trail, trail_lim), NEW a, MeetsTrail(a),
           NEW k, NEW l, NEW from, Adds(k, l, from), MayFollow(a, k, l, from)
    PROVE  MeetsTrail(a)'
<1>1. k \in 0..decisionLevel /\ trail' = Enqueued(Kept(k), l, k, from)
  BY DEF Adds
<1>2. Kept(k) \in Seq(Entry) /\ \A i \in DOMAIN Kept(k) : Meets(a, Kept(k), i)
  BY <1>1, KeptPart, MeetsKept
<1> DEFINE n == Len(Kept(k))
           e == [lit |-> l, level |-> k, reason |-> from]
<1>3. n \in Nat /\ DOMAIN Kept(k) = 1..n
  BY <1>2, LenProperties
<1>4. e.lit = l /\ e.level = k /\ e.reason = from
  OBVIOUS
<1>5. trail' = Append(Kept(k), e)
  BY <1>1 DEF Enqueued
<1>6. e \in Entry /\ k \in Nat
  <2>1. l \in Literal /\ from \in Reasons
    BY DEF Adds, Addable
  <2>2. k \in Nat
    BY <1>1
  <2> QED BY <2>1, <2>2 DEF Entry
<1> HIDE DEF e
<1>7. DOMAIN trail' = 1..(n + 1) /\ trail'[n + 1] = e /\ \A i \in 1..n : trail'[i] = Kept(k)[i]
  BY <1>2, <1>3, <1>5, <1>6, AppendProperties
<1> SUFFICES ASSUME NEW i \in 1..(n + 1) PROVE Meets(a, trail', i)
  BY <1>7 DEF MeetsTrail
<1>8. CASE i \in 1..n
  <2>1. Meets(a, Kept(k), i) /\ trail'[i] = Kept(k)[i]
    BY <1>2, <1>3, <1>7, <1>8
  <2>2. \A j \in 1..(i - 1) : j \in 1..n /\ trail'[j] = Kept(k)[j]
    BY <1>3, <1>7, <1>8
  <2> QED BY <2>1, <2>2 DEF Meets
<1>9. CASE i = n + 1
  <2>1. 1..(i - 1) = DOMAIN Kept(k)
    BY <1>3, <1>9
  <2>2. \A j \in 1..(i - 1) : trail'[j] = Kept(k)[j]
    BY <1>3, <1>7, <2>1
  <2> QED BY <2>1, <2>2, <1>4, <1>7, <1>9 DEF Meets, MayFollow
<1> QED BY <1>3, <1>8, <1>9

\* A decision needs nothing.
LEMMA MeetsDecision ==
    ASSUME TypedTrail(trail, trail_lim), NEW a, MeetsTrail(a), NEW l, Decides(l)
    PROVE  MeetsTrail(a)'
<1>1. trail \in Seq(Entry) /\ Len(trail) \in Nat /\ DOMAIN trail = 1..Len(trail) /\ decisionLevel \in Nat
  BY Places DEF TypedTrail
<1> DEFINE e == [lit |-> l, level |-> decisionLevel + 1, reason |-> CRef_Undef]
<1>2. e \in Entry /\ e.level # 0 /\ e.reason = CRef_Undef
  BY <1>1 DEF Decides, Entry, Reasons
<1>3. trail' = Append(trail, e)
  BY DEF Decides, Enqueued
<1> HIDE DEF e
<1>4. /\ DOMAIN trail' = 1..(Len(trail) + 1) /\ trail'[Len(trail) + 1] = e
      /\ \A i \in 1..Len(trail) : trail'[i] = trail[i]
  BY <1>1, <1>2, <1>3, AppendProperties
<1> SUFFICES ASSUME NEW i \in 1..(Len(trail) + 1) PROVE Meets(a, trail', i)
  BY <1>4 DEF MeetsTrail
<1>5. CASE i \in 1..Len(trail)
  <2>1. Meets(a, trail, i) /\ trail'[i] = trail[i]
    BY <1>1, <1>4, <1>5 DEF MeetsTrail
  <2>2. \A j \in 1..(i - 1) : j \in 1..Len(trail) /\ trail'[j] = trail[j]
    BY <1>1, <1>4, <1>5
  <2> QED BY <2>1, <2>2 DEF Meets
<1>6. CASE i = Len(trail) + 1
  BY <1>2, <1>4, <1>6, CoreSMTSolverAssumption DEF Meets
<1> QED BY <1>1, <1>5, <1>6

-----------------------------------------------------------------------------
(* What is put on the trail, and what is learnt.                           *)

\* What makes a literal of a clause redundant: a set of entries whose reasons lead to the clause, to
\* level 0, or to the set.
ClosedIn(lits, S) ==
    \A i \in S :
        /\ trail[i].reason \notin {CRef_Undef, CRef_Fake}
        /\ \A l \in trail[i].reason :
              \/ trail[EntryOf(l.tr)].level = 0 \/ l \in lits
              \/ EntryOf(l.tr) \in S

\* litRedundant() only drops literals that come from others (for the levels it looks at, see Redundant).
LEMMA RedundantFrom ==
    ASSUME NEW lits, NEW l \in Redundant(lits)
    PROVE  l \in lits /\ \E S \in SUBSET DOMAIN trail : ClosedIn(lits, S) /\ EntryOf(l.tr) \in S
BY DEF Redundant, ClosedIn

\* The learnt clause holds in every assignment in which the resolved one does.
LEMMA LearntHolds ==
    ASSUME StepInv, pc = "analyze", NEW a \in [Atoms -> BOOLEAN], MeetsTrail(a), MeetsResolvent(a),
           NEW asserting \in Open, Open = {asserting}
    PROVE  Holds(a, asserting) \/ \E m \in Rest : Holds(a, m)
<1> SUFFICES ASSUME ~ Holds(a, asserting), \A m \in Rest : ~ Holds(a, m) PROVE FALSE
  OBVIOUS
<1>1. TypedTrail(trail, trail_lim) /\ ReasonsFalse(trail)
  BY Typed DEF TypedTrail
<1>2. PICK l \in seen : Holds(a, l)
  BY DEF MeetsResolvent
<1> DEFINE lower == seen \ Open
           Bad(i) == ~ Holds(a, trail[i].lit) /\ \E S \in SUBSET DOMAIN trail : ClosedIn(lower, S) /\ i \in S
           B == {i \in DOMAIN trail : Bad(i)}
<1>3. ASSUME NEW m \in lower, Holds(a, m) PROVE EntryOf(m.tr) \in B
  <2>1. m \in Redundant(lower)
    BY <1>3 DEF Rest
  <2>2. \E S \in SUBSET DOMAIN trail : ClosedIn(lower, S) /\ EntryOf(m.tr) \in S
    BY <2>1, RedundantFrom
  <2>3. m \in Literal /\ EntryOf(m.tr) \in DOMAIN trail /\ trail[EntryOf(m.tr)].lit = Negated(m)
    BY SeenPlaces
  <2>4. ~ Holds(a, Negated(m))
    BY <2>3, <1>3, HoldsOne
  <2> QED BY <2>2, <2>3, <2>4
<1>4. l \in lower
  BY <1>2
<1>5. EntryOf(l.tr) \in B
  BY <1>2, <1>3, <1>4
<1>6. DOMAIN trail = 1..Len(trail) /\ Len(trail) \in Nat
  BY <1>1, Places
<1>7. B \subseteq DOMAIN trail
  OBVIOUS
<1> HIDE DEF lower, B
<1>21. B \in SUBSET Nat /\ B # {}
  BY <1>5, <1>6, <1>7
<1>8. PICK i \in B : \A j \in B : i <= j
  BY <1>21, Smallest
<1>9. i \in DOMAIN trail /\ Bad(i)
  BY <1>8 DEF B
<1>10. PICK S \in SUBSET DOMAIN trail : ClosedIn(lower, S) /\ i \in S
  BY <1>9
<1>11. /\ trail[i].reason \notin {CRef_Undef, CRef_Fake} /\ ~ Holds(a, trail[i].lit)
       /\ Meets(a, trail, i)
  BY <1>9, <1>10 DEF ClosedIn, MeetsTrail
<1>12. PICK m \in trail[i].reason : Holds(a, m)
  BY <1>11 DEF Meets
<1>13. m \in Literal
  <2>1. trail[i] \in Entry
    BY <1>1, <1>9, Places
  <2>2. trail[i].reason \in SUBSET Literal
    BY <2>1, <1>11 DEF Entry, Reasons
  <2> QED BY <2>2
<1>14. PICK j \in 1..(i - 1) : trail[j].lit = Negated(m)
  BY <1>1, <1>9, <1>11 DEF ReasonsFalse
<1>15. j \in DOMAIN trail /\ j < i /\ EntryOf(m.tr) = j /\ ~ Holds(a, trail[j].lit)
  <2>1. j \in DOMAIN trail /\ j < i
    BY <1>6, <1>9
  <2>2. EntryOf(trail[j].lit.tr) = j /\ trail[j].lit.tr = m.tr
    BY <2>1, <1>1, <1>13, <1>14, Places, Negation
  <2>3. ~ Holds(a, Negated(m))
    BY <1>12, <1>13, HoldsOne
  <2> QED BY <2>1, <2>2, <2>3, <1>14
<1>16. j \notin B
  BY <1>6, <1>8, <1>9, <1>15
<1>17. trail[j].level # 0
  BY <1>15 DEF MeetsTrail, Meets
<1>18. m \in lower \/ j \in S
  BY <1>10, <1>15, <1>17 DEF ClosedIn
<1>19. m \notin lower
  BY <1>3, <1>12, <1>15, <1>16
<1>20. Bad(j)
  BY <1>10, <1>15, <1>18, <1>19
<1> QED BY <1>15, <1>16, <1>20 DEF B

\* A clause that holds, with a literal that is left when the others are false on the trail that is
\* kept, may put that literal on it.
LEMMA MayFollowClause ==
    ASSUME TypedTrail(trail, trail_lim), NEW a \in [Atoms -> BOOLEAN], MeetsTrail(a),
           NEW l \in Literal, NEW from \in SUBSET Literal, \A m \in from : FalseNow(m),
           NEW k, k = 0 => \A m \in from : LevelOf(m) = 0,
           Holds(a, l) \/ \E m \in from : Holds(a, m),
           NEW reason, reason = from \/ (k = 0 /\ reason = CRef_Undef)
    PROVE  MayFollow(a, k, l, reason)
<1>1. k = 0 => Holds(a, l)
  BY FalseAtZero
<1>2. from # CRef_Undef /\ from # CRef_Fake /\ CRef_Undef # CRef_Fake
  BY CoreSMTSolverAssumption
<1> QED BY <1>1, <1>2 DEF MayFollow

\* At the current level all of the trail is kept.
LEMMA LevelHere ==
    ASSUME TypedTrail(trail, trail_lim), decisionLevel = 0, NEW l \in Literal, FalseNow(l)
    PROVE  LevelOf(l) = 0
<1>1. LevelOf(l) \in 0..0
  BY Places
<1> QED BY <1>1

\* The assignment `a' satisfies what was added and what this step adds.
Stays(a) ==
    /\ a \in Satisfying({}) /\ MeetsAll(a)
    /\ addOriginalClause_ => \E l \in Round.clauses[loaded + 1] : Holds(a, l)

\* What staying satisfied gives.
LEMMA StaysFacts ==
    ASSUME NEW a, Stays(a)
    PROVE  /\ a \in [Atoms -> BOOLEAN] /\ a \in Models
           /\ MeetsTrail(a) /\ MeetsClauses(a) /\ MeetsDeductions(a) /\ MeetsResolvent(a) /\ MeetsSplits(a)
           /\ ok \/ conflict_frame > 0
BY Allowed DEF Stays, MeetsAll

\* A unit clause of the input (addOriginalClause_).
LEMMA LoadMeets ==
    ASSUME StepInv, addOriginalClause_, NEW a, Stays(a)
    PROVE  MeetsTrail(a)'
<1>1. TypedTrail(trail, trail_lim) /\ a \in [Atoms -> BOOLEAN] /\ MeetsTrail(a)
  BY Typed, StaysFacts
<1>2. CASE trail' = trail
  BY <1>1, <1>2 DEF MeetsTrail
<1>3. CASE trail' # trail
  <2>1. PICK l \in Round.clauses[loaded + 1] :
            /\ \A m \in Round.clauses[loaded + 1] \ {l} : FalseNow(m)
            /\ Adds(0, l, CRef_Undef) /\ decisionLevel = 0
    BY <1>3, LoadStep
  <2>2. Round.clauses[loaded + 1] \in SUBSET Literal
    BY LoadClause
  <2>3. PICK m \in Round.clauses[loaded + 1] : Holds(a, m)
    BY DEF Stays
  <2> DEFINE from == Round.clauses[loaded + 1] \ {l}
  <2>4. l \in Literal /\ from \in SUBSET Literal /\ \A x \in from : FalseNow(x)
    BY <2>1, <2>2
  <2>5. \A x \in from : LevelOf(x) = 0
    BY <2>1, <2>4, <1>1, LevelHere
  <2>6. Holds(a, l) \/ \E x \in from : Holds(a, x)
    BY <2>3
  <2> HIDE DEF from
  <2>7. MayFollow(a, 0, l, CRef_Undef)
    BY <2>4, <2>5, <2>6, <1>1, MayFollowClause
  <2> QED BY <2>1, <2>7, <1>1, MeetsAdd
<1> QED BY <1>2, <1>3

\* A unit clause that is visited (propagate).
LEMMA PropagateMeets ==
    ASSUME StepInv, propagateUnit, NEW a, Stays(a)
    PROVE  MeetsTrail(a)'
<1>1. TypedTrail(trail, trail_lim) /\ a \in [Atoms -> BOOLEAN] /\ MeetsTrail(a) /\ MeetsClauses(a)
  BY Typed, StaysFacts
<1>2. PICK h \in watchers : Adds(decisionLevel, Visited(h)[1], LitsOf(db[h]) \ {Visited(h)[1]})
  BY PropagateStep
<1> DEFINE l == Visited(h)[1]
           from == LitsOf(db[h]) \ {l}
<1>3. h \in DOMAIN db /\ LitsOf(db[h]) \in SUBSET Literal /\ l \in LitsOf(db[h])
  BY Clauses, Visit DEF StepInv
<1>4. l \in Literal /\ from \in SUBSET Literal
  BY <1>3
<1>5. Holds(a, l) \/ \E m \in from : Holds(a, m)
  BY <1>1, <1>3 DEF MeetsClauses
<1> HIDE DEF l, from
<1>6. Adds(decisionLevel, l, from)
  BY <1>2 DEF l, from
<1>7. \A m \in from : FalseNow(m)
  <2>1. from # CRef_Undef /\ from # CRef_Fake
    BY <1>4, CoreSMTSolverAssumption
  <2>2. \A m \in from : \E j \in DOMAIN Kept(decisionLevel) : Kept(decisionLevel)[j].lit = Negated(m)
    BY <1>6, <2>1 DEF Adds, Addable
  <2>3. Kept(decisionLevel) = trail
    BY <1>1, Whole
  <2> QED BY <2>2, <2>3 DEF FalseNow, OnTrail
<1>8. decisionLevel = 0 => \A m \in from : LevelOf(m) = 0
  BY <1>1, <1>4, <1>7, LevelHere
<1>9. MayFollow(a, decisionLevel, l, from)
  BY <1>1, <1>4, <1>5, <1>7, <1>8, MayFollowClause
<1> QED BY <1>1, <1>6, <1>9, MeetsAdd

\* The asserting literal of a learnt clause (learn).
LEMMA LearnMeets ==
    ASSUME StepInv, learn, NEW a, Stays(a)
    PROVE  MeetsTrail(a)'
<1>1. TypedTrail(trail, trail_lim) /\ a \in [Atoms -> BOOLEAN] /\ MeetsTrail(a) /\ MeetsResolvent(a)
  BY Typed, StaysFacts
<1>2. PICK asserting \in Open :
          /\ Open = {asserting}
          /\ Adds(backtrackLevel(Rest), asserting, IF Rest = {} THEN CRef_Undef ELSE Rest)
  BY LearnStep
<1>3. pc = "analyze"
  BY DEF learn
<1>4. Holds(a, asserting) \/ \E m \in Rest : Holds(a, m)
  BY <1>1, <1>2, <1>3, LearntHolds
<1>5. /\ Rest \in SUBSET Literal /\ Rest \in SUBSET seen
      /\ backtrackLevel(Rest) > 0 <=> Rest # {}
      /\ backtrackLevel(Rest) \in 0..decisionLevel
  BY RestPlaces
<1>6. asserting \in Literal /\ \A m \in Rest : FalseNow(m)
  BY <1>5, SeenPlaces DEF Open
<1> DEFINE k == backtrackLevel(Rest)
           reason == IF Rest = {} THEN CRef_Undef ELSE Rest
<1>7. k = 0 <=> Rest = {}
  BY <1>5, <1>1, Places
<1>8. reason = Rest \/ (k = 0 /\ reason = CRef_Undef)
  BY <1>7
<1>9. Adds(k, asserting, reason)
  BY <1>2
<1> HIDE DEF k, reason
<1>10. MayFollow(a, k, asserting, reason)
  BY <1>1, <1>4, <1>5, <1>6, <1>7, <1>8, MayFollowClause
<1> QED BY <1>1, <1>9, <1>10, MeetsAdd

\* A literal that the theory deduced (deduceTheory).
LEMMA DeduceMeets ==
    ASSUME StepInv, deduceTheory, NEW a, Stays(a)
    PROVE  MeetsTrail(a)'
<1>1. TypedTrail(trail, trail_lim) /\ a \in [Atoms -> BOOLEAN] /\ MeetsTrail(a) /\ MeetsDeductions(a)
  BY Typed, StaysFacts
<1>2. CASE trail' = trail
  BY <1>1, <1>2 DEF MeetsTrail
<1>3. CASE trail' # trail
  <2> DEFINE d == deductions_next + 1
             l == th_deductions[d]
  <2>1. d \in DOMAIN th_deductions /\ Adds(decisionLevel, l, CRef_Fake)
    BY <1>3, DeduceStep
  <2>2. Len(given) \in 0..Len(given)
    BY DEF StepInv, TypeOK
  <2>3. Holds(a, l) \/ \E j \in 1..Len(given) : ~ Holds(a, given[j])
    BY <1>1, <2>1, <2>2 DEF MeetsDeductions
  <2>4. \A j \in 1..Len(given) : given[j] \in Given
    BY DEF Given, StepInv, TypeOK
  <2>5. \A j \in 1..Len(given) : \E i \in DOMAIN trail : trail[i].lit = given[j]
    BY <2>4, GivenTrue DEF TrueNow, OnTrail
  <2> HIDE DEF l
  <2>6. Holds(a, l) \/ \E i \in DOMAIN trail : ~ Holds(a, trail[i].lit)
    BY <2>3, <2>5
  <2>7. decisionLevel = 0 => \A i \in DOMAIN trail : Holds(a, trail[i].lit)
    <3> SUFFICES ASSUME decisionLevel = 0, NEW i \in DOMAIN trail PROVE Holds(a, trail[i].lit)
      OBVIOUS
    <3>1. trail[i].level \in 0..decisionLevel
      BY <1>1, Places
    <3>2. trail[i].level = 0
      BY <3>1
    <3> QED BY <3>2, <1>1 DEF MeetsTrail, Meets
  <2>8. Kept(decisionLevel) = trail
    BY <1>1, Whole
  <2>9. MayFollow(a, decisionLevel, l, CRef_Fake)
    BY <2>6, <2>7, <2>8 DEF MayFollow
  <2> QED BY <2>1, <2>9, <1>1, MeetsAdd DEF l
<1> QED BY <1>2, <1>3

\* A clause of the theory holds in every assignment that the theory allows.
LEMMA SplitHolds ==
    ASSUME StepInv, new_splits # <<>>, NEW a \in Models
    PROVE  \E l \in Head(new_splits) : Holds(a, l)
BY SplitClause DEF Models

\* A clause of the theory that is unit at level 0 (addUnitSplit).
LEMMA UnitSplitMeets ==
    ASSUME StepInv, addUnitSplit, NEW a, Stays(a)
    PROVE  MeetsTrail(a)'
<1>1. TypedTrail(trail, trail_lim) /\ a \in [Atoms -> BOOLEAN] /\ MeetsTrail(a) /\ a \in Models /\ new_splits # <<>>
  BY Typed, StaysFacts DEF addUnitSplit
<1>2. PICK implied \in Head(new_splits) :
          LET rest == Head(new_splits) \ {implied}
              level == backtrackLevel(rest)
          IN  /\ \A l \in rest : FalseNow(l) /\ LevelOf(l) <= level
              /\ level \in 0..decisionLevel
              /\ level = 0 => Adds(0, implied, CRef_Undef)
              /\ level # 0 => Cuts(level)
  BY UnitSplitStep
<1> DEFINE rest == Head(new_splits) \ {implied}
           level == backtrackLevel(rest)
<1>3. Head(new_splits) \in SUBSET Literal /\ \E l \in Head(new_splits) : Holds(a, l)
  BY <1>1, SplitClause, SplitHolds
<1>4. implied \in Literal /\ rest \in SUBSET Literal /\ (Holds(a, implied) \/ \E m \in rest : Holds(a, m))
  BY <1>3
<1>5. CASE level # 0
  BY <1>1, <1>2, <1>5, MeetsCut
<1>6. CASE level = 0
  <2>1. \A l \in rest : FalseNow(l) /\ LevelOf(l) <= 0 /\ LevelOf(l) \in 0..decisionLevel
    BY <1>1, <1>2, <1>4, <1>6, Places
  <2>2. \A l \in rest : LevelOf(l) = 0
    BY <2>1, <1>1, Places
  <2>3. Adds(0, implied, CRef_Undef)
    BY <1>2, <1>6
  <2> HIDE DEF rest
  <2>4. MayFollow(a, 0, implied, CRef_Undef)
    BY <1>1, <1>4, <2>1, <2>2, MayFollowClause
  <2> QED BY <1>1, <2>3, <2>4, MeetsAdd
<1> QED BY <1>5, <1>6

\* A literal that such a clause implies (enqueueSplits).
LEMMA EnqueueMeets ==
    ASSUME StepInv, enqueueSplits, NEW a, Stays(a)
    PROVE  MeetsTrail(a)'
<1>1. TypedTrail(trail, trail_lim) /\ a \in [Atoms -> BOOLEAN] /\ MeetsTrail(a) /\ MeetsSplits(a) /\ TypeOK
  BY Typed, StaysFacts DEF StepInv
<1>2. CASE trail' = trail
  BY <1>1, <1>2 DEF MeetsTrail
<1>3. CASE trail' # trail
  <2> DEFINE l == Head(propData).lit
             from == Head(propData).reason
  <2>1. propData # <<>> /\ Adds(decisionLevel, l, from)
    BY <1>3, EnqueueSplitStep
  <2>2. l \in Literal /\ from \in SUBSET Literal /\ Head(propData) = propData[1] /\ 1 \in DOMAIN propData
    BY <2>1, <1>1, PropTyped
  <2>3. Holds(a, l) \/ \E m \in from : Holds(a, m)
    BY <2>2, <1>1 DEF MeetsSplits
  <2>4. \A m \in from : FalseNow(m)
    BY <2>2 DEF StepInv, Resolvents
  <2> HIDE DEF l, from
  <2>5. decisionLevel = 0 => \A m \in from : LevelOf(m) = 0
    BY <1>1, <2>2, <2>4, LevelHere
  <2>6. MayFollow(a, decisionLevel, l, from)
    BY <1>1, <2>2, <2>3, <2>4, <2>5, MayFollowClause
  <2> QED BY <1>1, <2>1, <2>6, MeetsAdd
<1> QED BY <1>2, <1>3

\* Whatever is decided, implied, deduced or undone, the trail is met.
LEMMA MeetsTrailStep ==
    ASSUME StepInv, [Next]_vars, NEW a, Stays(a)
    PROVE  MeetsTrail(a)'
<1>1. TypedTrail(trail, trail_lim) /\ MeetsTrail(a)
  BY Typed, StaysFacts
<1>2. CASE trail' = trail
  BY <1>1, <1>2 DEF MeetsTrail
<1>3. CASE addOriginalClause_ \/ propagateUnit \/ learn \/ deduceTheory \/ addUnitSplit \/ enqueueSplits
  BY <1>3, LoadMeets, PropagateMeets, LearnMeets, DeduceMeets, UnitSplitMeets, EnqueueMeets
<1>4. CASE stop \/ restart \/ clearSearch
  BY <1>1, <1>4, ZeroStep, MeetsCut
<1>5. CASE handleUnsat
  <2>1. trail' = trail \/ \E k : Cuts(k)
    BY <1>5, UnsatStep DEF trailVars
  <2> QED BY <2>1, <1>1, <1>2, MeetsCut
<1>6. CASE assume \/ pickBranchLit
  <2>1. PICK l : Decides(l)
    BY <1>6, DecideStep
  <2> QED BY <2>1, <1>1, MeetsDecision
<1>7. CASE solve_ \/ takeLiteral \/ keepWatch \/ moveWatch \/ falsified \/ propagated
  BY <1>2, <1>7 DEF solve_, takeLiteral, keepWatch, moveWatch, visit, falsified, propagated, trailVars
<1>8. CASE resolve \/ simplify \/ removeSatisfied \/ assertLit \/ handleSat
  BY <1>2, <1>8 DEF resolve, simplify, removeSatisfied, assertLit, handleSat, trailVars
<1>9. CASE handleNewSplitClauses \/ addSplit \/ skipAssumption \/ analyzeFinal \/ complete
  BY <1>2, <1>9 DEF handleNewSplitClauses, addSplit, skipAssumption, analyzeFinal, complete, trailVars
<1>10. CASE UNCHANGED vars
  BY <1>2, <1>10 DEF vars, trailVars
<1> QED BY <1>3, <1>4, <1>5, <1>6, <1>7, <1>8, <1>9, <1>10 DEF Next

-----------------------------------------------------------------------------
(* The clauses.                                                            *)

\* A clause that is stored must hold; nothing else can make the clauses harder to meet.
LEMMA MeetsStored ==
    ASSUME StepInv, NEW a, MeetsClauses(a), NEW S, NEW b \in BOOLEAN, Stores(S, b), \E l \in S : Holds(a, l)
    PROVE  MeetsClauses(a)'
<1>1. /\ DOMAIN db' = 1..(Len(db) + 1) /\ LitsOf(db'[Len(db) + 1]) = S
      /\ \A j \in DOMAIN db : db'[j] = db[j]
  BY StoresEffect
<1>2. Len(db) \in Nat /\ DOMAIN db = 1..Len(db)
  BY Clauses DEF StepInv
<1> SUFFICES ASSUME NEW i \in 1..(Len(db) + 1) PROVE \E l \in LitsOf(db'[i]) : Holds(a, l)
  BY <1>1 DEF MeetsClauses
<1>3. CASE i \in DOMAIN db
  BY <1>1, <1>3 DEF MeetsClauses
<1>4. CASE i = Len(db) + 1
  BY <1>1, <1>4
<1> QED BY <1>2, <1>3, <1>4

\* Reordering or removing clauses keeps them met.
LEMMA MeetsRearranged ==
    ASSUME StepInv, NEW a, MeetsClauses(a),
           \/ db' = db
           \/ \E i \in watchers : Reorders(i)
           \/ \E i \in DOMAIN db : db' = RemoveAt(db, i)
    PROVE  MeetsClauses(a)'
<1>1. CASE db' = db
  BY <1>1 DEF MeetsClauses
<1>2. ASSUME NEW i \in watchers, Reorders(i) PROVE MeetsClauses(a)'
  <2>1. DOMAIN db' = DOMAIN db /\ \A j \in DOMAIN db : LitsOf(db'[j]) = LitsOf(db[j])
    BY <1>2, ReordersEffect
  <2> QED BY <2>1 DEF MeetsClauses
<1>3. ASSUME NEW i \in DOMAIN db, db' = RemoveAt(db, i) PROVE MeetsClauses(a)'
  <2>1. \A j \in DOMAIN db' : \E k \in DOMAIN db : db'[j] = db[k]
    BY <1>3, RemovesEffect
  <2> QED BY <2>1 DEF MeetsClauses
<1> QED BY <1>1, <1>2, <1>3

\* An input clause is stored without literals that are false for good.
LEMMA LoadKeepsMeeting ==
    ASSUME StepInv, addOriginalClause_, NEW a, Stays(a)
    PROVE  MeetsClauses(a)'
<1>1. TypedTrail(trail, trail_lim) /\ a \in [Atoms -> BOOLEAN] /\ MeetsTrail(a) /\ MeetsClauses(a)
  BY Typed, StaysFacts
<1>2. decisionLevel = 0
  BY DEF addOriginalClause_, StepInv, Phases, Loading, decisionLevel
<1>3. Round.clauses[loaded + 1] \in SUBSET Literal
  BY LoadClause
<1>4. PICK m \in Round.clauses[loaded + 1] : Holds(a, m)
  BY DEF Stays
<1>5. ~ FalseNow(m)
  BY <1>1, <1>2, <1>3, <1>4, FalseAtBottom
<1>6. CASE db' = db
  BY <1>1, <1>6, MeetsRearranged
<1>7. CASE db' # db
  <2>1. PICK S \in SUBSET Round.clauses[loaded + 1] :
            Stores(S, FALSE) /\ \A l \in Round.clauses[loaded + 1] \ S : FalseNow(l)
    BY <1>7, LoadClause
  <2>2. m \in S
    BY <1>4, <1>5, <2>1
  <2> QED BY <1>1, <1>4, <2>1, <2>2, MeetsStored
<1> QED BY <1>6, <1>7

\* What was added, learnt or split is met whatever happens to the database.
LEMMA MeetsClausesStep ==
    ASSUME StepInv, [Next]_vars, NEW a, Stays(a)
    PROVE  MeetsClauses(a)'
<1>1. /\ a \in [Atoms -> BOOLEAN] /\ a \in Models
      /\ MeetsTrail(a) /\ MeetsClauses(a) /\ MeetsResolvent(a)
  BY StaysFacts
<1>2. CASE db' = db
  BY <1>1, <1>2, MeetsRearranged
<1>3. ASSUME new_splits # <<>>, Stores(Head(new_splits), FALSE) PROVE MeetsClauses(a)'
  BY <1>1, <1>3, SplitHolds, MeetsStored
<1>4. CASE addOriginalClause_
  BY <1>4, LoadKeepsMeeting
<1>5. CASE keepWatch \/ moveWatch \/ propagateUnit \/ falsified
  BY <1>1, <1>5, VisitStep, MeetsRearranged
<1>6. CASE learn
  <2>1. PICK asserting \in Open : Open = {asserting} /\ db' = Stored(asserting, Rest)
    BY <1>6, LearnStep
  <2>2. pc = "analyze"
    BY <1>6 DEF learn
  <2>3. Holds(a, asserting) \/ \E m \in Rest : Holds(a, m)
    BY <1>1, <2>1, <2>2, LearntHolds
  <2>4. \E l \in {asserting} \cup Rest : Holds(a, l)
    BY <2>3
  <2>5. CASE Stores({asserting} \cup Rest, TRUE)
    BY <1>1, <2>4, <2>5, MeetsStored
  <2> QED BY <2>1, <2>5, <1>2, LearnClause
<1>7. CASE addUnitSplit
  <2>1. CASE db' # db
    <3>1. new_splits # <<>>
      BY <1>7 DEF addUnitSplit
    <3>2. Stores(Head(new_splits), FALSE)
      BY <2>1, <3>1, <1>7, UnitSplitStep, UnitSplitClause
    <3> QED BY <3>1, <3>2, <1>3
  <2> QED BY <2>1, <1>2
<1>8. CASE addSplit
  <2>1. new_splits # <<>>
    BY <1>8 DEF addSplit
  <2> QED BY <2>1, <1>3, <1>8, OtherSplitClause
<1>9. CASE removeSatisfied
  BY <1>1, <1>9, SatisfiedOne, MeetsRearranged
<1>10. CASE solve_ \/ takeLiteral \/ propagated \/ resolve \/ stop \/ restart \/ simplify
  BY <1>2, <1>10 DEF solve_, takeLiteral, propagated, resolve, stop, restart, simplify, clauseVars
<1>11. CASE assertLit \/ handleUnsat \/ handleSat \/ deduceTheory \/ handleNewSplitClauses \/ enqueueSplits
  BY <1>2, <1>11
     DEF assertLit, handleUnsat, handleSat, deduceTheory, handleNewSplitClauses, enqueueSplits, clauseVars
<1>12. CASE skipAssumption \/ assume \/ analyzeFinal \/ pickBranchLit \/ complete \/ clearSearch
  BY <1>2, <1>12 DEF skipAssumption, assume, analyzeFinal, pickBranchLit, complete, clearSearch, clauseVars
<1>13. CASE UNCHANGED vars
  BY <1>2, <1>13 DEF vars, clauseVars
<1> QED BY <1>4, <1>5, <1>6, <1>7, <1>8, <1>9, <1>10, <1>11, <1>12, <1>13 DEF Next

-----------------------------------------------------------------------------
(* The deductions of the theory solver.                                    *)

\* What a step does to the deductions: nothing, it empties or extends them, or it takes some back.
TheoryMoves ==
    \/ UNCHANGED <<given, th_deductions, deductions_marks>>
    \/ solve_ \/ assertLit
    \/ \E n \in 0..Len(trail) : backtrack(n)

\* Every step does one of these to the deductions (cancelUntil, assertLit, solve_).
LEMMA TheoryMovesStep == ASSUME StepInv, [Next]_vars PROVE TheoryMoves
<1>1. ASSUME NEW k, cancelUntil(k), k \in 0..decisionLevel PROVE TheoryMoves
  <2>1. KeptAt(k) \in 0..Len(trail)
    BY <1>1, Typed, KeptPart
  <2>2. CASE decisionLevel > k
    BY <2>1, <2>2, <1>1 DEF cancelUntil, TheoryMoves
  <2>3. CASE ~ (decisionLevel > k)
    BY <2>3, <1>1 DEF cancelUntil, theoryVars, tsolverVars, TheoryMoves
  <2> QED BY <2>2, <2>3
<1>2. CASE solve_ \/ assertLit
  BY <1>2 DEF TheoryMoves
<1>3. CASE learn
  <2>1. PICK asserting \in Open : cancelUntil(backtrackLevel(Rest))
    BY <1>3, LearnStep
  <2>2. backtrackLevel(Rest) \in 0..decisionLevel
    BY RestPlaces
  <2> QED BY <2>1, <2>2, <1>1
<1>4. CASE stop \/ restart
  BY <1>1, <1>4, ZeroStep DEF stop, restart
<1>5. CASE clearSearch
  <2>1. 0 \in 0..Len(trail)
    BY Typed, Places
  <2> QED BY <2>1, <1>5 DEF clearSearch, TheoryMoves
<1>6. CASE handleUnsat
  <2>1. (UNCHANGED <<given, th_deductions, deductions_marks>>) \/ \E k : cancelUntil(k) /\ k \in 0..decisionLevel
    BY <1>6, UnsatStep DEF Cuts
  <2> QED BY <2>1, <1>1 DEF TheoryMoves
<1>7. CASE addUnitSplit
  BY <1>1, <1>7, UnitSplitStep
<1>8. CASE addOriginalClause_ \/ takeLiteral \/ keepWatch \/ moveWatch \/ propagateUnit \/ falsified \/ propagated
  BY <1>8
     DEF addOriginalClause_, takeLiteral, keepWatch, moveWatch, propagateUnit, falsified, visit, propagated,
         theoryVars, tsolverVars, TheoryMoves
<1>9. CASE resolve \/ simplify \/ removeSatisfied \/ handleSat \/ deduceTheory \/ handleNewSplitClauses
  BY <1>9
     DEF resolve, simplify, removeSatisfied, handleSat, deduceTheory, handleNewSplitClauses, theoryVars, tsolverVars,
         TheoryMoves
<1>10. CASE addSplit \/ enqueueSplits \/ skipAssumption \/ assume \/ analyzeFinal \/ pickBranchLit \/ complete
  BY <1>10
     DEF addSplit, enqueueSplits, skipAssumption, assume, analyzeFinal, pickBranchLit, complete, theoryVars,
         tsolverVars, TheoryMoves
<1>11. CASE UNCHANGED vars
  BY <1>11 DEF vars, theoryVars, tsolverVars, TheoryMoves
<1> QED BY <1>2, <1>3, <1>4, <1>5, <1>6, <1>7, <1>8, <1>9, <1>10, <1>11 DEF Next

\* The marks, their order and the deductions under them.
LEMMA MarkTypes ==
    ASSUME StepInv
    PROVE  /\ th_deductions \in Seq(Literal) /\ Len(th_deductions) \in Nat
           /\ DOMAIN th_deductions = 1..Len(th_deductions)
           /\ given \in Seq(Literal) /\ Len(given) \in Nat /\ DOMAIN given = 1..Len(given)
           /\ Len(deductions_marks) = Len(given) /\ DOMAIN deductions_marks = 1..Len(given)
           /\ \A i \in DOMAIN deductions_marks : deductions_marks[i].lim \in 0..Len(th_deductions)
           /\ deductions_marks \in Seq([lim : Nat, next : Nat])
<1>1. TSolverTypeOK /\ given \in Seq(Literal) /\ MarksOK /\ Len(deductions_marks) = Len(given)
  BY Pieces DEF TheoryPieces
<1> DEFINE M == [lim : Nat, next : Nat]
<1>2. th_deductions \in Seq(Literal) /\ deductions_marks \in Seq(M) /\ \A x \in M : x.lim \in Nat
  BY <1>1 DEF TSolverTypeOK
<1> HIDE DEF M
<1>3. DOMAIN deductions_marks = 1..Len(given) /\ \A i \in DOMAIN deductions_marks : deductions_marks[i] \in M
  BY <1>1, <1>2, LenProperties, ElementOfSeq
<1>4. \A i \in DOMAIN deductions_marks : deductions_marks[i].lim \in Nat
  BY <1>2, <1>3
<1>5. \A i \in DOMAIN deductions_marks : deductions_marks[i].lim \in 0..Len(th_deductions)
  BY <1>1, <1>2, <1>4, LenProperties DEF MarksOK
<1> QED BY <1>1, <1>2, <1>3, <1>5, LenProperties DEF M

\* Backtracking takes back the deductions whose reasons it takes back.
LEMMA BacktrackMeets ==
    ASSUME StepInv, NEW a, MeetsDeductions(a), NEW n \in 0..Len(trail), backtrack(n)
    PROVE  MeetsDeductions(a)'
<1>1. PICK m \in 0..Len(given) : given' = SubSeq(given, 1, m) /\ TheoryCut(m)
  BY BacktrackStep
<1>2. CASE m = Len(given)
  <2>1. given' = given
    BY <1>1, <1>2, MarkTypes, SubSeqFull
  <2> QED BY <1>1, <1>2, <2>1 DEF TheoryCut, MeetsDeductions
<1>3. CASE m # Len(given)
  <2> DEFINE n2 == deductions_marks[m + 1].lim
             M == [lim : Nat, next : Nat]
  <2>9. /\ th_deductions \in Seq(Literal) /\ Len(th_deductions) \in Nat /\ DOMAIN th_deductions = 1..Len(th_deductions)
        /\ given \in Seq(Literal) /\ deductions_marks \in Seq(M) /\ Len(deductions_marks) = Len(given)
        /\ Len(given) \in Nat /\ DOMAIN deductions_marks = 1..Len(given)
        /\ \A i \in DOMAIN deductions_marks : deductions_marks[i].lim \in 0..Len(th_deductions)
    BY MarkTypes
  <2>10. Len(given) \in Nat
    BY <2>9
  <2>11. m + 1 \in 1..Len(given)
    BY <1>3, <2>10
  <2>1. m + 1 \in DOMAIN deductions_marks /\ n2 \in 0..Len(th_deductions)
    BY <2>9, <2>11
  <2>2. th_deductions' = SubSeq(th_deductions, 1, n2) /\ deductions_marks' = SubSeq(deductions_marks, 1, m)
    BY <1>1, <1>3 DEF TheoryCut
  <2> HIDE DEF n2, M
  <2>3. DOMAIN th_deductions' = 1..n2 /\ \A d \in 1..n2 : d \in DOMAIN th_deductions /\ th_deductions'[d] = th_deductions[d]
    BY <2>1, <2>2, <2>9
  <2>4. Len(given') = m /\ \A j \in 1..m : given'[j] = given[j]
    BY <2>9, <1>1
  <2>5. \A j \in 1..m : deductions_marks'[j] = deductions_marks[j]
    BY <2>9, <2>2
  <2> SUFFICES ASSUME NEW i \in 0..m, NEW d \in 1..n2, i = m \/ d <= deductions_marks'[i + 1].lim
               PROVE  Holds(a, th_deductions'[d]) \/ \E j \in 1..i : ~ Holds(a, given'[j])
    BY <2>3, <2>4 DEF MeetsDeductions
  <2>6. i \in 0..Len(given) /\ d <= deductions_marks[i + 1].lim
    <3>1. CASE i = m
      BY <3>1, <2>9 DEF n2
    <3>2. CASE i # m
      <4>1. i + 1 \in 1..m
        BY <3>2
      <4> QED BY <4>1, <2>5, <3>2
    <3> QED BY <3>1, <3>2
  <2>7. Holds(a, th_deductions[d]) \/ \E j \in 1..i : ~ Holds(a, given[j])
    BY <2>3, <2>6 DEF MeetsDeductions
  <2>8. \A j \in 1..i : j \in 1..m
    OBVIOUS
  <2> QED BY <2>3, <2>4, <2>7, <2>8
<1> QED BY <1>2, <1>3

\* What the theory solver deduces from a literal follows from it and those before.
LEMMA AssertLitMeets ==
    ASSUME StepInv, assertLit, NEW a, Stays(a)
    PROVE  MeetsDeductions(a)'
<1> DEFINE l == trail[Len(stack) + 1].lit
<1>1. /\ th_deductions \in Seq(Literal) /\ Len(th_deductions) \in Nat /\ DOMAIN th_deductions = 1..Len(th_deductions)
      /\ given \in Seq(Literal) /\ Len(given) \in Nat /\ DOMAIN given = 1..Len(given)
      /\ Len(deductions_marks) = Len(given) /\ DOMAIN deductions_marks = 1..Len(given)
      /\ \A i \in DOMAIN deductions_marks : deductions_marks[i].lim \in 0..Len(th_deductions)
      /\ deductions_marks \in Seq([lim : Nat, next : Nat])
  BY MarkTypes
<1>2. a \in Models /\ MeetsDeductions(a) /\ TypeOK
  BY StaysFacts DEF StepInv
<1>3. l \in Literal
  <2>1. Len(stack) \in Nat /\ Len(stack) < Len(trail)
    BY Pieces DEF TheoryPieces, OnStack, assertLit
  <2>2. Len(stack) + 1 \in DOMAIN trail
    BY <2>1, Typed, Places
  <2> QED BY <2>2, Typed, Places
<1> HIDE DEF l
<1>4. CASE l.tr \notin informed
  BY <1>2, <1>4 DEF assertLit, tsolverVars, MeetsDeductions, l
<1>5. CASE l.tr \in informed
  <2>1. /\ given' = Append(given, l) /\ deductions_marks' = Append(deductions_marks, Mark)
        /\ \/ th_deductions' = th_deductions
           \/ \E some \in SUBSET Deducible(Given \cup {l}) : StoreDeductions(SetToSeq(some))
    BY <1>5 DEF assertLit, l
  <2>2. /\ Len(given') = Len(given) + 1 /\ given'[Len(given) + 1] = l
        /\ \A j \in 1..Len(given) : given'[j] = given[j]
    BY <2>1, <1>1, <1>3, AppendProperties
  <2>3. /\ deductions_marks'[Len(given) + 1].lim = Len(th_deductions)
        /\ \A j \in 1..Len(given) : deductions_marks'[j] = deductions_marks[j]
    <3> DEFINE M == [lim : Nat, next : Nat]
    <3>1. Mark \in M /\ Mark.lim = Len(th_deductions)
      BY <1>1, <1>2 DEF TypeOK, TSolverTypeOK, Mark
    <3>2. deductions_marks \in Seq(M)
      BY <1>1
    <3> HIDE DEF M
    <3> QED BY <2>1, <1>1, <3>1, <3>2, AppendProperties
  <2>4. \A d \in DOMAIN th_deductions :
            /\ d \in DOMAIN th_deductions' /\ th_deductions'[d] = th_deductions[d]
            /\ Holds(a, th_deductions[d]) \/ \E j \in 1..Len(given) : ~ Holds(a, given[j])
    <3>1. \A d \in DOMAIN th_deductions : Holds(a, th_deductions[d]) \/ \E j \in 1..Len(given) : ~ Holds(a, given[j])
      BY <1>1, <1>2 DEF MeetsDeductions
    <3>2. ASSUME NEW some \in SUBSET Deducible(Given \cup {l}), StoreDeductions(SetToSeq(some))
          PROVE  \A d \in DOMAIN th_deductions : d \in DOMAIN th_deductions' /\ th_deductions'[d] = th_deductions[d]
      <4>1. some \in SUBSET Literal
        BY DEF Deducible
      <4> DEFINE s == SetToSeq(some)
      <4>2. s \in Seq(Literal) /\ Len(s) \in Nat
        BY <4>1, Listed
      <4>3. th_deductions' = th_deductions \o s
        BY <3>2 DEF StoreDeductions
      <4> HIDE DEF s
      <4> QED BY <4>2, <4>3, <1>1, ConcatProperties
    <3> QED BY <2>1, <3>1, <3>2
  <2>5. ASSUME NEW d \in DOMAIN th_deductions', d \notin DOMAIN th_deductions
        PROVE  Holds(a, th_deductions'[d]) \/ \E j \in 1..(Len(given) + 1) : ~ Holds(a, given'[j])
    <3>1. PICK some \in SUBSET Deducible(Given \cup {l}) : StoreDeductions(SetToSeq(some))
      BY <2>1, <2>5
    <3>2. some \in SUBSET Literal
      BY DEF Deducible
    <3> DEFINE s == SetToSeq(some)
               x == th_deductions'[d]
    <3>3. s \in Seq(Literal) /\ LitsIn(s) = some /\ Len(s) \in Nat /\ DOMAIN s = 1..Len(s)
      BY <3>2, Listed
    <3>4. th_deductions' = th_deductions \o s
      BY <3>1 DEF StoreDeductions
    <3> HIDE DEF s
    <3>5. /\ DOMAIN (th_deductions \o s) = 1..(Len(th_deductions) + Len(s))
          /\ \A k \in 1..(Len(th_deductions) + Len(s)) :
                (th_deductions \o s)[k] = IF k <= Len(th_deductions) THEN th_deductions[k]
                                           ELSE s[k - Len(th_deductions)]
      BY <3>3, <1>1, ConcatProperties, LenProperties
    <3>6. d \in 1..(Len(th_deductions) + Len(s)) /\ ~ (d <= Len(th_deductions))
      BY <3>4, <3>5, <2>5, <1>1
    <3>7. d - Len(th_deductions) \in DOMAIN s /\ x = s[d - Len(th_deductions)]
      BY <3>3, <3>4, <3>5, <3>6, <1>1
    <3>8. x \in some
      BY <3>7, <3>3 DEF LitsIn
    <3> HIDE DEF x
    <3>9. x \in Literal /\ Contradictory((Given \cup {l}) \cup {Negated(x)})
      BY <3>8 DEF Deducible
    <3>10. (Given \cup {l}) \cup {Negated(x)} \in SUBSET Literal
      BY <3>9, <1>1, <1>3, Negation DEF Given
    <3>11. PICK y \in (Given \cup {l}) \cup {Negated(x)} : ~ Holds(a, y)
      BY <3>9, <3>10, <1>2, ExcludedSet
    <3>12. CASE y \in Given
      <4>1. PICK j \in 1..Len(given) : y = given[j]
        BY <3>12, <1>1 DEF Given
      <4>2. j \in 1..(Len(given) + 1) /\ given'[j] = y
        BY <4>1, <2>2, <1>1
      <4> QED BY <4>2, <3>11
    <3>13. CASE y = l
      <4>1. Len(given) + 1 \in 1..(Len(given) + 1)
        BY <1>1
      <4> QED BY <4>1, <3>11, <3>13, <2>2
    <3>14. CASE y = Negated(x)
      <4>1. Holds(a, x)
        BY <3>9, <3>11, <3>14, <1>2, HoldsOne DEF Models
      <4> QED BY <4>1 DEF x
    <3> QED BY <3>11, <3>12, <3>13, <3>14
  <2> SUFFICES ASSUME NEW n \in 0..(Len(given) + 1), NEW d \in DOMAIN th_deductions',
                      n = Len(given) + 1 \/ d <= deductions_marks'[n + 1].lim
               PROVE  Holds(a, th_deductions'[d]) \/ \E j \in 1..n : ~ Holds(a, given'[j])
    BY <2>2 DEF MeetsDeductions
  <2>8. Len(given) \in Nat
    BY <1>1
  <2>6. CASE n = Len(given) + 1
    <3>1. CASE d \in DOMAIN th_deductions
      <4>1. \A j \in 1..Len(given) : j \in 1..n /\ given'[j] = given[j]
        BY <2>2, <2>6, <1>1
      <4> QED BY <3>1, <4>1, <2>4
    <3> QED BY <3>1, <2>5, <2>6
  <2>7. CASE n # Len(given) + 1
    <3>1. n \in 0..Len(given) /\ d <= deductions_marks'[n + 1].lim
      BY <2>7, <1>1
    <3>2. d \in DOMAIN th_deductions' /\ d \in Nat /\ d >= 1
      <4>1. th_deductions' \in Seq(Literal)
        BY AssertLitTheory DEF TheoryPieces, TSolverTypeOK
      <4> QED BY <4>1, LenProperties
    <3>3. deductions_marks'[n + 1].lim \in 0..Len(th_deductions)
      <4>1. CASE n = Len(given)
        BY <4>1, <2>3, <1>1
      <4>2. CASE n # Len(given)
        <5>1. n + 1 \in 1..Len(given)
          BY <3>1, <4>2, <2>8
        <5> QED BY <5>1, <2>3, <1>1
      <4> QED BY <4>1, <4>2
    <3>4. d \in DOMAIN th_deductions
      BY <3>1, <3>2, <3>3, <1>1
    <3>5. n = Len(given) \/ d <= deductions_marks[n + 1].lim
      <4>1. n # Len(given) => n + 1 \in 1..Len(given)
        BY <3>1, <2>8
      <4> QED BY <4>1, <3>1, <2>3
    <3>6. Holds(a, th_deductions[d]) \/ \E j \in 1..n : ~ Holds(a, given[j])
      BY <3>1, <3>4, <3>5, <1>2 DEF MeetsDeductions
    <3>7. \A j \in 1..n : j \in 1..Len(given)
      BY <3>1, <1>1
    <3> QED BY <3>4, <3>6, <3>7, <2>2, <2>4
  <2> QED BY <2>6, <2>7
<1> QED BY <1>4, <1>5

\* No step leaves a deduction without the literals that it follows from.
LEMMA MeetsDeductionsStep ==
    ASSUME StepInv, [Next]_vars, NEW a, Stays(a)
    PROVE  MeetsDeductions(a)'
<1>1. MeetsDeductions(a)
  BY StaysFacts
<1>2. CASE UNCHANGED <<given, th_deductions, deductions_marks>>
  BY <1>1, <1>2 DEF MeetsDeductions
<1>3. CASE solve_
  BY <1>3 DEF solve_, MeetsDeductions
<1> QED BY <1>1, <1>2, <1>3, TheoryMovesStep, AssertLitMeets, BacktrackMeets DEF TheoryMoves

-----------------------------------------------------------------------------
(* What analyze() resolves, and what the split clauses imply.              *)

\* At level 0, what is on the trail holds; so a false literal that holds is above it.
LEMMA TrueAtZero ==
    ASSUME TypedTrail(trail, trail_lim), NEW a \in [Atoms -> BOOLEAN], MeetsTrail(a),
           NEW l \in Literal, TrueNow(l), LevelOf(l) = 0
    PROVE  Holds(a, l)
<1>1. EntryOf(l.tr) \in DOMAIN trail /\ trail[EntryOf(l.tr)].lit = l
  BY Places
<1> QED BY <1>1 DEF MeetsTrail, Meets, LevelOf

\* A false literal that such an assignment satisfies was made false above level 0.
LEMMA FalseHolds ==
    ASSUME TypedTrail(trail, trail_lim), NEW a \in [Atoms -> BOOLEAN], MeetsTrail(a),
           NEW l \in Literal, FalseNow(l), Holds(a, l)
    PROVE  LevelOf(l) > 0
<1>1. LevelOf(l) \in 0..decisionLevel /\ decisionLevel \in Nat
  BY Places
<1>2. LevelOf(l) # 0
  BY FalseAtZero
<1> QED BY <1>1, <1>2

\* A clause that is found false holds in the assignment all the same (propagate).
LEMMA FalsifiedMeets ==
    ASSUME StepInv, NEW a \in [Atoms -> BOOLEAN], MeetsTrail(a), MeetsClauses(a),
           NEW i \in watchers, FalseNow(Visited(i)[1]), Free(Visited(i)) = {}
    PROVE  \E l \in LitsOf(db[i]) : Holds(a, l) /\ FalseNow(l) /\ LevelOf(l) > 0 /\ decisionLevel > 0
<1>1. i \in DOMAIN db /\ LitsOf(db[i]) \in SUBSET Literal
  BY Clauses DEF StepInv
<1>2. PICK l \in LitsOf(db[i]) : Holds(a, l)
  BY <1>1 DEF MeetsClauses
<1>3. l \in Literal /\ FalseNow(l)
  BY <1>1, NoneFree
<1>4. LevelOf(l) > 0
  BY <1>2, <1>3, Typed, FalseHolds
<1>5. LevelOf(l) \in 0..decisionLevel /\ decisionLevel \in Nat
  BY <1>3, Typed, Places
<1>6. decisionLevel > 0
  BY <1>4, <1>5
<1> QED BY <1>2, <1>3, <1>4, <1>6

\* The explanation of a contradiction has a literal that does not hold.
LEMMA ConflictMeets ==
    ASSUME StepInv, NEW a \in [Atoms -> BOOLEAN], a \in Models, MeetsTrail(a), NEW k \in Conflicts(Given)
    PROVE  \E l \in k : ~ Holds(a, l) /\ l \in Literal /\ TrueNow(l) /\ LevelOf(l) > 0
<1>1. TypeOK /\ TypedTrail(trail, trail_lim) /\ Given \in SUBSET Literal
  BY Typed, GivenTrue DEF StepInv
<1>2. PICK l \in k : ~ Holds(a, l)
  BY <1>1, NoContradiction
<1>3. l \in Literal /\ TrueNow(l) /\ l.tr \in Assigned
  BY GivenTrue
<1>4. LevelOf(l) # 0
  BY <1>1, <1>2, <1>3, TrueAtZero
<1>5. LevelOf(l) \in 0..decisionLevel /\ decisionLevel \in Nat
  BY <1>1, <1>3, Places
<1>6. LevelOf(l) > 0
  BY <1>4, <1>5
<1> QED BY <1>2, <1>3, <1>6

\* The reason of a literal holds if the literal does not.
LEMMA ReasonMeets ==
    ASSUME StepInv, NEW a \in [Atoms -> BOOLEAN], a \in Models, MeetsTrail(a),
           NEW i \in DOMAIN trail, trail[i].reason # CRef_Undef, NEW reason \in ReasonsOf(i),
           ~ Holds(a, trail[i].lit)
    PROVE  \E l \in reason : Holds(a, l)
<1>1. TypeOK /\ Meets(a, trail, i) /\ trail[i].lit \in Literal
  BY Typed, Places DEF StepInv, MeetsTrail
<1>2. CASE trail[i].reason # CRef_Fake
  BY <1>1, <1>2 DEF ReasonsOf, Meets
<1>3. CASE trail[i].reason = CRef_Fake
  <2> DEFINE S == {trail[j].lit : j \in 1..Min({i - 1, Len(stack)})} \cap Given
             p == trail[i].lit
  <2>1. PICK why \in ReasonsFor(p, S) : reason = {Negated(l) : l \in why}
    BY <1>3 DEF ReasonsOf
  <2>2. S \cup {Negated(p)} \in SUBSET Literal
    BY <1>1, GivenTrue, Negation
  <2> HIDE DEF S, p
  <2>3. PICK k \in Conflicts(S \cup {Negated(p)}) : why = k \ {Negated(p)}
    BY <2>1 DEF ReasonsFor
  <2>4. PICK l \in k : ~ Holds(a, l)
    BY <2>2, <2>3, <1>1, NoContradiction
  <2>5. Holds(a, Negated(p))
    BY <1>1, HoldsOne DEF p
  <2>6. l \in why /\ l \in Literal
    BY <2>2, <2>3, <2>4, <2>5 DEF Conflicts
  <2>7. Negated(l) \in reason /\ Holds(a, Negated(l))
    BY <2>1, <2>4, <2>6, HoldsOne
  <2> QED BY <2>7
<1> QED BY <1>2, <1>3

\* Resolution keeps a literal that holds (resolve).
LEMMA ResolveMeets ==
    ASSUME StepInv, resolve, NEW a, Stays(a)
    PROVE  MeetsResolvent(a)'
<1>1. /\ a \in [Atoms -> BOOLEAN] /\ a \in Models /\ MeetsTrail(a) /\ MeetsResolvent(a) /\ pc = "analyze"
      /\ TypedTrail(trail, trail_lim)
  BY StaysFacts, Typed DEF resolve
<1>2. PICK one \in Open : Open # {one}
  BY DEF resolve
<1>3. PICK reason \in ReasonsOf(LastOpen) :
          seen' = (seen \ {Negated(trail[LastOpen].lit)}) \cup {l \in reason : LevelOf(l) > 0}
  BY DEF resolve
<1> DEFINE p == trail[LastOpen].lit
<1>4. LastOpen \in DOMAIN trail /\ trail[LastOpen].reason # CRef_Undef
  BY <1>2, Latest
<1>5. p \in Literal /\ reason \in SUBSET Literal /\ \A l \in reason : FalseNow(l)
  BY <1>1, <1>4, Places, ExplainedFalse
<1>6. PICK m \in seen : Holds(a, m)
  BY <1>1 DEF MeetsResolvent
<1>7. CASE m # Negated(p)
  BY <1>3, <1>6, <1>7 DEF MeetsResolvent
<1>8. CASE m = Negated(p)
  <2>1. ~ Holds(a, p)
    BY <1>1, <1>5, <1>6, <1>8, HoldsOne
  <2>2. PICK l \in reason : Holds(a, l)
    BY <1>1, <1>4, <2>1, ReasonMeets
  <2>3. LevelOf(l) > 0
    BY <1>1, <1>5, <2>2, FalseHolds
  <2> QED BY <1>3, <2>2, <2>3 DEF MeetsResolvent
<1> QED BY <1>7, <1>8

\* Whatever the conflict, what is resolved holds in the assignment.
LEMMA MeetsResolventStep ==
    ASSUME StepInv, [Next]_vars, NEW a, Stays(a)
    PROVE  MeetsResolvent(a)'
<1>1. /\ a \in [Atoms -> BOOLEAN] /\ a \in Models /\ MeetsTrail(a) /\ MeetsResolvent(a) /\ MeetsClauses(a)
      /\ TypedTrail(trail, trail_lim)
  BY StaysFacts, Typed
<1>2. CASE pc' # "analyze"
  BY <1>2 DEF MeetsResolvent
<1>3. CASE pc' = pc /\ seen' = seen
  BY <1>1, <1>3 DEF MeetsResolvent
<1>4. CASE falsified
  <2>1. PICK i \in watchers : /\ FalseNow(Visited(i)[1]) /\ Free(Visited(i)) = {}
                              /\ analyze(LitsOf(db[i])) \/ pc' \in {"load", "done"}
    BY <1>4 DEF falsified, zeroLevelConflictHandler, Answer
  <2>2. PICK l \in LitsOf(db[i]) : Holds(a, l) /\ LevelOf(l) > 0
    BY <1>1, <2>1, FalsifiedMeets
  <2>3. CASE analyze(LitsOf(db[i]))
    BY <2>2, <2>3 DEF analyze, MeetsResolvent
  <2> QED BY <2>1, <2>3, <1>2
<1>5. CASE resolve
  BY <1>5, ResolveMeets
<1>6. CASE handleUnsat
  <2>1. CASE zeroLevelConflictHandler
    BY <2>1, <1>2 DEF zeroLevelConflictHandler, Answer
  <2>2. ASSUME NEW k \in Conflicts(Given), analyze({Negated(l) : l \in k}) PROVE MeetsResolvent(a)'
    <3>1. PICK l \in k : ~ Holds(a, l) /\ l \in Literal /\ LevelOf(l) > 0
      BY <1>1, ConflictMeets
    <3>2. Holds(a, Negated(l)) /\ LevelOf(Negated(l)) > 0
      BY <1>1, <3>1, HoldsOne, Negation DEF LevelOf
    <3>3. Negated(l) \in {Negated(m) : m \in k}
      OBVIOUS
    <3>4. Negated(l) \in seen'
      BY <2>2, <3>2, <3>3 DEF analyze
    <3> QED BY <3>2, <3>4 DEF MeetsResolvent
  <2> QED BY <1>6, <2>1, <2>2, UnsatStep
<1>7. CASE addOriginalClause_ \/ solve_ \/ takeLiteral \/ keepWatch \/ moveWatch \/ propagateUnit \/ propagated
  BY <1>2, <1>3, <1>7
     DEF addOriginalClause_, solve_, Answer, takeLiteral, keepWatch, moveWatch, propagateUnit, visit, propagated,
         Propagating
<1>8. CASE learn \/ stop \/ restart \/ simplify \/ removeSatisfied \/ assertLit \/ handleSat
  BY <1>2, <1>3, <1>8
     DEF learn, stop, Answer, restart, simplify, removeSatisfied, assertLit, handleSat
<1>9. CASE handleNewSplitClauses \/ addUnitSplit \/ addSplit
  BY <1>2, <1>3, <1>9 DEF handleNewSplitClauses, addUnitSplit, addSplit
<1>10. CASE deduceTheory \/ enqueueSplits
  <2>1. res # "analyze"
    BY DEF StepInv, TypeOK
  <2> QED BY <1>2, <1>3, <1>10, <2>1 DEF deduceTheory, enqueueSplits
<1>11. CASE skipAssumption \/ assume \/ analyzeFinal \/ pickBranchLit \/ complete \/ clearSearch
  BY <1>2, <1>3, <1>11
     DEF skipAssumption, assume, analyzeFinal, pickBranchLit, complete, clearSearch, NewLevel,
         zeroLevelConflictHandler, Answer
<1>12. CASE UNCHANGED vars
  BY <1>3, <1>12 DEF vars
<1> QED BY <1>4, <1>5, <1>6, <1>7, <1>8, <1>9, <1>10, <1>11, <1>12 DEF Next

\* What the split clauses imply follows from them (addUnitSplit).
LEMMA MeetsSplitsStep ==
    ASSUME StepInv, [Next]_vars, NEW a, Stays(a)
    PROVE  MeetsSplits(a)'
<1>1. a \in Models /\ MeetsSplits(a) /\ TypeOK
  BY StaysFacts DEF StepInv
<1>2. CASE propData' = propData
  BY <1>1, <1>2 DEF MeetsSplits
<1>3. CASE handleNewSplitClauses
  BY <1>3 DEF handleNewSplitClauses, MeetsSplits
<1>4. CASE addUnitSplit
  <2>1. PICK implied \in Head(new_splits) :
            \A k \in DOMAIN propData' :
                \/ \E j \in DOMAIN propData : propData'[k] = propData[j]
                \/ propData'[k].lit = implied /\ propData'[k].reason = Head(new_splits) \ {implied}
    BY <1>4, PropAfter
  <2>2. new_splits # <<>>
    BY <1>4 DEF addUnitSplit
  <2>3. PICK m \in Head(new_splits) : Holds(a, m)
    BY <1>1, <2>2, SplitHolds
  <2>4. Holds(a, implied) \/ \E l \in Head(new_splits) \ {implied} : Holds(a, l)
    BY <2>3
  <2> SUFFICES ASSUME NEW k \in DOMAIN propData'
               PROVE  Holds(a, propData'[k].lit) \/ \E l \in propData'[k].reason : Holds(a, l)
    BY DEF MeetsSplits
  <2>5. CASE \E j \in DOMAIN propData : propData'[k] = propData[j]
    BY <2>5, <1>1 DEF MeetsSplits
  <2>6. CASE propData'[k].lit = implied /\ propData'[k].reason = Head(new_splits) \ {implied}
    BY <2>4, <2>6
  <2> QED BY <2>1, <2>5, <2>6
<1>5. CASE enqueueSplits
  <2>1. (propData # <<>> /\ propData' = Tail(propData)) \/ propData' = propData
    BY <1>5 DEF enqueueSplits
  <2>2. CASE propData # <<>> /\ propData' = Tail(propData)
    <3> DEFINE P == [lit : Literal, reason : SUBSET Literal]
    <3>1. propData \in Seq(P)
      BY <1>1 DEF TypeOK
    <3> HIDE DEF P
    <3>2. \A k \in DOMAIN Tail(propData) : k + 1 \in DOMAIN propData /\ Tail(propData)[k] = propData[k + 1]
      BY <2>2, <3>1, OneLess
    <3> QED BY <1>1, <2>2, <3>2 DEF MeetsSplits
  <2> QED BY <2>1, <2>2, <1>2
<1> QED BY <1>2, <1>3, <1>4, <1>5, ListsChange

-----------------------------------------------------------------------------
(* The solver is found inconsistent only when it is.                       *)

\* An assignment that satisfies what was added shows that it is consistent.
Consistent == ok \/ conflict_frame > 0

\* A clause of the input (addOriginalClause_).
LEMMA LoadConsistent ==
    ASSUME StepInv, addOriginalClause_, NEW a, Stays(a)
    PROVE  Consistent'
<1>1. TypedTrail(trail, trail_lim) /\ a \in [Atoms -> BOOLEAN] /\ MeetsTrail(a) /\ (ok \/ conflict_frame > 0)
  BY Typed, StaysFacts
<1>2. decisionLevel = 0
  BY DEF addOriginalClause_, StepInv, Phases, Loading, decisionLevel
<1>3. Round.clauses[loaded + 1] \in SUBSET Literal
  BY LoadClause
<1>4. PICK m \in Round.clauses[loaded + 1] : Holds(a, m)
  BY DEF Stays
<1>5. ~ FalseNow(m)
  BY <1>1, <1>2, <1>3, <1>4, FalseAtBottom
<1>6. m \in {l \in Round.clauses[loaded + 1] : ~ FalseNow(l)}
  BY <1>4, <1>5
<1>7. UNCHANGED <<ok, conflict_frame>>
  BY <1>6 DEF addOriginalClause_
<1> QED BY <1>1, <1>7 DEF Consistent

\* The theory solver rejects what is on the trail: not all of it is at level 0.
LEMMA UnsatConsistent ==
    ASSUME StepInv, handleUnsat, NEW a, Stays(a)
    PROVE  Consistent'
<1>1. /\ TypedTrail(trail, trail_lim) /\ a \in [Atoms -> BOOLEAN] /\ a \in Models /\ MeetsTrail(a)
      /\ ok \/ conflict_frame > 0
      /\ TypeOK /\ Given \in SUBSET Literal
  BY Typed, StaysFacts, GivenTrue DEF StepInv
<1>2. decisionLevel # 0
  <2> SUFFICES ASSUME decisionLevel = 0 PROVE FALSE
    OBVIOUS
  <2>1. Contradictory(Given)
    BY DEF handleUnsat
  <2>2. PICK l \in Given : ~ Holds(a, l)
    BY <1>1, <2>1, ExcludedSet
  <2>3. l \in Literal /\ TrueNow(l) /\ l.tr \in Assigned
    BY GivenTrue
  <2>4. LevelOf(l) \in 0..0
    BY <1>1, <2>3, Places
  <2>5. LevelOf(l) = 0
    BY <2>4
  <2> QED BY <1>1, <2>2, <2>3, <2>5, TrueAtZero
<1>3. ASSUME NEW k \in Conflicts(Given) PROVE Max({0} \cup {LevelOf(l) : l \in k}) # 0
  <2>1. k \in SUBSET Literal /\ \A l \in k : l.tr \in Assigned
    BY GivenTrue
  <2>2. backtrackLevel(k) \in 0..decisionLevel /\ \A l \in k : LevelOf(l) <= backtrackLevel(k)
    BY <1>1, <2>1, Lowest
  <2>3. PICK l \in k : LevelOf(l) > 0 /\ l \in Literal
    BY <1>1, ConflictMeets
  <2>4. LevelOf(l) \in 0..decisionLevel /\ decisionLevel \in Nat
    BY <1>1, <2>1, <2>3, Places
  <2>5. LevelOf(l) <= backtrackLevel(k)
    BY <2>2
  <2>6. backtrackLevel(k) # 0
    BY <2>2, <2>3, <2>4, <2>5
  <2> QED BY <2>6 DEF backtrackLevel
<1>4. UNCHANGED <<ok, conflict_frame>>
  BY <1>2, <1>3 DEF handleUnsat
<1> QED BY <1>1, <1>4 DEF Consistent

\* No step finds a satisfiable problem inconsistent for good.
LEMMA ConsistentStep ==
    ASSUME StepInv, [Next]_vars, NEW a, Stays(a)
    PROVE  Consistent'
<1>1. a \in [Atoms -> BOOLEAN] /\ MeetsTrail(a) /\ MeetsClauses(a) /\ Consistent /\ conflict_frame \in Nat
  BY StaysFacts DEF Consistent, StepInv, TypeOK
<1>2. CASE UNCHANGED <<ok, conflict_frame>>
  BY <1>1, <1>2 DEF Consistent
<1>3. CASE falsified
  <2>1. PICK i \in watchers : /\ FalseNow(Visited(i)[1]) /\ Free(Visited(i)) = {}
                              /\ pc = "unit" \/ decisionLevel = 0 \/ UNCHANGED <<ok, conflict_frame>>
    BY <1>3 DEF falsified, answerVars
  <2>2. decisionLevel > 0
    BY <1>1, <2>1, FalsifiedMeets
  <2>3. decisionLevel # 0 /\ (pc = "unit" => decisionLevel = 0)
    BY <2>2 DEF StepInv, Phases, Loading, decisionLevel
  <2> QED BY <2>1, <2>3, <1>2
<1>4. CASE analyzeFinal
  <2>1. \E why : conflict_frame' = FrameAfter(why)
    BY <1>4 DEF analyzeFinal, FrameAfter, FramesInWay
  <2> QED BY <1>4, <2>1, FrameBound DEF Consistent
<1>5. CASE clearSearch
  BY <1>1, <1>5 DEF clearSearch, Consistent
<1>6. CASE addOriginalClause_ \/ handleUnsat
  BY <1>6, LoadConsistent, UnsatConsistent
<1>7. CASE solve_ \/ takeLiteral \/ keepWatch \/ moveWatch \/ propagateUnit \/ propagated \/ resolve \/ learn
  BY <1>2, <1>7
     DEF solve_, takeLiteral, keepWatch, moveWatch, propagateUnit, propagated, resolve, learn, answerVars
<1>8. CASE stop \/ restart \/ simplify \/ removeSatisfied \/ assertLit \/ handleSat \/ deduceTheory
  BY <1>2, <1>8
     DEF stop, restart, simplify, removeSatisfied, assertLit, handleSat, deduceTheory, answerVars
<1>9. CASE handleNewSplitClauses \/ addUnitSplit \/ addSplit \/ enqueueSplits
  BY <1>2, <1>9 DEF handleNewSplitClauses, addUnitSplit, addSplit, enqueueSplits, answerVars
<1>10. CASE skipAssumption \/ assume \/ pickBranchLit \/ complete
  BY <1>2, <1>10 DEF skipAssumption, assume, pickBranchLit, complete, answerVars
<1>11. CASE UNCHANGED vars
  BY <1>2, <1>11 DEF vars, answerVars
<1> QED BY <1>3, <1>4, <1>5, <1>6, <1>7, <1>8, <1>9, <1>10, <1>11 DEF Next

-----------------------------------------------------------------------------
(* The assumptions and the levels they decide.                             *)

\* Nothing new is decided.
NoneDecided ==
    \A i \in DOMAIN trail' :
        \/ i \in DOMAIN trail /\ trail'[i] = trail[i]
        \/ trail'[i].level = 0 \/ trail'[i].reason # CRef_Undef

DecidedRight ==
    \A i \in DOMAIN trail :
        Decided(i) /\ trail[i].level <= Len(assumptions) => trail[i].lit = assumptions[trail[i].level]

\* Neither going back nor enqueueing decides anything.
LEMMA CutDecides ==
    ASSUME TypedTrail(trail, trail_lim), NEW k, Cuts(k)
    PROVE  NoneDecided
BY KeptPart DEF Cuts, NoneDecided

\* An enqueued literal that has a reason, or level 0, is no decision (uncheckedEnqueue).
LEMMA AddDecides ==
    ASSUME TypedTrail(trail, trail_lim), NEW k, NEW l, NEW from, Adds(k, l, from)
    PROVE  NoneDecided
<1>1. /\ k \in 0..decisionLevel /\ trail' = Enqueued(Kept(k), l, k, from) /\ (k > 0 => from # CRef_Undef)
      /\ l \in Literal /\ from \in Reasons
  BY DEF Adds, Addable
<1>2. /\ Kept(k) \in Seq(Entry) /\ Len(Kept(k)) = KeptAt(k) /\ KeptAt(k) \in Nat
      /\ \A i \in 1..KeptAt(k) : i \in DOMAIN trail /\ Kept(k)[i] = trail[i]
  <2>1. /\ KeptAt(k) \in 0..Len(trail) /\ Kept(k) \in Seq(Entry) /\ Len(Kept(k)) = KeptAt(k)
        /\ DOMAIN Kept(k) = 1..KeptAt(k) /\ DOMAIN Kept(k) \subseteq DOMAIN trail
        /\ \A i \in 1..KeptAt(k) : Kept(k)[i] = trail[i]
    BY <1>1, KeptPart
  <2>2. KeptAt(k) \in Nat
    BY <2>1
  <2> QED BY <2>1, <2>2
<1> DEFINE e == [lit |-> l, level |-> k, reason |-> from]
<1>3. e \in Entry /\ (e.level = 0 \/ e.reason # CRef_Undef)
  <2>1. k \in Nat
    BY <1>1
  <2> QED BY <1>1, <2>1 DEF Entry
<1>4. trail' = Append(Kept(k), e)
  BY <1>1 DEF Enqueued
<1> HIDE DEF e
<1>5. /\ DOMAIN trail' = 1..(KeptAt(k) + 1) /\ trail'[KeptAt(k) + 1] = e
      /\ \A i \in 1..KeptAt(k) : trail'[i] = Kept(k)[i]
  BY <1>2, <1>3, <1>4, AppendProperties
<1>6. \A i \in 1..(KeptAt(k) + 1) : i \in 1..KeptAt(k) \/ i = KeptAt(k) + 1
  BY <1>2
<1> QED BY <1>2, <1>3, <1>5, <1>6 DEF NoneDecided

\* What is decided stays the assumption of its level, as long as the assumptions are the same.
LEMMA DecidedStays ==
    ASSUME DecidedRight, NoneDecided, Round' = Round
    PROVE  DecidedRight'
<1>1. assumptions' = assumptions
  BY DEF assumptions
<1> SUFFICES ASSUME NEW i \in DOMAIN trail', trail'[i].level > 0, trail'[i].reason = CRef_Undef,
                    trail'[i].level <= Len(assumptions')
             PROVE  trail'[i].lit = assumptions'[trail'[i].level]
  BY DEF DecidedRight, Decided
<1>2. i \in DOMAIN trail /\ trail'[i] = trail[i]
  BY DEF NoneDecided
<1> QED BY <1>1, <1>2 DEF DecidedRight, Decided

\* A decision is that of the next assumption, or above all of them.
LEMMA DecidedMore ==
    ASSUME TypedTrail(trail, trail_lim), DecidedRight, Round' = Round, NEW l, Decides(l),
           decisionLevel + 1 <= Len(assumptions) => l = assumptions[decisionLevel + 1]
    PROVE  DecidedRight'
<1>1. assumptions' = assumptions
  BY DEF assumptions
<1>2. trail \in Seq(Entry) /\ Len(trail) \in Nat /\ DOMAIN trail = 1..Len(trail) /\ decisionLevel \in Nat
  BY Places DEF TypedTrail
<1> DEFINE e == [lit |-> l, level |-> decisionLevel + 1, reason |-> CRef_Undef]
<1>3. e \in Entry /\ e.level = decisionLevel + 1 /\ e.lit = l
  BY <1>2 DEF Decides, Entry, Reasons
<1>4. trail' = Append(trail, e)
  BY DEF Decides, Enqueued
<1> HIDE DEF e
<1>5. /\ DOMAIN trail' = 1..(Len(trail) + 1) /\ trail'[Len(trail) + 1] = e
      /\ \A i \in 1..Len(trail) : trail'[i] = trail[i]
  BY <1>2, <1>3, <1>4, AppendProperties
<1> SUFFICES ASSUME NEW i \in 1..(Len(trail) + 1), trail'[i].level > 0, trail'[i].reason = CRef_Undef,
                    trail'[i].level <= Len(assumptions')
             PROVE  trail'[i].lit = assumptions'[trail'[i].level]
  BY <1>5 DEF DecidedRight, Decided
<1>6. CASE i \in 1..Len(trail)
  BY <1>1, <1>2, <1>5, <1>6 DEF DecidedRight, Decided
<1>7. CASE i = Len(trail) + 1
  BY <1>1, <1>3, <1>5, <1>7
<1> QED BY <1>2, <1>6, <1>7

\* The assumptions are those of the same problem, except when the next check begins.
LEMMA SameRound ==
    ASSUME [Next]_vars
    PROVE  Round' = Round \/ clearSearch
<1>1. problem' = problem
  BY SameProblem
<1>2. CASE round' = round
  BY <1>1, <1>2 DEF Round
<1>3. CASE round' # round /\ ~ clearSearch
  <2>1. CASE addOriginalClause_ \/ solve_ \/ takeLiteral \/ keepWatch \/ moveWatch \/ propagateUnit \/ falsified
    BY <2>1, <1>3
       DEF addOriginalClause_, solve_, takeLiteral, keepWatch, moveWatch, propagateUnit, falsified, visit, inputVars
  <2>2. CASE propagated \/ resolve \/ learn \/ stop \/ restart \/ simplify \/ removeSatisfied \/ assertLit
    BY <2>2, <1>3 DEF propagated, resolve, learn, stop, restart, simplify, removeSatisfied, assertLit, inputVars
  <2>3. CASE handleUnsat \/ handleSat \/ deduceTheory \/ handleNewSplitClauses \/ addUnitSplit \/ addSplit
    BY <2>3, <1>3
       DEF handleUnsat, handleSat, deduceTheory, handleNewSplitClauses, addUnitSplit, addSplit, inputVars
  <2>4. CASE enqueueSplits \/ skipAssumption \/ assume \/ analyzeFinal \/ pickBranchLit \/ complete
    BY <2>4, <1>3 DEF enqueueSplits, skipAssumption, assume, analyzeFinal, pickBranchLit, complete, inputVars
  <2>5. CASE UNCHANGED vars
    BY <2>5, <1>3 DEF vars, inputVars
  <2> QED BY <2>1, <2>2, <2>3, <2>4, <2>5, <1>3 DEF Next
<1> QED BY <1>2, <1>3

\* The levels of the assumptions are decided by them, and by nothing else.
LEMMA DecidedStep ==
    ASSUME StepInv, AssumptionsDecided, [Next]_vars
    PROVE  DecidedRight'
<1>1. TypedTrail(trail, trail_lim) /\ DecidedRight /\ decisionLevel \in Nat /\ Len(assumptions) \in Nat
  BY Typed, Places, Asked DEF AssumptionsDecided, DecidedRight, StepInv
<1>2. CASE clearSearch
  <2>1. Cuts(0) /\ 0 \in 0..decisionLevel
    BY <1>2, ZeroStep
  <2>2. \A i \in DOMAIN trail' : trail'[i].level = 0
    <3>1. \A i \in DOMAIN Kept(0) : i \in DOMAIN trail /\ Kept(0)[i] = trail[i] /\ trail[i].level <= 0
      BY <1>1, <2>1, KeptEntries
    <3>2. \A i \in DOMAIN trail : trail[i].level \in Nat
      BY <1>1, Places
    <3> QED BY <2>1, <3>1, <3>2 DEF Cuts
  <2> QED BY <2>2 DEF DecidedRight, Decided
<1>3. CASE assume
  <2>1. Decides(assumptions[decisionLevel + 1]) /\ Round' = Round
    BY <1>3, DecideStep, SameRound DEF assume, clearSearch
  <2> QED BY <1>1, <2>1, DecidedMore
<1>4. CASE pickBranchLit
  <2>1. PICK l : Decides(l)
    BY <1>4, DecideStep
  <2>2. Round' = Round
    BY <1>4, SameRound DEF pickBranchLit, clearSearch, Deciding
  <2>3. decisionLevel >= Len(assumptions)
    BY <1>4 DEF pickBranchLit, Deciding, AssumptionsDecided
  <2>4. ~ (decisionLevel + 1 <= Len(assumptions))
    BY <1>1, <2>3
  <2> QED BY <1>1, <2>1, <2>2, <2>4, DecidedMore
<1>5. ASSUME NoneDecided, ~ clearSearch PROVE DecidedRight'
  BY <1>1, <1>5, SameRound, DecidedStays
<1>6. ASSUME trail' = trail PROVE NoneDecided
  BY <1>6 DEF NoneDecided
<1>7. CASE addOriginalClause_ \/ propagateUnit \/ learn \/ deduceTheory \/ addUnitSplit \/ enqueueSplits
  <2>1. trail' = trail \/ (\E k, l, from : Adds(k, l, from)) \/ \E k : Cuts(k)
    BY <1>7, LoadStep, PropagateStep, LearnStep, DeduceStep, UnitSplitStep, EnqueueSplitStep
  <2> QED BY <1>1, <1>2, <1>5, <1>6, <2>1, AddDecides, CutDecides
<1>8. CASE stop \/ restart \/ handleUnsat
  <2>1. trail' = trail \/ \E k : Cuts(k)
    BY <1>8, ZeroStep, UnsatStep DEF trailVars
  <2> QED BY <1>1, <1>2, <1>5, <1>6, <2>1, CutDecides
<1>9. CASE trail' = trail
  BY <1>2, <1>5, <1>6, <1>9
<1>10. CASE solve_ \/ takeLiteral \/ keepWatch \/ moveWatch \/ falsified \/ propagated
  BY <1>9, <1>10 DEF solve_, takeLiteral, keepWatch, moveWatch, visit, falsified, propagated, trailVars
<1>11. CASE resolve \/ simplify \/ removeSatisfied \/ assertLit \/ handleSat
  BY <1>9, <1>11 DEF resolve, simplify, removeSatisfied, assertLit, handleSat, trailVars
<1>12. CASE handleNewSplitClauses \/ addSplit \/ skipAssumption \/ analyzeFinal \/ complete
  BY <1>9, <1>12 DEF handleNewSplitClauses, addSplit, skipAssumption, analyzeFinal, complete, trailVars
<1>13. CASE UNCHANGED vars
  BY <1>9, <1>13 DEF vars, trailVars
<1> QED BY <1>2, <1>3, <1>4, <1>7, <1>8, <1>10, <1>11, <1>12, <1>13 DEF Next

\* Every variable has a value only when the assumptions have their levels.
Above == pc \in {"complete", "last"} \/ res = "last" => decisionLevel >= Len(assumptions)

\* Every step leaves it so: the levels of the assumptions are skipped or decided first (skipAssumption,
\* assume), and restart and backtracking leave the phase.
LEMMA AboveStep ==
    ASSUME StepInv, AssumptionsDecided, [Next]_vars
    PROVE  Above'
<1>1. Above /\ Phases
  BY DEF AssumptionsDecided, Above, StepInv
<1>2. CASE pc' \notin {"complete", "last"} /\ res' # "last"
  BY <1>2 DEF Above
<1>3. ASSUME ~ clearSearch, UNCHANGED trail_lim, pc \in {"complete", "last"} \/ res = "last" \/ decisionLevel >= Len(assumptions)
      PROVE  Above'
  <2>1. assumptions' = assumptions /\ decisionLevel' = decisionLevel
    BY <1>3, SameRound DEF decisionLevel, assumptions
  <2>2. decisionLevel >= Len(assumptions)
    BY <1>1, <1>3 DEF Above
  <2> QED BY <2>1, <2>2 DEF Above
<1>4. CASE pc' = pc /\ res' = res /\ UNCHANGED trail_lim /\ ~ clearSearch
  BY <1>2, <1>3, <1>4
<1>5. CASE pc' = pc /\ res' = res /\ pc \notin {"complete", "last"} /\ res # "last"
  BY <1>2, <1>5
<1>6. res \in {"none", "propagate", "decide", "last"} /\ (res = "none" <=> pc \notin {"deduce", "split"})
  BY <1>1 DEF StepInv, TypeOK, Phases
<1>7. CASE addOriginalClause_ \/ solve_ \/ takeLiteral \/ keepWatch \/ moveWatch \/ propagateUnit \/ falsified
  BY <1>2, <1>6, <1>7
     DEF addOriginalClause_, solve_, takeLiteral, keepWatch, moveWatch, propagateUnit, falsified, visit, analyze,
         zeroLevelConflictHandler, Answer, splitVars, Propagating
<1>8. CASE propagated \/ resolve \/ learn \/ stop \/ restart \/ simplify \/ removeSatisfied
  BY <1>2, <1>6, <1>8
     DEF propagated, resolve, learn, stop, restart, simplify, removeSatisfied, Answer, splitVars, Propagating
<1>9. CASE assertLit
  <2>1. ~ clearSearch /\ pc' = pc /\ res' = res /\ UNCHANGED trail_lim
    BY <1>9 DEF assertLit, InCheck, clearSearch, trailVars, splitVars
  <2> QED BY <2>1, <1>4
<1>10. CASE handleUnsat
  <2>1. pc' \in {"done", "analyze"} /\ res' = res /\ pc \notin {"deduce", "split"}
    BY <1>10 DEF handleUnsat, Asserted, InCheck, analyze, zeroLevelConflictHandler, Answer, splitVars
  <2> QED BY <2>1, <1>2, <1>6
<1>11. CASE handleSat
  <2>1. /\ pc' = "deduce" /\ UNCHANGED trail_lim /\ ~ clearSearch
        /\ pc = "complete" \/ res' # "last"
    BY <1>11 DEF handleSat, Accepted, Asserted, InCheck, clearSearch, trailVars
  <2> QED BY <2>1, <1>2, <1>3
<1>12. CASE deduceTheory \/ enqueueSplits
  <2>1. /\ UNCHANGED trail_lim /\ ~ clearSearch
        /\ \/ pc' = pc /\ res' \in {res, "propagate"}
           \/ pc' = res /\ res' = "none"
        /\ pc \in {"deduce", "split"}
    BY <1>12 DEF deduceTheory, enqueueSplits, clearSearch
  <2> QED BY <2>1, <1>2, <1>3, <1>6
<1>13. CASE handleNewSplitClauses
  <2>1. pc = "complete" /\ UNCHANGED trail_lim /\ ~ clearSearch
    BY <1>13 DEF handleNewSplitClauses, clearSearch, trailVars
  <2> QED BY <2>1, <1>3
<1>14. CASE addUnitSplit
  BY <1>2, <1>14 DEF addUnitSplit
<1>15. CASE addSplit
  <2>1. ~ clearSearch /\ pc' = pc /\ res' = res /\ UNCHANGED trail_lim
    BY <1>15 DEF addSplit, clearSearch, trailVars
  <2> QED BY <2>1, <1>4
<1>16. CASE skipAssumption \/ assume \/ analyzeFinal \/ pickBranchLit \/ clearSearch
  BY <1>2, <1>6, <1>16
     DEF skipAssumption, assume, analyzeFinal, pickBranchLit, Deciding, NewLevel, clearSearch,
         zeroLevelConflictHandler, Answer, splitVars
<1>17. CASE complete
  <2>1. /\ UNCHANGED trail_lim /\ ~ clearSearch
        /\ pc = "last" \/ decisionLevel >= Len(assumptions)
    BY <1>17 DEF complete, Deciding, clearSearch, trailVars
  <2> QED BY <2>1, <1>3
<1>18. CASE UNCHANGED vars
  <2>1. CASE clearSearch
    BY <2>1, <1>16
  <2> QED BY <2>1, <1>4, <1>18 DEF vars, trailVars, splitVars
<1> QED
  BY <1>7, <1>8, <1>9, <1>10, <1>11, <1>12, <1>13, <1>14, <1>15, <1>16, <1>17, <1>18 DEF Next

-----------------------------------------------------------------------------
(* The answer that nothing satisfies what was added and assumed.           *)

\* What analyzeFinal() marks: the atom it starts from and, with each, those of its reason.
MarksClosed(why, marks) ==
    \A i \in DOMAIN trail :
        trail[i].lit.tr \in marks /\ trail[i].reason # CRef_Undef
            => {l.tr : l \in IF i \in DOMAIN why THEN why[i] ELSE trail[i].reason} \subseteq marks

Marked(p, why) == {v \in Atoms : \A marks \in SUBSET Atoms : p.tr \in marks /\ MarksClosed(why, marks) => v \in marks}

\* What analyzeFinal marks is closed under the reasons of what it marks.
LEMMA MarkedClosed ==
    ASSUME NEW p, NEW why, NEW i \in DOMAIN trail, trail[i].lit.tr \in Marked(p, why), trail[i].reason # CRef_Undef,
           NEW l \in IF i \in DOMAIN why THEN why[i] ELSE trail[i].reason, l \in Literal
    PROVE  l.tr \in Marked(p, why)
<1>1. l.tr \in Atoms
  BY Negation
<1>2. ASSUME NEW marks \in SUBSET Atoms, p.tr \in marks, MarksClosed(why, marks) PROVE l.tr \in marks
  <2>1. trail[i].lit.tr \in marks
    BY <1>2 DEF Marked
  <2>2. {m.tr : m \in IF i \in DOMAIN why THEN why[i] ELSE trail[i].reason} \subseteq marks
    BY <1>2, <2>1 DEF MarksClosed
  <2> QED BY <2>2
<1> QED BY <1>1, <1>2 DEF Marked

\* What theory reasons analyzeFinal() may get.
Explains(why) ==
    LET fakes == {i \in DOMAIN trail : trail[i].reason = CRef_Fake}
        Before(i) == {trail[j].lit : j \in 1..(i - 1)} \cap Given
    IN  why \in [fakes -> SUBSET Given] /\ \A i \in fakes : why[i] \in ReasonsFor(trail[i].lit, Before(i))

\* The conflict has the negations of the marked decisions that enable a frame.
LEMMA FinalConflictHas ==
    ASSUME NEW p, NEW why
    PROVE  /\ p \in FinalConflict(p, why)
           /\ \A i \in DOMAIN trail, j \in DOMAIN assumptions :
                 (/\ trail[i].lit.tr \in Marked(p, why) /\ trail[i].reason = CRef_Undef
                  /\ ~ assumptions[j].sgn /\ assumptions[j].tr = trail[i].lit.tr)
                     => Negated(trail[i].lit) \in FinalConflict(p, why)
<1> DEFINE Active == {assumptions[j].tr : j \in {h \in DOMAIN assumptions : ~ assumptions[h].sgn}}
           U == {h \in DOMAIN trail : trail[h].lit.tr \in Marked(p, why) \cap Active /\ trail[h].reason = CRef_Undef}
<1>1. FinalConflict(p, why) = {p} \cup {Negated(trail[i].lit) : i \in U}
  BY DEF FinalConflict, Marked, MarksClosed
<1>2. ASSUME NEW i \in DOMAIN trail, NEW j \in DOMAIN assumptions,
             trail[i].lit.tr \in Marked(p, why), trail[i].reason = CRef_Undef,
             ~ assumptions[j].sgn, assumptions[j].tr = trail[i].lit.tr
      PROVE  i \in U
  BY <1>2
<1> HIDE DEF U
<1> QED BY <1>1, <1>2

\* A theory reason of a literal that does not hold has another before it that does not.
LEMMA WhyBefore ==
    ASSUME StepInv, NEW a \in [Atoms -> BOOLEAN], a \in Models, NEW why, Explains(why),
           NEW i \in DOMAIN trail, trail[i].reason = CRef_Fake, ~ Holds(a, trail[i].lit)
    PROVE  i \in DOMAIN why /\ \E l \in why[i] : /\ ~ Holds(a, l) /\ l \in Literal
                                                 /\ \E j \in 1..(i - 1) : trail[j].lit = l
<1> DEFINE S == {trail[j].lit : j \in 1..(i - 1)} \cap Given
           p == trail[i].lit
<1>1. i \in DOMAIN why /\ why[i] \in ReasonsFor(p, S)
  BY DEF Explains
<1>2. p \in Literal /\ TypeOK /\ S \in SUBSET Literal
  BY Typed, Places, GivenTrue DEF StepInv
<1>3. S \cup {Negated(p)} \in SUBSET Literal
  BY <1>2, Negation
<1>4. \A l \in S : \E j \in 1..(i - 1) : trail[j].lit = l
  OBVIOUS
<1> HIDE DEF S
<1>5. PICK k \in Conflicts(S \cup {Negated(p)}) : why[i] = k \ {Negated(p)}
  BY <1>1 DEF ReasonsFor
<1>6. k \subseteq S \cup {Negated(p)} /\ \E l \in k : ~ Holds(a, l)
  BY <1>2, <1>3, NoContradiction
<1>7. PICK l \in k : ~ Holds(a, l)
  BY <1>6
<1>8. Holds(a, Negated(p))
  BY <1>2, HoldsOne
<1>9. l \in why[i] /\ l \in S
  BY <1>5, <1>6, <1>7, <1>8
<1> QED BY <1>1, <1>2, <1>4, <1>7, <1>9

\* analyzeFinal(): the assumptions of the frames up to the one it names cannot all hold.
LEMMA FinalRight ==
    ASSUME StepInv, AssumptionsDecided, analyzeFinal, NEW a \in [Atoms -> BOOLEAN], a \in Models, MeetsTrail(a),
           NEW n, n = conflict_frame', \A l \in Enabled(n) : Holds(a, l)
    PROVE  FALSE
<1> DEFINE p == assumptions[decisionLevel + 1]
<1>1. /\ decisionLevel < Len(assumptions) /\ FalseNow(p)
      /\ \E why : Explains(why) /\ conflict_frame' = FrameAfter(why)
  BY DEF analyzeFinal, Explains, FrameAfter, FramesInWay
<1>2. PICK why : Explains(why) /\ conflict_frame' = FrameAfter(why)
  BY <1>1
<1>3. /\ TypedTrail(trail, trail_lim) /\ ReasonsFalse(trail) /\ decisionLevel \in Nat
      /\ Len(assumptions) \in Nat /\ DOMAIN assumptions = 1..Len(assumptions)
      /\ \A j \in DOMAIN assumptions : assumptions[j] \in Literal
  BY Typed, Places, Asked DEF TypedTrail, StepInv
<1>4. decisionLevel + 1 \in DOMAIN assumptions /\ p \in Literal
  BY <1>1, <1>3
<1>5. n \in Nat /\ \A l \in FinalConflict(Negated(p), why) : l.sgn => Order(l.tr) < n
  BY <1>2, FrameBound DEF FramesInWay
<1>6. \A j \in DOMAIN assumptions :
          assumptions[j].sgn \/ Order(assumptions[j].tr) < n => Holds(a, assumptions[j])
  BY DEF Enabled
<1>7. Holds(a, p)
  <2>1. Negated(p) \in FinalConflict(Negated(p), why)
    BY FinalConflictHas
  <2>2. Negated(p).tr = p.tr /\ Negated(p).sgn = ~ p.sgn
    BY DEF Negated
  <2>3. p.sgn \/ Order(p.tr) < n
    BY <2>1, <2>2, <1>5
  <2> QED BY <2>3, <1>4, <1>6
<1> HIDE DEF p
<1> DEFINE Bad(i) == trail[i].lit.tr \in Marked(Negated(p), why) /\ ~ Holds(a, trail[i].lit)
           B == {i \in DOMAIN trail : Bad(i)}
<1>8. EntryOf(p.tr) \in B
  <2>1. EntryOf(p.tr) \in DOMAIN trail /\ trail[EntryOf(p.tr)].lit = Negated(p)
    BY <1>1, <1>3, <1>4, Places DEF p
  <2>2. ~ Holds(a, Negated(p))
    BY <1>4, <1>7, HoldsOne
  <2>3. Negated(p).tr \in Atoms
    BY <1>4, Negation
  <2>4. Negated(p).tr \in Marked(Negated(p), why)
    BY <2>3 DEF Marked
  <2> QED BY <2>1, <2>2, <2>4
<1>9. B \subseteq DOMAIN trail
  OBVIOUS
<1> HIDE DEF B
<1>10. DOMAIN trail = 1..Len(trail) /\ Len(trail) \in Nat
  BY <1>3, Places
<1>11. B \in SUBSET Nat /\ B # {}
  BY <1>8, <1>9, <1>10
<1>12. PICK i \in B : \A j \in B : i <= j
  BY <1>11, Smallest
<1>13. i \in DOMAIN trail /\ Bad(i) /\ Meets(a, trail, i)
  BY <1>12 DEF B, MeetsTrail
<1>14. ASSUME NEW l \in Literal, l \in IF i \in DOMAIN why THEN why[i] ELSE trail[i].reason,
              trail[i].reason # CRef_Undef, NEW j \in 1..(i - 1), trail[j].lit.tr = l.tr, ~ Holds(a, trail[j].lit)
       PROVE  FALSE
  <2>1. j \in DOMAIN trail /\ j < i
    BY <1>10, <1>13
  <2>2. l.tr \in Marked(Negated(p), why)
    BY <1>13, <1>14, MarkedClosed
  <2>3. j \in B
    BY <2>1, <2>2, <1>14 DEF B
  <2> QED BY <2>1, <2>3, <1>10, <1>12, <1>13
<1>15. CASE trail[i].reason = CRef_Undef
  <2>1. trail[i].level # 0
    BY <1>13 DEF Meets
  <2>2. trail[i].level \in 0..decisionLevel
    BY <1>3, <1>13, Places
  <2>3. trail[i].level > 0 /\ trail[i].level <= Len(assumptions) /\ trail[i].level \in DOMAIN assumptions
    BY <2>1, <2>2, <1>1, <1>3
  <2> DEFINE j == trail[i].level
  <2>4. trail[i].lit = assumptions[j]
    BY <1>13, <1>15, <2>3 DEF AssumptionsDecided, Decided
  <2>5. ~ (assumptions[j].sgn \/ Order(assumptions[j].tr) < n)
    BY <1>6, <1>13, <2>3, <2>4
  <2>6. Negated(trail[i].lit) \in FinalConflict(Negated(p), why)
    BY <1>13, <1>15, <2>3, <2>4, <2>5, FinalConflictHas
  <2>7. Negated(trail[i].lit).tr = assumptions[j].tr /\ Negated(trail[i].lit).sgn
    BY <2>4, <2>5 DEF Negated
  <2> QED BY <2>5, <2>6, <2>7, <1>5
<1>16. CASE trail[i].reason = CRef_Fake
  <2>1. CRef_Fake # CRef_Undef
    BY CoreSMTSolverAssumption
  <2>2. PICK l \in why[i] : i \in DOMAIN why /\ ~ Holds(a, l) /\ l \in Literal /\ \E j \in 1..(i - 1) : trail[j].lit = l
    BY <1>2, <1>13, <1>16, WhyBefore
  <2> QED BY <2>1, <2>2, <1>14, <1>16
<1>17. CASE trail[i].reason \notin {CRef_Undef, CRef_Fake}
  <2>1. PICK l \in trail[i].reason : Holds(a, l)
    BY <1>13, <1>17 DEF Meets
  <2>2. l \in Literal
    <3>1. trail[i] \in Entry
      BY <1>3, <1>13, Places
    <3> QED BY <3>1, <1>17 DEF Entry, Reasons
  <2>3. PICK j \in 1..(i - 1) : trail[j].lit = Negated(l)
    BY <1>3, <1>13, <1>17 DEF ReasonsFalse
  <2>4. trail[j].lit.tr = l.tr /\ ~ Holds(a, trail[j].lit)
    BY <2>1, <2>2, <2>3, Negation, HoldsOne
  <2>5. i \notin DOMAIN why
    BY <1>2, <1>17 DEF Explains
  <2> QED BY <2>2, <2>4, <2>5, <1>14, <1>17
<1> QED BY <1>15, <1>16, <1>17

\* Whenever the answer is l_False, nothing satisfies what was added, or not with the assumptions up to the
\* frame in the way.
LEMMA UnsatRightStep ==
    ASSUME ImpliedInv, [Next]_vars
    PROVE  UnsatAnswersRight'
<1>1. StepInv /\ AssumptionsDecided /\ UnsatAnswersRight /\ StepInv' /\ problem' = problem
  BY StepInvNext, SameProblem DEF ImpliedInv
<1> SUFFICES ASSUME pc' = "done", status' = "l_False",
                    NEW a, a \in Satisfying(IF conflict_frame = 0 THEN {} ELSE Enabled(conflict_frame))'
             PROVE  FALSE
  BY DEF UnsatAnswersRight
<1>2. a \in Satisfying({})' /\ (conflict_frame' # 0 => \A l \in Enabled(conflict_frame)' : Holds(a, l))
  BY DEF Satisfying
<1>3. Stays(a)
  BY <1>1, <1>2, FewerModels DEF Stays, ImpliedInv
<1>4. Consistent' /\ ~ ok' /\ conflict_frame' \in Nat
  BY <1>1, <1>3, ConsistentStep DEF StepInv, Phases, TypeOK
<1>5. conflict_frame' # 0
  BY <1>4 DEF Consistent
<1>6. CASE analyzeFinal
  <2>1. Round' = Round
    BY <1>6, SameRound DEF analyzeFinal, clearSearch
  <2>2. assumptions' = assumptions
    BY <2>1 DEF assumptions
  <2>3. \A v : Order(v)' = Order(v)
    BY <2>2 DEF Order
  <2>4. \A l \in Enabled(conflict_frame') : l \in Enabled(conflict_frame)'
    BY <2>2, <2>3 DEF Enabled
  <2>5. \A l \in Enabled(conflict_frame') : Holds(a, l)
    BY <1>2, <1>5, <2>4
  <2> QED BY <1>1, <1>3, <1>6, <2>5, StaysFacts, FinalRight
<1>7. CASE conflict_frame' = conflict_frame
  <2>1. pc = "done"
    BY <1>1, <1>5, <1>7 DEF StepInv, Phases, TypeOK
  <2>2. ~ clearSearch
    BY DEF clearSearch
  <2>3. UNCHANGED vars
    BY <2>1, <2>2
       DEF Next, addOriginalClause_, solve_, takeLiteral, keepWatch, moveWatch, propagateUnit, falsified, propagated,
           visit, Propagating, resolve, learn, stop, restart, simplify, removeSatisfied, assertLit, handleUnsat,
           handleSat, Accepted, Asserted, InCheck, deduceTheory, handleNewSplitClauses, addUnitSplit, addSplit,
           enqueueSplits, skipAssumption, assume, analyzeFinal, pickBranchLit, complete, Deciding
  <2>4. problem' = problem /\ round' = round /\ loaded' = loaded /\ conflict_frame' = conflict_frame
          /\ status' = status
    BY <2>3 DEF vars, inputVars, answerVars
  <2>5. Round' = Round /\ Models' = Models
    BY <2>4 DEF Round, Models
  <2>6. assumptions' = assumptions /\ Added' = Added
    BY <2>4, <2>5 DEF assumptions, Added
  <2>7. \A v : Order(v)' = Order(v)
    BY <2>6 DEF Order
  <2>8. Enabled(conflict_frame)' = Enabled(conflict_frame)
    BY <2>4, <2>6, <2>7 DEF Enabled
  <2>9. a \in Satisfying(Enabled(conflict_frame))
    BY <1>5, <2>4, <2>5, <2>6, <2>8 DEF Satisfying
  <2> QED BY <1>1, <1>5, <2>1, <2>4, <2>9 DEF UnsatAnswersRight
<1>8. conflict_frame' = conflict_frame \/ analyzeFinal \/ clearSearch
  <2>1. CASE addOriginalClause_ \/ solve_ \/ takeLiteral \/ keepWatch \/ moveWatch \/ propagateUnit \/ falsified
    BY <2>1
       DEF addOriginalClause_, solve_, takeLiteral, keepWatch, moveWatch, propagateUnit, falsified, analyze, answerVars
  <2>2. CASE propagated \/ resolve \/ learn \/ stop \/ restart \/ simplify \/ removeSatisfied \/ assertLit
    BY <2>2 DEF propagated, resolve, learn, stop, restart, simplify, removeSatisfied, assertLit, answerVars
  <2>3. CASE handleUnsat \/ handleSat \/ deduceTheory \/ handleNewSplitClauses \/ addUnitSplit \/ addSplit
    BY <2>3
       DEF handleUnsat, handleSat, deduceTheory, handleNewSplitClauses, addUnitSplit, addSplit, answerVars
  <2>4. CASE enqueueSplits \/ skipAssumption \/ assume \/ pickBranchLit \/ complete
    BY <2>4 DEF enqueueSplits, skipAssumption, assume, pickBranchLit, complete, answerVars
  <2>5. CASE UNCHANGED vars
    BY <2>5 DEF vars, answerVars
  <2> QED BY <2>1, <2>2, <2>3, <2>4, <2>5 DEF Next
<1>9. ~ clearSearch
  BY DEF clearSearch
<1> QED BY <1>6, <1>7, <1>8, <1>9

-----------------------------------------------------------------------------
(* What holds from the beginning to the end.                               *)

\* Every step keeps the invariant.
LEMMA ImpliedInvNext == ASSUME ImpliedInv, [Next]_vars PROVE ImpliedInv'
<1>1. StepInv /\ AssumptionsDecided
  BY DEF ImpliedInv
<1>2. StepInv' /\ UnsatAnswersRight'
  BY <1>1, StepInvNext, UnsatRightStep
<1>3. AssumptionsDecided'
  BY <1>1, DecidedStep, AboveStep DEF AssumptionsDecided, DecidedRight, Above
<1>4. ASSUME NEW a \in Satisfying({})' PROVE MeetsAll(a)'
  <2>1. Stays(a)
    BY <1>1, <1>4, FewerModels DEF Stays, ImpliedInv
  <2>2. MeetsTrail(a)' /\ MeetsClauses(a)' /\ MeetsDeductions(a)' /\ MeetsResolvent(a)' /\ MeetsSplits(a)'
    BY <1>1, <2>1, MeetsTrailStep, MeetsClausesStep, MeetsDeductionsStep, MeetsResolventStep, MeetsSplitsStep
  <2>3. Consistent'
    BY <1>1, <2>1, ConsistentStep
  <2> QED BY <2>2, <2>3 DEF MeetsAll, Consistent
<1> QED BY <1>2, <1>3, <1>4 DEF ImpliedInv

\* The invariant holds at the start.
LEMMA ImpliedInvInit == ASSUME Init PROVE ImpliedInv
<1>1. StepInv
  BY StepInvInit
<1>2. /\ trail = <<>> /\ db = <<>> /\ pc = "load" /\ res = "none" /\ propData = <<>> /\ th_deductions = <<>> /\ ok
  BY DEF Init, TSolverInit
<1>3. AssumptionsDecided /\ UnsatAnswersRight
  BY <1>2 DEF AssumptionsDecided, UnsatAnswersRight
<1>4. \A a \in Satisfying({}) : MeetsAll(a)
  BY <1>2 DEF MeetsAll, MeetsTrail, MeetsClauses, MeetsDeductions, MeetsResolvent, MeetsSplits
<1> QED BY <1>1, <1>3, <1>4 DEF ImpliedInv

\* An assignment that satisfies what was added disagrees with the trail first at a decision, and that is
\* at the level of the literal it disagrees with or below.
LEMMA FirstDecided ==
    ASSUME StepInv, NEW a \in [Atoms -> BOOLEAN], MeetsTrail(a), NEW i \in DOMAIN trail, ~ Holds(a, trail[i].lit)
    PROVE  \E j \in 1..i : Decided(j) /\ trail[j].level <= trail[i].level /\ ~ Holds(a, trail[j].lit)
<1>1. TypedTrail(trail, trail_lim) /\ ReasonsFalse(trail) /\ Levelled(trail, trail_lim)
  BY Typed DEF TypedTrail
<1>2. DOMAIN trail = 1..Len(trail) /\ Len(trail) \in Nat /\ \A j \in DOMAIN trail : trail[j].level \in Nat
  BY <1>1, Places
<1> DEFINE B == {j \in DOMAIN trail : ~ Holds(a, trail[j].lit)}
<1>3. B \subseteq DOMAIN trail /\ i \in B
  OBVIOUS
<1> HIDE DEF B
<1>4. B \in SUBSET Nat /\ B # {}
  BY <1>2, <1>3
<1>5. PICK j \in B : \A m \in B : j <= m
  BY <1>4, Smallest
<1>6. j \in DOMAIN trail /\ ~ Holds(a, trail[j].lit) /\ Meets(a, trail, j)
  BY <1>5 DEF B, MeetsTrail
<1>7. j \in 1..i
  BY <1>2, <1>3, <1>5, <1>6
<1>8. \A m \in 1..(j - 1) : m \in DOMAIN trail /\ Holds(a, trail[m].lit)
  <2> SUFFICES ASSUME NEW m \in 1..(j - 1), ~ (m \in DOMAIN trail /\ Holds(a, trail[m].lit)) PROVE FALSE
    OBVIOUS
  <2>1. m \in DOMAIN trail /\ m < j
    BY <1>2, <1>6
  <2>2. m \in B
    BY <2>1 DEF B
  <2> QED BY <1>2, <1>5, <1>6, <2>1, <2>2
<1>9. trail[j].reason # CRef_Fake
  BY <1>6, <1>8 DEF Meets
<1>10. trail[j].reason = CRef_Undef
  <2> SUFFICES ASSUME trail[j].reason \notin {CRef_Undef, CRef_Fake} PROVE FALSE
    BY <1>9
  <2>1. PICK l \in trail[j].reason : Holds(a, l)
    BY <1>6 DEF Meets
  <2>2. l \in Literal
    <3>1. trail[j] \in Entry
      BY <1>1, <1>6, Places
    <3> QED BY <3>1 DEF Entry, Reasons
  <2>3. PICK m \in 1..(j - 1) : trail[m].lit = Negated(l)
    BY <1>1, <1>6 DEF ReasonsFalse
  <2> QED BY <1>8, <2>1, <2>2, <2>3, HoldsOne
<1>11. trail[j].level # 0
  BY <1>6 DEF Meets
<1>12. trail[j].level <= trail[i].level
  <2>1. trail[j].level \in 0..Len(trail_lim) /\ trail[i].level \in 0..Len(trail_lim)
    BY <1>1, <1>6 DEF Levelled
  <2> DEFINE k == trail[j].level
  <2>2. k \in DOMAIN trail_lim /\ trail_lim[k] \in Nat
    <3>1. trail_lim \in Seq(0..Len(trail)) /\ Len(trail_lim) \in Nat /\ DOMAIN trail_lim = 1..Len(trail_lim)
      BY <1>1 DEF TypedTrail
    <3>2. k \in DOMAIN trail_lim
      BY <1>11, <2>1, <3>1
    <3>3. trail_lim[k] \in 0..Len(trail)
      BY <3>1, <3>2, ElementOfSeq
    <3> QED BY <3>2, <3>3
  <2>3. trail_lim[k] < j
    BY <1>1, <1>6, <2>1, <2>2 DEF Levelled
  <2>4. trail_lim[k] < i
    BY <1>2, <1>6, <1>7, <2>2, <2>3
  <2>5. k <= trail[i].level
    BY <1>1, <2>2, <2>4 DEF Levelled
  <2> QED BY <2>5
<1>13. trail[j].level > 0
  BY <1>2, <1>6, <1>11
<1> QED BY <1>6, <1>7, <1>10, <1>12, <1>13 DEF Decided

\* The invariant says of all assignments together what AllImplied says.
LEMMA AllFollows == ASSUME ImpliedInv PROVE AllImplied
<1>1. ASSUME NEW a \in Satisfying({}) PROVE a \in [Atoms -> BOOLEAN] /\ StepInv /\ MeetsTrail(a) /\ MeetsClauses(a)
  BY <1>1, Allowed DEF ImpliedInv, MeetsAll
<1>2. TrailImplied
  BY <1>1, FirstDecided DEF TrailImplied
<1>3. ClausesImplied
  BY <1>1 DEF ClausesImplied, MeetsClauses
<1> QED BY <1>2, <1>3 DEF AllImplied

\* For every problem and every way the search can go: each clause of the database, learnt or split, and
\* each literal of the trail follows from what was added and from the decisions at its level and below, so
\* that nothing that backjumping keeps can be wrong (analyze, litRedundant, deduceTheory, cancelUntil).
THEOREM EverythingImplied == Spec => []AllImplied
<1>1. Init => ImpliedInv
  BY ImpliedInvInit
<1>2. ImpliedInv /\ [Next]_vars => ImpliedInv'
  BY ImpliedInvNext
<1>3. ImpliedInv => AllImplied
  BY AllFollows
<1> QED BY <1>1, <1>2, <1>3, PTL DEF Spec

\* When the answer is l_False, no assignment that the theory allows satisfies what was added or, if a frame
\* is named, what was added and the assumptions of the frames below it (handleUnsat, analyzeFinal).
THEOREM UnsatAnswersAlwaysRight == Spec => []UnsatAnswersRight
<1>1. Init => ImpliedInv
  BY ImpliedInvInit
<1>2. ImpliedInv /\ [Next]_vars => ImpliedInv'
  BY ImpliedInvNext
<1>3. ImpliedInv => UnsatAnswersRight
  BY DEF ImpliedInv
<1> QED BY <1>1, <1>2, <1>3, PTL DEF Spec
=============================================================================
