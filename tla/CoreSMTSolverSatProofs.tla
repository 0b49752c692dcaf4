----------------------- MODULE CoreSMTSolverSatProofs -----------------------
(***************************************************************************)
(* Propagation misses no conflict and a model is right, for all problems:  *)
(* the invariant of the two watched literals, through lazy visits,         *)
(* blockers, splits, backjumps and the clauses that a conflict leaves      *)
(* unvisited; and when the search ends with a model, every atom of a       *)
(* clause has a value, every clause that was added is represented, every   *)
(* assumption is on the trail, and the theory was asked about exactly this *)
(* trail.                                                                  *)
(***************************************************************************)
EXTENDS CoreSMTSolverImpliedProofs

\* If the two watched literals of a clause are both false among the first n of the trail, then another
\* one is true, at the level of one of them or below, so that it is there as long as they are; unless the
\* later of them is of a level that is about to be left.
WatchRight(lits, tr, n, late) ==
    \A j, k \in 1..n :
        tr[j].lit = Negated(lits[1]) /\ tr[k].lit = Negated(lits[2])
            => \/ \E m \in DOMAIN tr : /\ tr[m].lit \in LitsIn(lits)
                                       /\ tr[m].level <= tr[j].level \/ tr[m].level <= tr[k].level
               \/ tr[j].level \in late \/ tr[k].level \in late

\* The level that a conflict leaves (analyze).
Late == IF pc = "analyze" THEN {decisionLevel} ELSE {}

\* Only literals of the current level wait to be propagated, the one under way included.
Fresh ==
    /\ \A j \in DOMAIN trail : j > qhead => trail[j].level = decisionLevel
    /\ watchers # {} => trail[qhead].level = decisionLevel

\* No literal waits when propagation has ended, nor later as long as nothing was enqueued.
Caught ==
    /\ pc \in {"stable", "simplify", "early", "decide", "complete", "last"} \/ res \in {"decide", "last"}
           => qhead = Len(trail)
    /\ propData # <<>> => res = "propagate"

\* The clauses that need no visit.
AllRight(tr, n, late) == \A i \in DOMAIN db \ watchers : WatchRight(db[i].lits, tr, n, late)

Propagation == Fresh /\ Caught /\ AllRight(trail, qhead, Late)

\* Once the clauses are inconsistent, nothing is propagated any more.
WatchInv == StepInv /\ (Consistent => Propagation)

-----------------------------------------------------------------------------
(* What the trail does to a clause.                                        *)

\* A trail that grows.
LEMMA RightGrows ==
    ASSUME NEW lits, NEW tr, NEW more, NEW n \in Nat, NEW late, WatchRight(lits, tr, n, late),
           1..n \subseteq DOMAIN tr, DOMAIN tr \subseteq DOMAIN more, \A i \in DOMAIN tr : more[i] = tr[i]
    PROVE  WatchRight(lits, more, n, late)
<1> SUFFICES ASSUME NEW j \in 1..n, NEW k \in 1..n,
                    more[j].lit = Negated(lits[1]), more[k].lit = Negated(lits[2])
             PROVE  \/ \E m \in DOMAIN more : /\ more[m].lit \in LitsIn(lits)
                                              /\ more[m].level <= more[j].level \/ more[m].level <= more[k].level
                    \/ more[j].level \in late \/ more[k].level \in late
  BY DEF WatchRight
<1>1. more[j] = tr[j] /\ more[k] = tr[k]
  OBVIOUS
<1> QED BY <1>1 DEF WatchRight

\* Fewer literals to look at, and more levels to leave.
LEMMA RightFewer ==
    ASSUME NEW lits, NEW tr, NEW n \in Nat, NEW late, WatchRight(lits, tr, n, late),
           NEW p \in Nat, p <= n, NEW later, late \subseteq later
    PROVE  WatchRight(lits, tr, p, later)
<1>1. 1..p \subseteq 1..n
  OBVIOUS
<1> QED BY <1>1 DEF WatchRight

\* A watch that is not false.
LEMMA RightFree ==
    ASSUME NEW lits, NEW tr, NEW n, NEW late,
           (\A j \in 1..n : tr[j].lit # Negated(lits[1])) \/ (\A j \in 1..n : tr[j].lit # Negated(lits[2]))
    PROVE  WatchRight(lits, tr, n, late)
BY DEF WatchRight

\* Cutting the trail back below the levels that are left (cancelUntil).
LEMMA RightCut ==
    ASSUME TypedTrail(trail, trail_lim), NEW lits, NEW k \in 0..decisionLevel, NEW late, \A v \in late : v > k,
           NEW n \in 0..Len(trail), WatchRight(lits, trail, n, late), NEW p \in Nat, p <= n, p <= KeptAt(k)
    PROVE  WatchRight(lits, Kept(k), p, {})
<1>1. /\ KeptAt(k) \in 0..Len(trail) /\ DOMAIN Kept(k) = 1..KeptAt(k) /\ DOMAIN Kept(k) \subseteq DOMAIN trail
      /\ \A i \in 1..KeptAt(k) : Kept(k)[i] = trail[i]
      /\ \A i \in DOMAIN trail : i <= KeptAt(k) <=> trail[i].level <= k
  BY KeptPart
<1>2. /\ DOMAIN trail = 1..Len(trail) /\ Len(trail) \in Nat /\ decisionLevel \in Nat
      /\ \A i \in DOMAIN trail : trail[i].level \in 0..decisionLevel
  BY Places
<1> SUFFICES ASSUME NEW i \in 1..p, NEW j \in 1..p,
                    Kept(k)[i].lit = Negated(lits[1]), Kept(k)[j].lit = Negated(lits[2])
             PROVE  \E m \in DOMAIN Kept(k) :
                       /\ Kept(k)[m].lit \in LitsIn(lits)
                       /\ Kept(k)[m].level <= Kept(k)[i].level \/ Kept(k)[m].level <= Kept(k)[j].level
  BY DEF WatchRight
<1>3. /\ i \in 1..n /\ j \in 1..n /\ i \in DOMAIN trail /\ j \in DOMAIN trail
      /\ Kept(k)[i] = trail[i] /\ Kept(k)[j] = trail[j] /\ trail[i].level <= k /\ trail[j].level <= k
  <2>1. i \in 1..KeptAt(k) /\ j \in 1..KeptAt(k) /\ i \in 1..n /\ j \in 1..n
    BY <1>1, <1>2
  <2>2. i \in DOMAIN trail /\ j \in DOMAIN trail /\ i <= KeptAt(k) /\ j <= KeptAt(k)
    BY <2>1, <1>1, <1>2
  <2> QED BY <2>1, <2>2, <1>1
<1>4. trail[i].level \notin late /\ trail[j].level \notin late
  BY <1>2, <1>3
<1>5. PICK m \in DOMAIN trail : /\ trail[m].lit \in LitsIn(lits)
                                /\ trail[m].level <= trail[i].level \/ trail[m].level <= trail[j].level
  BY <1>3, <1>4 DEF WatchRight
<1>6. trail[m].level <= k
  BY <1>2, <1>3, <1>5
<1>7. m \in 1..KeptAt(k)
  BY <1>1, <1>2, <1>6
<1> QED BY <1>1, <1>3, <1>5, <1>7

\* After a cut, a literal may be enqueued.
LEMMA RightAdded ==
    ASSUME NEW lits, NEW tr \in Seq(Entry), NEW n \in 0..Len(tr), NEW late, WatchRight(lits, tr, n, late),
           NEW l, NEW level, NEW from
    PROVE  WatchRight(lits, Enqueued(tr, l, level, from), n, late)
<1> DEFINE more == Enqueued(tr, l, level, from)
<1>1. /\ Len(tr) \in Nat /\ DOMAIN tr = 1..Len(tr) /\ DOMAIN more = 1..(Len(tr) + 1)
      /\ \A i \in 1..Len(tr) : more[i] = tr[i]
  BY LenProperties DEF Enqueued
<1> HIDE DEF more
<1>2. 1..n \subseteq DOMAIN tr /\ DOMAIN tr \subseteq DOMAIN more /\ \A i \in DOMAIN tr : more[i] = tr[i]
  BY <1>1
<1> QED BY <1>2, RightGrows DEF more

-----------------------------------------------------------------------------
(* The steps that go back.                                                 *)

\* A step that leaves the old clauses right.
OldRight == AllRight(trail', qhead', Late')

Backs == learn \/ stop \/ restart \/ handleUnsat \/ addUnitSplit \/ clearSearch

\* They happen between propagations.
LEMMA BacksPlaces ==
    ASSUME StepInv, Backs
    PROVE  watchers = {} /\ watchers' = {} /\ (pc = "analyze" => learn) /\ (learn => pc' # "analyze")
<1>1. pc \notin {"watch", "unit"} /\ (pc = "analyze" => learn) /\ (learn => pc' # "analyze")
  BY DEF Backs, learn, stop, restart, handleUnsat, addUnitSplit, clearSearch, Asserted, InCheck
<1>2. watchers = {}
  BY <1>1 DEF StepInv, Phases
<1>3. watchers' = watchers
  BY DEF Backs, learn, stop, restart, handleUnsat, addUnitSplit, clearSearch
<1> QED BY <1>1, <1>2, <1>3

\* Going back to a level never takes a literal from the part of the trail that was propagated
\* which does not leave the trail, and leaves none waiting but at that level.
LEMMA CancelQhead ==
    ASSUME StepInv, Fresh, NEW k, Cancels(k)
    PROVE  qhead' \in Nat /\ qhead' <= qhead /\ qhead' <= KeptAt(k) /\ decisionLevel' = k
<1>1. TypedTrail(trail, trail_lim) /\ qhead \in 0..Len(trail)
  BY Typed DEF StepInv, TypeOK
<1>2. k \in 0..decisionLevel /\ qhead' = (IF decisionLevel > k THEN KeptAt(k) ELSE qhead)
  BY DEF Cancels
<1>3. /\ Len(trail) \in Nat /\ DOMAIN trail = 1..Len(trail) /\ decisionLevel \in Nat
      /\ KeptAt(k) \in 0..Len(trail) /\ \A i \in DOMAIN trail : i <= KeptAt(k) <=> trail[i].level <= k
      /\ Len(SubSeq(trail_lim, 1, k)) = k
  BY <1>1, <1>2, Places, KeptPart
<1>4. decisionLevel' = k
  BY <1>3 DEF Cancels, Cuts, Adds, decisionLevel
<1>5. CASE decisionLevel > k
  <2>1. qhead' = KeptAt(k)
    BY <1>2, <1>5
  <2>2. CASE KeptAt(k) > qhead
    <3>1. KeptAt(k) \in DOMAIN trail
      BY <1>1, <1>3, <2>2
    <3>2. trail[KeptAt(k)].level <= k /\ trail[KeptAt(k)].level = decisionLevel
      BY <3>1, <1>3, <2>2 DEF Fresh
    <3> QED BY <3>2, <1>2, <1>3, <1>5
  <2> QED BY <1>1, <1>3, <1>4, <2>1, <2>2
<1>6. CASE ~ (decisionLevel > k)
  <2>1. qhead' = qhead /\ k = decisionLevel
    BY <1>2, <1>3, <1>6
  <2>2. KeptAt(k) = Len(trail)
    BY <1>6 DEF KeptAt
  <2> QED BY <1>1, <1>3, <1>4, <2>1, <2>2
<1> QED BY <1>5, <1>6

\* What waits after going back is of the level that is left.
LEMMA CancelFresh ==
    ASSUME StepInv, Fresh, watchers' = {}, NEW k, Cancels(k)
    PROVE  Fresh'
<1>1. TypedTrail(trail, trail_lim) /\ qhead \in 0..Len(trail) /\ k \in 0..decisionLevel
  BY Typed DEF StepInv, TypeOK, Cancels
<1>2. /\ Len(trail) \in Nat /\ DOMAIN trail = 1..Len(trail) /\ decisionLevel \in Nat
      /\ Kept(k) \in Seq(Entry) /\ Len(Kept(k)) = KeptAt(k) /\ DOMAIN Kept(k) = 1..KeptAt(k)
      /\ DOMAIN Kept(k) \subseteq DOMAIN trail
      /\ KeptAt(k) \in 0..Len(trail) /\ \A i \in 1..KeptAt(k) : Kept(k)[i] = trail[i]
  BY <1>1, Places, KeptPart
<1>3. qhead' \in Nat /\ decisionLevel' = k /\ (decisionLevel > k => qhead' = KeptAt(k))
      /\ (~ (decisionLevel > k) => qhead' = qhead /\ k = decisionLevel)
  BY <1>1, <1>2, CancelQhead DEF Cancels
<1>4. \A i \in DOMAIN Kept(k) : i > qhead' => Kept(k)[i].level = k
  <2> SUFFICES ASSUME NEW i \in DOMAIN Kept(k), i > qhead' PROVE Kept(k)[i].level = k
    OBVIOUS
  <2>1. i \in 1..KeptAt(k) /\ i \in DOMAIN trail /\ Kept(k)[i] = trail[i]
    BY <1>2
  <2>2. ~ (decisionLevel > k)
    BY <1>2, <1>3, <2>1
  <2> QED BY <1>3, <2>1, <2>2 DEF Fresh
<1>5. \A i \in DOMAIN trail' : i > qhead' => trail'[i].level = k
  <2>1. CASE Cuts(k)
    BY <1>4, <2>1 DEF Cuts
  <2>2. ASSUME NEW l \in Literal, NEW from \in Reasons, Adds(k, l, from)
        PROVE  \A i \in DOMAIN trail' : i > qhead' => trail'[i].level = k
    <3> DEFINE e == [lit |-> l, level |-> k, reason |-> from]
    <3>1. trail' = Append(Kept(k), e) /\ e.level = k
      BY <2>2 DEF Adds, Enqueued
    <3> HIDE DEF e
    <3>2. DOMAIN trail' = 1..(KeptAt(k) + 1) /\ trail'[KeptAt(k) + 1] = e
          /\ \A i \in 1..KeptAt(k) : trail'[i] = Kept(k)[i]
      BY <1>2, <3>1
    <3>3. \A i \in DOMAIN trail' : i \in DOMAIN Kept(k) \/ i = KeptAt(k) + 1
      BY <1>2, <3>2
    <3> QED BY <1>2, <1>4, <3>1, <3>2, <3>3
  <2> QED BY <2>1, <2>2 DEF Cancels
<1> QED BY <1>3, <1>5 DEF Fresh

\* The old clauses stay right when the search goes back from levels that are not to be left, or to below them.
LEMMA CancelRight ==
    ASSUME StepInv, Propagation, Backs, NEW k, Cancels(k), pc = "analyze" => k < decisionLevel
    PROVE  OldRight
<1>1. TypedTrail(trail, trail_lim) /\ qhead \in 0..Len(trail) /\ k \in 0..decisionLevel
  BY Typed DEF StepInv, TypeOK, Cancels
<1>2. qhead' \in Nat /\ qhead' <= qhead /\ qhead' <= KeptAt(k)
  BY CancelQhead DEF Propagation
<1>3. /\ Kept(k) \in Seq(Entry) /\ Len(Kept(k)) = KeptAt(k) /\ KeptAt(k) \in 0..Len(trail)
      /\ Len(trail) \in Nat /\ decisionLevel \in Nat
  BY <1>1, KeptPart, Places
<1>4. \A v \in Late : v > k
  BY <1>1, <1>3 DEF Late
<1> SUFFICES ASSUME NEW i \in DOMAIN db \ watchers PROVE WatchRight(db[i].lits, trail', qhead', Late')
  BY DEF OldRight, AllRight
<1>5. WatchRight(db[i].lits, trail, qhead, Late)
  BY DEF Propagation, AllRight
<1>6. WatchRight(db[i].lits, Kept(k), qhead', {})
  BY <1>1, <1>2, <1>4, <1>5, RightCut
<1>7. WatchRight(db[i].lits, trail', qhead', {})
  <2>1. CASE Cuts(k)
    BY <1>6, <2>1 DEF Cuts
  <2>2. ASSUME NEW l \in Literal, NEW from \in Reasons, Adds(k, l, from)
        PROVE  WatchRight(db[i].lits, trail', qhead', {})
    <3>1. trail' = Enqueued(Kept(k), l, k, from)
      BY <2>2 DEF Adds
    <3>2. qhead' \in 0..Len(Kept(k))
      BY <1>2, <1>3
    <3> QED BY <1>3, <1>6, <3>1, <3>2, RightAdded
  <2> QED BY <2>1, <2>2 DEF Cancels
<1> QED BY <1>2, <1>7, RightFewer

\* The steps that go back leave only literals of the level waiting, and the old clauses right.
LEMMA BacksStep ==
    ASSUME StepInv, Propagation, Backs
    PROVE  Fresh' /\ OldRight
<1>1. watchers = {} /\ watchers' = {} /\ (pc = "analyze" => learn) /\ (learn => pc' # "analyze")
  BY BacksPlaces
<1>2. CASE learn
  <2>1. PICK asserting \in Open :
               /\ Open = {asserting} /\ cancelUntil(backtrackLevel(Rest))
               /\ Adds(backtrackLevel(Rest), asserting, IF Rest = {} THEN CRef_Undef ELSE Rest)
    BY <1>2, LearnStep
  <2> DEFINE k == backtrackLevel(Rest)
  <2>2. k \in 0..decisionLevel /\ k < decisionLevel
    BY RestPlaces
  <2>3. order_heap' = Reinserted(k) /\ qhead' = IF decisionLevel > k THEN KeptAt(k) ELSE qhead
    BY <2>1 DEF cancelUntil, cancelLevels
  <2>4. asserting \in Literal /\ (IF Rest = {} THEN CRef_Undef ELSE Rest) \in Reasons
    BY <2>1 DEF Adds, Addable
  <2>5. Cancels(k)
    BY <2>1, <2>2, <2>3, <2>4 DEF Cancels
  <2> QED BY <1>1, <2>2, <2>5, CancelFresh, CancelRight DEF Propagation
<1>3. CASE ~ learn
  <2>1. CASE \E k \in 0..decisionLevel : Cancels(k)
    BY <1>1, <1>3, <2>1, CancelFresh, CancelRight DEF Propagation
  <2>2. CASE UNCHANGED trailVars
    <3>1. trail' = trail /\ trail_lim' = trail_lim /\ qhead' = qhead /\ decisionLevel' = decisionLevel
      BY <2>2 DEF trailVars, decisionLevel
    <3>2. Fresh'
      BY <1>1, <3>1 DEF Fresh, Propagation
    <3>3. Late = {} /\ qhead \in Nat
      BY <1>1, <1>3 DEF Late, StepInv, TypeOK
    <3>4. OldRight
      BY <3>1, <3>3, RightFewer DEF OldRight, AllRight, Propagation
    <3> QED BY <3>2, <3>4
  <2>3. UNCHANGED trailVars \/ \E k \in 0..decisionLevel : Cancels(k)
    BY CancelStep DEF Backs
  <2> QED BY <2>1, <2>2, <2>3
<1> QED BY <1>2, <1>3

-----------------------------------------------------------------------------
(* The other steps.                                                        *)

\* Nothing moves on the trail.
Still ==
    /\ UNCHANGED <<trail, trail_lim, qhead>> /\ watchers' \subseteq watchers
    /\ pc = "analyze" => pc' = "analyze"

\* A literal is enqueued, and waits.
Waits ==
    /\ \E l \in Literal, from \in Reasons : trail' = Enqueued(trail, l, decisionLevel, from)
    /\ UNCHANGED <<trail_lim, qhead>> /\ watchers' \subseteq watchers /\ pc # "analyze"

\* A level is opened when nothing waits.
Opens ==
    /\ pc \in {"decide", "last"} /\ pc' # "analyze" /\ watchers' = watchers
    /\ trail_lim' = Append(trail_lim, Len(trail)) /\ qhead' = qhead
    /\ trail' = trail \/ \E l \in Literal : trail' = Enqueued(trail, l, decisionLevel + 1, CRef_Undef)

\* There is no other step.
LEMMA Kinds ==
    ASSUME StepInv, [Next]_vars
    PROVE  Backs \/ takeLiteral \/ falsified \/ Opens \/ Waits \/ Still
<1>1. CASE addOriginalClause_
  <2>1. UNCHANGED <<trail_lim, qhead>> /\ watchers' = watchers /\ pc # "analyze"
    BY <1>1 DEF addOriginalClause_
  <2>2. CASE trail' # trail
    <3>1. PICK l \in Round.clauses[loaded + 1] : Adds(0, l, CRef_Undef) /\ decisionLevel = 0
      BY <1>1, <2>2, LoadStep
    <3>2. l \in Literal /\ CRef_Undef \in Reasons /\ Kept(0) = trail
      BY <3>1, Typed, Whole DEF Adds, Addable
    <3> QED BY <2>1, <3>1, <3>2 DEF Adds, Waits
  <2> QED BY <2>1, <2>2 DEF Still
<1>2. CASE propagateUnit
  <2>1. PICK i \in watchers : Adds(decisionLevel, Visited(i)[1], LitsOf(db[i]) \ {Visited(i)[1]})
    BY <1>2, PropagateStep
  <2>2. UNCHANGED <<trail_lim, qhead>> /\ watchers' \subseteq watchers /\ pc # "analyze"
    BY <1>2 DEF propagateUnit, visit
  <2>3. Kept(decisionLevel) = trail
    BY Typed, Whole
  <2> QED BY <2>1, <2>2, <2>3 DEF Adds, Addable, Waits
<1>3. CASE deduceTheory
  <2>1. UNCHANGED <<trail_lim, qhead>> /\ watchers' = watchers /\ pc # "analyze"
    BY <1>3 DEF deduceTheory
  <2>2. CASE trail' # trail
    <3>1. Adds(decisionLevel, th_deductions[deductions_next + 1], CRef_Fake)
      BY <1>3, <2>2, DeduceStep
    <3>2. Kept(decisionLevel) = trail
      BY Typed, Whole
    <3> QED BY <2>1, <3>1, <3>2 DEF Adds, Addable, Waits
  <2> QED BY <2>1, <2>2 DEF Still
<1>4. CASE enqueueSplits
  <2>1. UNCHANGED <<trail_lim, qhead>> /\ watchers' = watchers /\ pc # "analyze"
    BY <1>4 DEF enqueueSplits
  <2>2. CASE trail' # trail
    <3>1. Adds(decisionLevel, Head(propData).lit, Head(propData).reason)
      BY <1>4, <2>2, EnqueueSplitStep
    <3>2. Kept(decisionLevel) = trail
      BY Typed, Whole
    <3> QED BY <2>1, <3>1, <3>2 DEF Adds, Addable, Waits
  <2> QED BY <2>1, <2>2 DEF Still
<1>5. CASE assume \/ pickBranchLit
  <2>1. PICK l \in Literal : Decides(l)
    BY <1>5, DecideStep DEF Decides
  <2>2. pc \in {"decide", "last"} /\ pc' = "propagate" /\ watchers' = watchers /\ qhead' = qhead
    BY <1>5 DEF assume, pickBranchLit, Deciding, NewLevel
  <2> QED BY <2>1, <2>2 DEF Decides, Opens
<1>6. CASE skipAssumption
  BY <1>6 DEF skipAssumption, Opens
<1>7. CASE keepWatch \/ moveWatch
  BY <1>7 DEF keepWatch, moveWatch, visit, Still
<1>8. CASE solve_ \/ propagated \/ resolve \/ simplify \/ removeSatisfied
  BY <1>8 DEF solve_, propagated, Propagating, resolve, simplify, removeSatisfied, trailVars, Still
<1>9. CASE assertLit \/ handleSat \/ handleNewSplitClauses \/ addSplit
  BY <1>9 DEF assertLit, handleSat, handleNewSplitClauses, addSplit, Accepted, Asserted, InCheck, trailVars, Still
<1>10. CASE analyzeFinal \/ complete
  BY <1>10 DEF analyzeFinal, complete, Deciding, trailVars, Still
<1>11. CASE UNCHANGED vars
  BY <1>11 DEF vars, trailVars, Still
<1> QED BY <1>1, <1>2, <1>3, <1>4, <1>5, <1>6, <1>7, <1>8, <1>9, <1>10, <1>11 DEF Next, Backs

\* Whatever the step, only literals of the current level wait after it.
LEMMA FreshStep ==
    ASSUME StepInv, Propagation, [Next]_vars
    PROVE  Fresh'
<1>1. /\ Len(trail) \in Nat /\ DOMAIN trail = 1..Len(trail) /\ decisionLevel \in Nat /\ trail \in Seq(Entry)
      /\ qhead \in 0..Len(trail)
  BY Typed, Places DEF StepInv, TypeOK
<1>2. /\ \A j \in DOMAIN trail : j > qhead => trail[j].level = decisionLevel
      /\ watchers # {} => trail[qhead].level = decisionLevel /\ qhead \in DOMAIN trail
  <2>1. watchers # {} => qhead > 0
    BY DEF StepInv, Watched
  <2> QED BY <1>1, <2>1 DEF Propagation, Fresh
<1>3. CASE Still
  BY <1>2, <1>3 DEF Still, Fresh, decisionLevel
<1>4. CASE takeLiteral
  <2>1. trail' = trail /\ trail_lim' = trail_lim /\ qhead' = qhead + 1 /\ qhead < Len(trail)
    BY <1>4 DEF takeLiteral
  <2>2. qhead' \in DOMAIN trail /\ qhead' > qhead /\ \A j \in DOMAIN trail : j > qhead' => j > qhead
    BY <1>1, <2>1
  <2>3. decisionLevel' = decisionLevel
    BY <2>1 DEF decisionLevel
  <2> QED BY <1>2, <2>1, <2>2, <2>3 DEF Fresh
<1>5. CASE falsified
  <2>1. trail' = trail /\ trail_lim' = trail_lim /\ qhead' = Len(trail) /\ watchers' = {}
    BY <1>5 DEF falsified, visit
  <2>2. \A j \in DOMAIN trail : ~ (j > qhead')
    BY <1>1, <2>1
  <2> QED BY <2>1, <2>2 DEF Fresh
<1>6. CASE Waits
  <2>1. PICK l \in Literal, from \in Reasons : trail' = Enqueued(trail, l, decisionLevel, from)
    BY <1>6 DEF Waits
  <2>2. decisionLevel' = decisionLevel /\ qhead' = qhead /\ watchers' \subseteq watchers
    BY <1>6 DEF Waits, decisionLevel
  <2> DEFINE e == [lit |-> l, level |-> decisionLevel, reason |-> from]
  <2>3. trail' = Append(trail, e) /\ e.level = decisionLevel
    BY <2>1 DEF Enqueued
  <2> HIDE DEF e
  <2>4. /\ DOMAIN trail' = 1..(Len(trail) + 1) /\ trail'[Len(trail) + 1] = e
        /\ \A i \in DOMAIN trail : trail'[i] = trail[i]
        /\ \A i \in DOMAIN trail' : i \in DOMAIN trail \/ i = Len(trail) + 1
    BY <1>1, <2>3
  <2> QED BY <1>2, <2>2, <2>3, <2>4 DEF Fresh
<1>7. CASE Opens
  <2>1. qhead = Len(trail) /\ qhead' = qhead /\ watchers' = {}
    BY <1>7 DEF Opens, Propagation, Caught, StepInv, Phases
  <2>2. decisionLevel' = decisionLevel + 1
    BY <1>7, Typed DEF Opens, decisionLevel, TypedTrail
  <2>3. CASE trail' = trail
    <3>1. \A j \in DOMAIN trail : ~ (j > qhead')
      BY <1>1, <2>1
    <3> QED BY <2>1, <2>3, <3>1 DEF Fresh
  <2>4. CASE trail' # trail
    <3>1. PICK l \in Literal : trail' = Enqueued(trail, l, decisionLevel + 1, CRef_Undef)
      BY <1>7, <2>4 DEF Opens
    <3> DEFINE e == [lit |-> l, level |-> decisionLevel + 1, reason |-> CRef_Undef]
    <3>2. trail' = Append(trail, e) /\ e.level = decisionLevel + 1
      BY <3>1 DEF Enqueued
    <3> HIDE DEF e
    <3>3. DOMAIN trail' = 1..(Len(trail) + 1) /\ trail'[Len(trail) + 1] = e
      BY <1>1, <3>2
    <3>4. \A j \in DOMAIN trail' : j > qhead' => j = Len(trail) + 1
      BY <1>1, <2>1, <3>3
    <3> QED BY <2>1, <2>2, <3>2, <3>3, <3>4 DEF Fresh
  <2> QED BY <2>3, <2>4
<1> QED BY <1>3, <1>4, <1>5, <1>6, <1>7, Kinds, BacksStep

\* Nothing waits where the search believes so.
LEMMA CaughtStep ==
    ASSUME StepInv, Propagation, [Next]_vars
    PROVE  Caught'
<1>1. Caught /\ Phases
  BY DEF Propagation, StepInv
<1>2. pc \notin {"deduce", "split"} => res = "none"
  BY <1>1 DEF Phases
<1>3. CASE addOriginalClause_ \/ solve_ \/ takeLiteral \/ keepWatch \/ moveWatch \/ propagateUnit \/ falsified
  BY <1>1, <1>2, <1>3
     DEF Caught, Phases, addOriginalClause_, solve_, takeLiteral, Propagating, keepWatch, moveWatch, propagateUnit,
         falsified, visit, analyze, zeroLevelConflictHandler, Answer, splitVars, trailVars
<1>4. CASE propagated \/ resolve \/ simplify \/ removeSatisfied
  BY <1>1, <1>2, <1>4
     DEF Caught, Phases, propagated, Propagating, resolve, simplify, removeSatisfied, splitVars, trailVars
<1>5. CASE learn \/ stop \/ restart \/ handleUnsat \/ clearSearch
  BY <1>1, <1>2, <1>5
     DEF Caught, Phases, learn, stop, restart, handleUnsat, clearSearch, Asserted, InCheck, analyze,
         zeroLevelConflictHandler, Answer, splitVars
<1>6. CASE assertLit \/ handleSat \/ handleNewSplitClauses
  <2>1. /\ pc \in {"entry", "early", "complete"} /\ UNCHANGED <<trail, qhead>>
        /\ \/ UNCHANGED <<pc, res, propData>>
           \/ pc' = "deduce" /\ propData' = propData /\ (pc = "entry" => res' = "propagate")
           \/ pc' = "split" /\ propData' = <<>> /\ pc = "complete"
    BY <1>6 DEF assertLit, handleSat, handleNewSplitClauses, Accepted, Asserted, InCheck, splitVars, trailVars
  <2>2. propData = <<>>
    BY <1>1, <2>1 DEF Phases
  <2> QED BY <1>1, <1>2, <2>1, <2>2 DEF Caught
<1>7. CASE addUnitSplit \/ addSplit
  BY <1>1, <1>7 DEF Caught, addUnitSplit, addSplit, trailVars
<1>8. CASE enqueueSplits \/ deduceTheory
  <2>1. /\ pc \in {"deduce", "split"} /\ qhead' = qhead /\ (propData' # <<>> => propData # <<>>)
        /\ \/ pc' = pc /\ trail' = trail /\ res' = res
           \/ pc' = pc /\ res' = "propagate"
           \/ pc' = pc /\ propData # <<>> /\ res' = res
           \/ pc' = res /\ trail' = trail /\ res' = "none" /\ propData' = <<>>
    BY <1>1, <1>8 DEF Phases, enqueueSplits, deduceTheory
  <2>2. res \in {"none", "propagate", "decide", "last"}
    BY DEF StepInv, TypeOK
  <2> QED BY <1>1, <2>1, <2>2 DEF Caught
<1>9. CASE skipAssumption \/ assume \/ analyzeFinal \/ pickBranchLit \/ complete
  BY <1>1, <1>2, <1>9
     DEF Caught, Phases, skipAssumption, assume, analyzeFinal, pickBranchLit, complete, Deciding, NewLevel,
         zeroLevelConflictHandler, Answer, splitVars, trailVars
<1>10. CASE UNCHANGED vars
  BY <1>1, <1>10 DEF Caught, vars, splitVars, trailVars
<1> QED BY <1>3, <1>4, <1>5, <1>6, <1>7, <1>8, <1>9, <1>10 DEF Next

\* Steps that only let literals wait, or move nothing, leave the old clauses right.
LEMMA OthersStep ==
    ASSUME StepInv, Propagation, Opens \/ Waits \/ Still
    PROVE  OldRight
<1>1. trail \in Seq(Entry) /\ Len(trail) \in Nat /\ qhead \in 0..Len(trail) /\ qhead \in Nat
  BY Typed, Places DEF StepInv, TypeOK
<1> SUFFICES ASSUME NEW i \in DOMAIN db \ watchers PROVE WatchRight(db[i].lits, trail', qhead', Late')
  BY DEF OldRight, AllRight
<1>2. WatchRight(db[i].lits, trail, qhead, Late) /\ qhead' = qhead
  BY DEF Propagation, AllRight, Opens, Waits, Still
<1>3. Late \subseteq Late'
  BY DEF Late, Opens, Waits, Still, decisionLevel
<1>4. WatchRight(db[i].lits, trail, qhead, Late')
  BY <1>1, <1>2, <1>3, RightFewer
<1>5. trail' = trail \/ \E l, level, from : trail' = Enqueued(trail, l, level, from)
  BY DEF Opens, Waits, Still
<1> QED BY <1>1, <1>2, <1>4, <1>5, RightAdded

-----------------------------------------------------------------------------
(* The clauses that a step stores.                                         *)

\* A clause whose first literal is not false where the trail was propagated.
FirstFree(c) == \A j \in 1..qhead' : trail'[j].lit # Negated(c.lits[1])

\* Every clause after the step is an old one, or has a watch that is free.
OldOrFree ==
    \A j \in DOMAIN db' : (j \in DOMAIN db /\ db'[j] = db[j]) \/ FirstFree(db'[j])

\* A clause is stored with a literal that is not false in front.
LEMMA StoredFree ==
    ASSUME StepInv, NEW c, db' = Append(db, c), FirstFree(c)
    PROVE  OldOrFree
<1>1. db \in Seq(Clause) /\ Len(db) \in Nat /\ DOMAIN db = 1..Len(db)
  BY Clauses DEF StepInv, TypeOK
<1>2. /\ DOMAIN db' = 1..(Len(db) + 1) /\ db'[Len(db) + 1] = c
      /\ \A j \in 1..Len(db) : db'[j] = db[j]
  BY <1>1
<1>3. \A j \in DOMAIN db' : j \in 1..Len(db) \/ j = Len(db) + 1
  BY <1>1, <1>2
<1> QED BY <1>1, <1>2, <1>3 DEF OldOrFree

\* A literal that is not false is not false on a part of the trail.
LEMMA FreeOnPart ==
    ASSUME NEW l, ~ FalseNow(l), NEW c, c.lits[1] = l,
           \A j \in 1..qhead' : j \in DOMAIN trail /\ trail'[j] = trail[j]
    PROVE  FirstFree(c)
BY DEF FirstFree, FalseNow, OnTrail

\* The learnt clause starts with the literal that it asserts, whose atom is not on what is left of the trail.
LEMMA LearnFree ==
    ASSUME StepInv, Propagation, learn
    PROVE  OldOrFree
<1>1. PICK asserting \in Open :
             /\ cancelUntil(backtrackLevel(Rest)) /\ db' = Stored(asserting, Rest)
             /\ Adds(backtrackLevel(Rest), asserting, IF Rest = {} THEN CRef_Undef ELSE Rest)
  BY LearnStep
<1> DEFINE k == backtrackLevel(Rest)
           second == CHOOSE l \in Rest : LevelOf(l) = backtrackLevel(Rest)
           lits == <<asserting, second>> \o SetToSeq(Rest \ {second})
           c == [lits |-> lits, learnt |-> TRUE]
<1>2. k \in 0..decisionLevel /\ k < decisionLevel /\ Rest \in SUBSET Literal
  BY RestPlaces
<1>3. order_heap' = Reinserted(k) /\ qhead' = (IF decisionLevel > k THEN KeptAt(k) ELSE qhead)
  BY <1>1 DEF cancelUntil, cancelLevels
<1>4. asserting \in Literal /\ (IF Rest = {} THEN CRef_Undef ELSE Rest) \in Reasons
  BY <1>1 DEF Adds, Addable
<1>5. Cancels(k)
  BY <1>1, <1>2, <1>3, <1>4 DEF Cancels
<1>6. qhead' \in Nat /\ qhead' <= KeptAt(k)
  BY <1>5, CancelQhead DEF Propagation
<1>7. /\ Kept(k) \in Seq(Entry) /\ Len(Kept(k)) = KeptAt(k) /\ DOMAIN Kept(k) = 1..KeptAt(k)
      /\ KeptAt(k) \in 0..Len(trail) /\ Len(trail) \in Nat
  BY <1>2, Typed, KeptPart, Places
<1>8. \A j \in DOMAIN Kept(k) : trail'[j] = Kept(k)[j] /\ Kept(k)[j].lit.tr # asserting.tr
  <2> DEFINE e == [lit |-> asserting, level |-> k, reason |-> IF Rest = {} THEN CRef_Undef ELSE Rest]
  <2>1. trail' = Append(Kept(k), e) /\ \A j \in DOMAIN Kept(k) : Kept(k)[j].lit.tr # asserting.tr
    BY <1>1 DEF Adds, Addable, Enqueued
  <2> HIDE DEF e
  <2> QED BY <1>7, <2>1
<1>9. \A j \in 1..qhead' : trail'[j].lit.tr # asserting.tr
  <2>1. \A j \in 1..qhead' : j \in DOMAIN Kept(k)
    BY <1>6, <1>7
  <2> QED BY <1>8, <2>1
<1>10. \A j \in 1..qhead' : trail'[j].lit # Negated(asserting)
  BY <1>4, <1>9, Negation
<1>11. CASE Rest = {}
  <2>1. db' = db
    BY <1>1, <1>11 DEF Stored
  <2> QED BY <2>1 DEF OldOrFree
<1>12. CASE Rest # {}
  <2>1. db' = Append(db, c)
    BY <1>1, <1>12 DEF Stored
  <2>2. lits[1] = asserting
    <3>1. SetToSeq(Rest \ {second}) \in Seq(Literal)
      BY <1>2, Listed
    <3> DEFINE b == SetToSeq(Rest \ {second})
    <3> HIDE DEF b, second
    <3>2. second \in {second} \cup Literal /\ b \in Seq({second, asserting} \cup Literal)
      BY <3>1, <1>4 DEF b
    <3>3. <<asserting, second>> \in Seq({second, asserting} \cup Literal) /\ Len(<<asserting, second>>) = 2
      OBVIOUS
    <3>4. (<<asserting, second>> \o b)[1] = <<asserting, second>>[1]
      BY <3>2, <3>3, ConcatProperties
    <3> QED BY <3>4 DEF b
  <2>3. c.lits[1] = asserting
    BY <2>2
  <2> HIDE DEF c, lits
  <2>4. FirstFree(c)
    BY <1>10, <2>3 DEF FirstFree
  <2> QED BY <2>1, <2>4, StoredFree
<1> QED BY <1>11, <1>12

\* A unit clause of the theory solver starts with the literal that it implies.
LEMMA UnitSplitFree ==
    ASSUME StepInv, Propagation, addUnitSplit
    PROVE  OldOrFree
<1>1. PICK implied \in Head(new_splits) :
            LET rest == Head(new_splits) \ {implied}
                level == backtrackLevel(rest)
            IN  /\ Undefined(implied) /\ level \in 0..decisionLevel /\ cancelUntil(level)
                /\ level = 0 => db' = db
                /\ level # 0 => Cuts(level)
                                  /\ db' = Append(db, [lits |-> <<implied>> \o SetToSeq(rest), learnt |-> FALSE])
  BY UnitSplitStep
<1> DEFINE rest == Head(new_splits) \ {implied}
           k == backtrackLevel(rest)
           c == [lits |-> <<implied>> \o SetToSeq(rest), learnt |-> FALSE]
<1>2. CASE k = 0
  BY <1>1, <1>2 DEF OldOrFree
<1>3. CASE k # 0
  <2>1. Cuts(k) /\ db' = Append(db, c) /\ k \in 0..decisionLevel /\ cancelUntil(k) /\ Undefined(implied)
    BY <1>1, <1>3
  <2>2. implied \in Literal /\ rest \in SUBSET Literal
    BY SplitTyped DEF addUnitSplit, StepInv
  <2>3. c.lits[1] = implied
    <3> DEFINE b == SetToSeq(rest)
    <3>1. b \in Seq(Literal)
      BY <2>2, Listed
    <3> HIDE DEF b
    <3>2. (<<implied>> \o b)[1] = <<implied>>[1]
      BY <2>2, <3>1, ConcatProperties
    <3> QED BY <3>2 DEF b
  <2> HIDE DEF c, rest
  <2>4. Cancels(k)
    BY <2>1 DEF Cancels, cancelUntil, cancelLevels
  <2>5. qhead' \in Nat /\ qhead' <= KeptAt(k)
    BY <2>4, CancelQhead DEF Propagation
  <2>6. /\ KeptAt(k) \in 0..Len(trail) /\ \A i \in 1..KeptAt(k) : Kept(k)[i] = trail[i]
        /\ Len(trail) \in Nat /\ DOMAIN trail = 1..Len(trail)
    BY <2>1, Typed, KeptPart, Places
  <2>7. \A j \in 1..qhead' : j \in 1..KeptAt(k) /\ j \in DOMAIN trail
    BY <2>5, <2>6
  <2>8. \A j \in 1..qhead' : j \in DOMAIN trail /\ trail'[j] = trail[j]
    BY <2>1, <2>6, <2>7 DEF Cuts
  <2>9. FirstFree(c)
    BY <2>1, <2>3, <2>8, FreeOnPart DEF Undefined
  <2> QED BY <2>1, <2>9, StoredFree
<1> QED BY <1>2, <1>3

\* Any other clause of the theory solver is attached with a literal in front that is not false.
LEMMA SplitFree ==
    ASSUME StepInv, addSplit
    PROVE  OldOrFree
<1> DEFINE clause == Head(new_splits)
           lits == SetToSeq(clause)
           G == {i \in DOMAIN lits : ~ FalseNow(lits[i])}
           good == Max(G)
           attached == IF FalseNow(lits[1]) THEN [lits EXCEPT ![1] = lits[good], ![good] = lits[1]] ELSE lits
           c == [lits |-> attached, learnt |-> FALSE]
<1>1. /\ new_splits # <<>> /\ trail' = trail /\ qhead' = qhead
      /\ \/ \E l \in clause : TrueNow(l)
         \/ \E l, m \in clause : l # m /\ Undefined(l) /\ Undefined(m)
      /\ db' = Append(db, c)
  BY DEF addSplit, trailVars
<1>2. clause \in SUBSET Literal /\ Cardinality(clause) > 1
  BY <1>1, SplitClause
<1>3. PICK x \in clause : ~ FalseNow(x)
  <2>1. \A l \in clause : TrueNow(l) \/ Undefined(l) => ~ FalseNow(l)
    BY <1>2, Typed, Places DEF Undefined
  <2> QED BY <2>1, <1>1
<1>4. /\ lits \in Seq(Literal) /\ LitsIn(lits) = clause /\ Len(lits) = Cardinality(clause)
      /\ Cardinality(clause) \in Nat /\ DOMAIN lits = 1..Cardinality(clause)
  BY <1>2, Listed
<1>5. c.lits = attached
  OBVIOUS
<1> HIDE DEF c, clause, lits
<1>6. G \in SUBSET Nat /\ \A i \in G : i <= Len(lits)
  BY <1>4
<1>7. G # {}
  <2>1. PICK i \in DOMAIN lits : lits[i] = x
    BY <1>3, <1>4 DEF LitsIn
  <2> QED BY <2>1, <1>3
<1> HIDE DEF G
<1>8. good \in G
  BY <1>4, <1>6, <1>7, Largest
<1>9. good \in DOMAIN lits /\ 1 \in DOMAIN lits /\ ~ FalseNow(lits[good])
  BY <1>2, <1>4, <1>8 DEF G
<1> HIDE DEF good
<1>10. ~ FalseNow(attached[1])
  <2>1. CASE FalseNow(lits[1])
    <3>1. attached = Swapped(lits, 1, good)
      BY <2>1 DEF Swapped
    <3>2. Swapped(lits, 1, good)[1] = lits[good]
      BY <1>4, <1>9, Swap
    <3> HIDE DEF attached
    <3> QED BY <3>1, <3>2, <1>9
  <2>2. CASE ~ FalseNow(lits[1])
    BY <2>2
  <2> QED BY <2>1, <2>2
<1> HIDE DEF attached
<1>11. \A j \in 1..qhead' : j \in DOMAIN trail /\ trail'[j] = trail[j]
  <2>1. qhead' \in 0..Len(trail) /\ Len(trail) \in Nat /\ DOMAIN trail = 1..Len(trail)
    BY <1>1, Typed, Places DEF StepInv, TypeOK
  <2> QED BY <1>1, <2>1
<1>12. FirstFree(c)
  BY <1>5, <1>10, <1>11, FreeOnPart
<1> QED BY <1>1, <1>12, StoredFree

\* A clause of the input is stored without its false literals.
LEMMA LoadFree ==
    ASSUME StepInv, addOriginalClause_
    PROVE  OldOrFree
<1> DEFINE clause == Round.clauses[loaded + 1]
           free == {l \in clause : ~ FalseNow(l)}
           c == [lits |-> SetToSeq(free), learnt |-> FALSE]
<1>1. clause \in SUBSET Literal /\ qhead' = qhead
  BY LoadClause DEF addOriginalClause_
<1>2. CASE db' = db
  BY <1>2 DEF OldOrFree
<1>3. CASE db' # db
  <2>1. db' = Append(db, c) /\ Cardinality(free) > 1 /\ trail' = trail
    BY <1>3 DEF addOriginalClause_
  <2>2. free \in SUBSET Literal
    BY <1>1
  <2>3. SetToSeq(free) \in Seq(free) /\ Len(SetToSeq(free)) = Cardinality(free) /\ Cardinality(free) \in Nat
    BY <2>2, Listing
  <2>4. c.lits = SetToSeq(free)
    OBVIOUS
  <2> HIDE DEF c
  <2>5. SetToSeq(free)[1] \in free
    BY <2>1, <2>3
  <2>6. ~ FalseNow(c.lits[1])
    BY <2>4, <2>5
  <2>7. \A j \in 1..qhead' : j \in DOMAIN trail /\ trail'[j] = trail[j]
    <3>1. qhead' \in 0..Len(trail) /\ Len(trail) \in Nat /\ DOMAIN trail = 1..Len(trail)
      BY <1>1, Typed, Places DEF StepInv, TypeOK
    <3> QED BY <2>1, <3>1
  <2>8. FirstFree(c)
    BY <2>6, <2>7, FreeOnPart
  <2> QED BY <2>1, <2>8, StoredFree
<1> QED BY <1>2, <1>3

\* Where nothing is visited, the clauses are right if the old ones are.
LEMMA UnvisitedRight ==
    ASSUME StepInv, OldRight, OldOrFree, watchers' = watchers, watchers = {} \/ db' = db
    PROVE  AllRight(trail, qhead, Late)'
<1> SUFFICES ASSUME NEW i \in DOMAIN db' \ watchers'
             PROVE  WatchRight(db'[i].lits, trail', qhead', Late')
  BY DEF AllRight
<1>1. CASE i \in DOMAIN db /\ db'[i] = db[i]
  BY <1>1 DEF OldRight, AllRight
<1>2. CASE FirstFree(db'[i])
  BY <1>2, RightFree DEF FirstFree
<1>3. CASE db' = db
  BY <1>3 DEF OldRight, AllRight
<1> QED BY <1>1, <1>2, <1>3 DEF OldOrFree

\* A learnt clause that is removed leaves the others right.
LEMMA RemovedRight ==
    ASSUME StepInv, OldRight, removeSatisfied
    PROVE  AllRight(trail, qhead, Late)'
<1>1. watchers = {}
  BY DEF removeSatisfied, StepInv, Phases
<1>2. \A j \in DOMAIN db' : \E k \in DOMAIN db : db'[j] = db[k]
  <2>1. CASE db' = db
    BY <2>1
  <2>2. CASE \E i \in DOMAIN db : db' = RemoveAt(db, i)
    BY <2>2, RemovesEffect
  <2> QED BY <2>1, <2>2, SatisfiedOne
<1> SUFFICES ASSUME NEW j \in DOMAIN db' \ watchers'
             PROVE  WatchRight(db'[j].lits, trail', qhead', Late')
  BY DEF AllRight
<1>3. PICK k \in DOMAIN db : db'[j] = db[k]
  BY <1>2
<1> QED BY <1>1, <1>3 DEF OldRight, AllRight

-----------------------------------------------------------------------------
(* The clauses that propagate() visits.                                    *)

\* The literal that is being propagated is of the current level.
LEMMA UnderWay ==
    ASSUME StepInv, Propagation, watchers # {}, NEW k \in DOMAIN trail, trail[k].lit = Negated(FalseLit)
    PROVE  k = qhead /\ trail[k].level = decisionLevel
<1>1. PICK i \in watchers : TRUE
  OBVIOUS
<1>2. qhead \in DOMAIN trail
  BY <1>1, Visit
<1>3. trail[qhead].lit \in Literal /\ EntryOf(trail[qhead].lit.tr) = qhead /\ EntryOf(trail[k].lit.tr) = k
  BY <1>2, Typed, Places
<1>4. trail[k].lit = trail[qhead].lit
  BY <1>3, Negation DEF FalseLit
<1>5. k = qhead
  BY <1>3, <1>4
<1> QED BY <1>5 DEF Propagation, Fresh

\* A clause that is visited and holds.
LEMMA HoldingRight ==
    ASSUME StepInv, Propagation, NEW i \in watchers, NEW lits, LitsIn(lits) = LitsOf(db[i]),
           FalseLit \in {lits[1], lits[2]}, NEW l \in LitsOf(db[i]), TrueNow(l), NEW late
    PROVE  WatchRight(lits, trail, qhead, late)
<1>1. /\ Len(trail) \in Nat /\ DOMAIN trail = 1..Len(trail) /\ qhead \in 0..Len(trail)
      /\ decisionLevel \in Nat /\ \A m \in DOMAIN trail : trail[m].level \in 0..decisionLevel
  BY Typed, Places DEF StepInv, TypeOK
<1>2. PICK m \in DOMAIN trail : trail[m].lit = l
  BY DEF TrueNow, OnTrail
<1>3. trail[m].lit \in LitsIn(lits) /\ trail[m].level <= decisionLevel
  BY <1>1, <1>2
<1> SUFFICES ASSUME NEW j \in 1..qhead, NEW k \in 1..qhead,
                    trail[j].lit = Negated(lits[1]), trail[k].lit = Negated(lits[2])
             PROVE  trail[j].level = decisionLevel \/ trail[k].level = decisionLevel
  BY <1>2, <1>3 DEF WatchRight
<1>4. j \in DOMAIN trail /\ k \in DOMAIN trail
  BY <1>1
<1> QED BY <1>4, UnderWay

\* A clause that is visited without a conflict is right afterwards (keepWatch, moveWatch, propagateUnit).
LEMMA VisitedRight ==
    ASSUME StepInv, Propagation, keepWatch \/ moveWatch \/ propagateUnit
    PROVE  \E i \in watchers :
              /\ watchers' = watchers \ {i} /\ Reorders(i)
              /\ WatchRight(db'[i].lits, trail', qhead', Late')
<1>1. /\ Len(trail) \in Nat /\ DOMAIN trail = 1..Len(trail) /\ qhead \in 0..Len(trail) /\ trail \in Seq(Entry)
  BY Typed, Places DEF StepInv, TypeOK
<1>2. db \in Seq(Clause) /\ watchers \subseteq DOMAIN db
  BY Clauses DEF StepInv, TypeOK
<1>3. \A lits : \A i \in watchers : db' = [db EXCEPT ![i].lits = lits] => db'[i].lits = lits
  BY <1>2, Clauses DEF StepInv, Clause
<1>4. ASSUME NEW i \in watchers, NEW lits, visit(i, lits), lits \in {Visited(i), db[i].lits},
             NEW l \in LitsOf(db[i]), TrueNow(l), UNCHANGED <<trail, qhead>>
      PROVE  WatchRight(db'[i].lits, trail', qhead', Late')
  <2>1. db'[i].lits = lits /\ LitsIn(lits) = LitsOf(db[i]) /\ FalseLit \in {lits[1], lits[2]}
    <3>1. db'[i].lits = lits
      BY <1>3, <1>4 DEF visit
    <3>2. LitsIn(Visited(i)) = LitsOf(db[i]) /\ Visited(i)[2] = FalseLit
      BY Visit
    <3>3. LitsIn(db[i].lits) = LitsOf(db[i]) /\ FalseLit \in {db[i].lits[1], db[i].lits[2]}
      BY DEF LitsIn, LitsOf, StepInv, Watched
    <3> QED BY <1>4, <3>1, <3>2, <3>3
  <2> QED BY <1>4, <2>1, HoldingRight
<1>5. CASE keepWatch
  <2>1. PICK i \in watchers :
               /\ \/ TrueNow(Visited(i)[1]) /\ visit(i, Visited(i))
                  \/ (\E l \in LitsOf(db[i]) : TrueNow(l)) /\ visit(i, db[i].lits)
               /\ watchers' = watchers \ {i} /\ UNCHANGED <<trail, qhead>>
    BY <1>5 DEF keepWatch
  <2>2. Visited(i)[1] \in LitsOf(db[i])
    BY Visit
  <2>3. WatchRight(db'[i].lits, trail', qhead', Late')
    BY <1>4, <2>1, <2>2
  <2>4. Reorders(i)
    <3>1. PICK lits \in {Visited(i), db[i].lits} : db' = [db EXCEPT ![i].lits = lits]
      BY <2>1 DEF visit
    <3>2. Visited(i) \in Seq(Literal) /\ Len(Visited(i)) = Len(db[i].lits) /\ LitsIn(Visited(i)) = LitsOf(db[i])
      BY Visit
    <3>3. db[i].lits \in Seq(Literal) /\ LitsIn(db[i].lits) = LitsOf(db[i])
      BY <1>2, Clauses DEF LitsIn, LitsOf, StepInv
    <3> QED BY <3>1, <3>2, <3>3 DEF Reorders
  <2> QED BY <2>1, <2>3, <2>4
<1>6. CASE moveWatch
  <2>1. PICK i \in watchers :
               LET c == Visited(i)
               IN  /\ Free(c) # {}
                   /\ visit(i, [c EXCEPT ![2] = c[Min(Free(c))], ![Min(Free(c))] = c[2]])
                   /\ watchers' = watchers \ {i} /\ UNCHANGED <<trail, qhead>>
    BY <1>6 DEF moveWatch
  <2> DEFINE c == Visited(i)
             f == Min(Free(c))
  <2>2. /\ c \in Seq(Literal) /\ Len(c) = Len(db[i].lits) /\ Len(c) > 1 /\ DOMAIN c = 1..Len(db[i].lits)
        /\ Len(db[i].lits) \in Nat /\ LitsIn(c) = LitsOf(db[i])
    BY Visit
  <2>3. db' = [db EXCEPT ![i].lits = Swapped(c, 2, f)] /\ Free(c) # {}
    BY <2>1 DEF visit, Swapped
  <2> HIDE DEF c
  <2>4. Free(c) \in SUBSET Nat
    BY DEF Free
  <2>5. f \in Free(c)
    BY <2>3, <2>4, Smallest
  <2>6. f \in DOMAIN c /\ 2 \in DOMAIN c /\ ~ FalseNow(c[f])
    BY <2>2, <2>5 DEF Free
  <2> HIDE DEF f
  <2>7. /\ Swapped(c, 2, f) \in Seq(Literal) /\ Len(Swapped(c, 2, f)) = Len(c) /\ Swapped(c, 2, f)[2] = c[f]
        /\ LitsIn(Swapped(c, 2, f)) = LitsIn(c)
    BY <2>2, <2>6, Swap
  <2>8. Reorders(i)
    BY <2>2, <2>3, <2>7 DEF Reorders
  <2>9. db'[i].lits = Swapped(c, 2, f)
    BY <1>3, <2>3
  <2>10. \A j \in 1..qhead' : trail'[j].lit # Negated(Swapped(c, 2, f)[2])
    <3>1. \A j \in 1..qhead' : j \in DOMAIN trail /\ trail'[j] = trail[j]
      BY <1>1, <2>1
    <3> QED BY <2>6, <2>7, <3>1 DEF FalseNow, OnTrail
  <2>11. WatchRight(db'[i].lits, trail', qhead', Late')
    BY <2>9, <2>10, RightFree
  <2> QED BY <2>1, <2>8, <2>11
<1>7. CASE propagateUnit
  <2>1. PICK i \in watchers :
               /\ Undefined(Visited(i)[1]) /\ visit(i, Visited(i))
               /\ trail' = Enqueued(trail, Visited(i)[1], decisionLevel, LitsOf(db[i]) \ {Visited(i)[1]})
               /\ watchers' = watchers \ {i} /\ qhead' = qhead
    BY <1>7 DEF propagateUnit
  <2>2. db'[i].lits = Visited(i)
    BY <1>3, <2>1 DEF visit
  <2>3. Reorders(i)
    <3>1. Visited(i) \in Seq(Literal) /\ Len(Visited(i)) = Len(db[i].lits) /\ LitsIn(Visited(i)) = LitsOf(db[i])
      BY Visit
    <3> QED BY <2>1, <3>1 DEF Reorders, visit
  <2>4. \A j \in 1..qhead' : j \in DOMAIN trail /\ trail'[j] = trail[j]
    <3> DEFINE e == [lit |-> Visited(i)[1], level |-> decisionLevel, reason |-> LitsOf(db[i]) \ {Visited(i)[1]}]
    <3>1. trail' = Append(trail, e)
      BY <2>1 DEF Enqueued
    <3> HIDE DEF e
    <3>2. \A j \in 1..Len(trail) : trail'[j] = trail[j]
      BY <1>1, <3>1
    <3>3. \A j \in 1..qhead' : j \in 1..Len(trail)
      BY <1>1, <2>1
    <3> QED BY <1>1, <3>2, <3>3
  <2>5. \A j \in 1..qhead' : trail'[j].lit # Negated(Visited(i)[1])
    BY <2>1, <2>4 DEF Undefined, FalseNow, OnTrail
  <2>6. WatchRight(db'[i].lits, trail', qhead', Late')
    BY <2>2, <2>5, RightFree
  <2> QED BY <2>1, <2>3, <2>6
<1> QED BY <1>5, <1>6, <1>7

\* A conflict above level 0 leaves clauses unvisited, but each has a watch that is false at its level.
LEMMA ConflictRight ==
    ASSUME StepInv, Propagation, falsified, Consistent'
    PROVE  AllRight(trail, qhead, Late)'
<1>1. /\ trail' = trail /\ qhead' = Len(trail) /\ watchers' = {} /\ decisionLevel' = decisionLevel
      /\ pc' = "analyze" \/ (ok' = FALSE /\ conflict_frame' = conflict_frame)
  <2>1. trail' = trail /\ qhead' = Len(trail) /\ watchers' = {} /\ trail_lim' = trail_lim
    BY DEF falsified, visit
  <2>2. pc' = "analyze" \/ (ok' = FALSE /\ conflict_frame' = conflict_frame)
    BY DEF falsified, analyze, zeroLevelConflictHandler
  <2> QED BY <2>1, <2>2 DEF decisionLevel
<1>2. PICK i \in watchers : visit(i, Visited(i))
  BY DEF falsified
<1>3. pc' = "analyze"
  <2>1. pc \in {"watch", "unit"} /\ conflict_frame \in Nat /\ (conflict_frame > 0 => pc = "done")
    BY <1>2 DEF visit, StepInv, TypeOK, Phases
  <2> QED BY <1>1, <2>1 DEF Consistent
<1>4. Late' = {decisionLevel} /\ Late = {}
  BY <1>1, <1>2, <1>3 DEF Late, visit
<1>5. /\ Len(trail) \in Nat /\ DOMAIN trail = 1..Len(trail) /\ qhead \in 0..Len(trail)
  BY Typed, Places DEF StepInv, TypeOK
<1>6. db \in Seq(Clause) /\ watchers \subseteq DOMAIN db /\ db' = [db EXCEPT ![i].lits = Visited(i)]
  BY <1>2, Clauses DEF StepInv, TypeOK, visit
<1>7. /\ DOMAIN db' = DOMAIN db /\ db'[i].lits = Visited(i) /\ Visited(i)[2] = FalseLit
      /\ \A h \in DOMAIN db : h # i => db'[h] = db[h]
  BY <1>6, Visit DEF Clause
<1>8. ASSUME NEW h \in watchers PROVE FalseLit \in {db'[h].lits[1], db'[h].lits[2]}
  <2>1. FalseLit \in {db[h].lits[1], db[h].lits[2]} /\ h \in DOMAIN db
    BY <1>6 DEF StepInv, Watched
  <2> QED BY <1>7, <2>1
<1> SUFFICES ASSUME NEW h \in DOMAIN db', NEW j \in 1..Len(trail), NEW k \in 1..Len(trail),
                    trail[j].lit = Negated(db'[h].lits[1]), trail[k].lit = Negated(db'[h].lits[2])
             PROVE  \/ \E m \in DOMAIN trail : /\ trail[m].lit \in LitsIn(db'[h].lits)
                                               /\ trail[m].level <= trail[j].level \/ trail[m].level <= trail[k].level
                    \/ trail[j].level = decisionLevel \/ trail[k].level = decisionLevel
  BY <1>1, <1>4 DEF AllRight, WatchRight
<1>9. CASE h \in watchers
  BY <1>5, <1>8, <1>9, UnderWay
<1>10. CASE j > qhead \/ k > qhead
  BY <1>5, <1>10 DEF Propagation, Fresh
<1>11. CASE h \notin watchers /\ j <= qhead /\ k <= qhead
  <2>1. h \in DOMAIN db \ watchers /\ db'[h] = db[h] /\ j \in 1..qhead /\ k \in 1..qhead
    BY <1>5, <1>7, <1>11
  <2>2. WatchRight(db[h].lits, trail, qhead, {})
    BY <2>1, <1>4 DEF Propagation, AllRight
  <2> QED BY <2>1, <2>2 DEF WatchRight
<1> QED BY <1>5, <1>9, <1>10, <1>11

\* The next literal: the clauses that do not watch it need no visit.
LEMMA TakenRight ==
    ASSUME StepInv, Propagation, takeLiteral
    PROVE  AllRight(trail, qhead, Late)'
<1>1. /\ trail' = trail /\ db' = db /\ qhead' = qhead + 1 /\ watchers = {} /\ qhead < Len(trail)
      /\ watchers' = {i \in DOMAIN db : Negated(trail[qhead'].lit) \in {db[i].lits[1], db[i].lits[2]}}
      /\ pc # "analyze"
  BY DEF takeLiteral, Propagating, clauseVars
<1>2. /\ Len(trail) \in Nat /\ DOMAIN trail = 1..Len(trail) /\ qhead \in 0..Len(trail) /\ qhead' \in DOMAIN trail
  BY <1>1, Typed, Places DEF StepInv, TypeOK
<1>3. Late = {} /\ \A j \in 1..qhead' : j \in DOMAIN trail /\ (j \in 1..qhead \/ j = qhead')
  BY <1>1, <1>2 DEF Late
<1> SUFFICES ASSUME NEW i \in DOMAIN db \ watchers', NEW j \in 1..qhead', NEW k \in 1..qhead',
                    trail[j].lit = Negated(db[i].lits[1]), trail[k].lit = Negated(db[i].lits[2])
             PROVE  \E m \in DOMAIN trail : /\ trail[m].lit \in LitsIn(db[i].lits)
                                            /\ trail[m].level <= trail[j].level \/ trail[m].level <= trail[k].level
  BY <1>1 DEF AllRight, WatchRight
<1>4. db[i].lits[1] \in Literal /\ db[i].lits[2] \in Literal
  <2>1. Len(db[i].lits) > 1 /\ db[i].lits \in Seq(Literal) /\ Len(db[i].lits) \in Nat
    BY Clauses DEF StepInv, Watched
  <2> QED BY <2>1
<1>5. Negated(trail[j].lit) = db[i].lits[1] /\ Negated(trail[k].lit) = db[i].lits[2]
  BY <1>4, Negation
<1>6. j # qhead' /\ k # qhead'
  BY <1>1, <1>5
<1>7. j \in 1..qhead /\ k \in 1..qhead
  BY <1>3, <1>6
<1>8. WatchRight(db[i].lits, trail, qhead, {})
  BY <1>1, <1>3 DEF Propagation, AllRight
<1> QED BY <1>7, <1>8 DEF WatchRight

\* After a visit, the clause is right, and the others are as they were.
LEMMA VisitsRight ==
    ASSUME StepInv, Propagation, OldRight, keepWatch \/ moveWatch \/ propagateUnit
    PROVE  AllRight(trail, qhead, Late)'
<1>1. PICK i \in watchers :
            /\ watchers' = watchers \ {i} /\ Reorders(i)
            /\ WatchRight(db'[i].lits, trail', qhead', Late')
  BY VisitedRight
<1>2. DOMAIN db' = DOMAIN db /\ \A j \in DOMAIN db : j # i => db'[j] = db[j]
  BY <1>1, ReordersEffect
<1> SUFFICES ASSUME NEW j \in DOMAIN db' \ watchers'
             PROVE  WatchRight(db'[j].lits, trail', qhead', Late')
  BY DEF AllRight
<1>3. CASE j = i
  BY <1>1, <1>3
<1>4. CASE j # i
  <2>1. j \in DOMAIN db \ watchers /\ db'[j] = db[j]
    BY <1>1, <1>2, <1>4
  <2> QED BY <2>1 DEF OldRight, AllRight
<1> QED BY <1>3, <1>4

\* No step leaves a clause wrong that it should have visited.
LEMMA RightStep ==
    ASSUME StepInv, Propagation, [Next]_vars, Consistent'
    PROVE  AllRight(trail, qhead, Late)'
<1>1. CASE takeLiteral
  BY <1>1, TakenRight
<1>2. CASE falsified
  BY <1>2, ConflictRight
<1>3. CASE ~ takeLiteral /\ ~ falsified
  <2>1. OldRight
    BY <1>3, Kinds, BacksStep, OthersStep
  <2>2. CASE keepWatch \/ moveWatch \/ propagateUnit
    BY <2>1, <2>2, VisitsRight
  <2>3. CASE removeSatisfied
    BY <2>1, <2>3, RemovedRight
  <2>4. CASE learn \/ addUnitSplit \/ addSplit \/ addOriginalClause_
    <3>1. OldOrFree
      BY <2>4, LearnFree, UnitSplitFree, SplitFree, LoadFree
    <3>2. watchers = {} /\ watchers' = watchers
      BY <2>4 DEF learn, addUnitSplit, addSplit, addOriginalClause_, trailVars, StepInv, Phases
    <3> QED BY <2>1, <3>1, <3>2, UnvisitedRight
  <2>5. CASE db' = db /\ watchers' = watchers
    BY <2>1, <2>5, UnvisitedRight DEF OldOrFree
  <2>6. CASE solve_ \/ propagated \/ resolve \/ simplify \/ assertLit \/ handleSat \/ handleNewSplitClauses
    <3>1. db' = db /\ watchers' = watchers
      BY <2>6
         DEF solve_, propagated, resolve, simplify, assertLit, handleSat, handleNewSplitClauses, clauseVars
    <3> QED BY <2>5, <3>1
  <2>7. CASE stop \/ restart \/ handleUnsat \/ deduceTheory \/ enqueueSplits \/ clearSearch
    <3>1. db' = db /\ watchers' = watchers
      BY <2>7 DEF stop, restart, handleUnsat, deduceTheory, enqueueSplits, clearSearch, clauseVars
    <3> QED BY <2>5, <3>1
  <2>8. CASE skipAssumption \/ assume \/ analyzeFinal \/ pickBranchLit \/ complete
    <3>1. db' = db /\ watchers' = watchers
      BY <2>8 DEF skipAssumption, assume, analyzeFinal, pickBranchLit, complete, clauseVars
    <3> QED BY <2>5, <3>1
  <2>9. CASE UNCHANGED vars
    BY <2>5, <2>9 DEF vars, clauseVars
  <2> QED BY <1>3, <2>2, <2>3, <2>4, <2>6, <2>7, <2>8, <2>9 DEF Next
<1> QED BY <1>1, <1>2, <1>3

\* A solver that is inconsistent by its clauses stays so.
LEMMA ConsistentBefore == ASSUME StepInv, [Next]_vars, Consistent' PROVE Consistent
<1>1. /\ ~ ok => pc \in {"load", "done"}
      /\ conflict_frame \in Nat /\ ok \in BOOLEAN
  BY DEF StepInv, Phases, TypeOK
<1>2. CASE addOriginalClause_ \/ solve_ \/ takeLiteral \/ keepWatch \/ moveWatch \/ propagateUnit \/ falsified
  BY <1>1, <1>2
     DEF Consistent, addOriginalClause_, solve_, takeLiteral, keepWatch, moveWatch, propagateUnit, falsified, visit,
         analyze, zeroLevelConflictHandler, answerVars
<1>3. CASE propagated \/ resolve \/ learn \/ stop \/ restart \/ simplify \/ removeSatisfied \/ assertLit
  BY <1>1, <1>3
     DEF Consistent, propagated, resolve, learn, stop, restart, simplify, removeSatisfied, assertLit, answerVars
<1>4. CASE handleUnsat \/ handleSat \/ deduceTheory \/ handleNewSplitClauses \/ addUnitSplit \/ addSplit
  BY <1>1, <1>4
     DEF Consistent, handleUnsat, handleSat, deduceTheory, handleNewSplitClauses, addUnitSplit, addSplit,
         Accepted, Asserted, InCheck, analyze, zeroLevelConflictHandler, answerVars
<1>5. CASE enqueueSplits \/ skipAssumption \/ assume \/ pickBranchLit \/ complete
  BY <1>1, <1>5 DEF Consistent, enqueueSplits, skipAssumption, assume, pickBranchLit, complete, answerVars
<1>6. CASE analyzeFinal
  BY <1>1, <1>6 DEF Consistent, analyzeFinal
<1>7. CASE clearSearch
  BY <1>1, <1>7 DEF Consistent, clearSearch
<1>8. CASE UNCHANGED vars
  BY <1>8 DEF Consistent, vars, answerVars
<1> QED BY <1>2, <1>3, <1>4, <1>5, <1>6, <1>7, <1>8 DEF Next

-----------------------------------------------------------------------------
(* What holds from the beginning to the end.                               *)

\* Every step keeps the invariant.
LEMMA WatchInvNext == ASSUME WatchInv, [Next]_vars PROVE WatchInv'
<1>1. StepInv /\ StepInv'
  BY StepInvNext DEF WatchInv
<1>2. ASSUME Consistent' PROVE Propagation'
  <2>1. Propagation
    BY <1>1, <1>2, ConsistentBefore DEF WatchInv
  <2>2. Fresh' /\ Caught' /\ AllRight(trail, qhead, Late)'
    BY <1>1, <1>2, <2>1, FreshStep, CaughtStep, RightStep
  <2> QED BY <2>2 DEF Propagation
<1> QED BY <1>1, <1>2 DEF WatchInv

\* The invariant holds at the start.
LEMMA WatchInvInit == ASSUME Init PROVE WatchInv
<1>1. StepInv
  BY StepInvInit
<1>2. /\ trail = <<>> /\ db = <<>> /\ pc = "load" /\ res = "none" /\ propData = <<>> /\ watchers = {} /\ qhead = 0
  BY DEF Init
<1>3. Fresh /\ Caught /\ AllRight(trail, qhead, Late)
  BY <1>2 DEF Fresh, Caught, AllRight
<1> QED BY <1>1, <1>3 DEF WatchInv, Propagation

\* When nothing waits, a clause whose watches are both false has a literal that is true.
LEMMA NoneFalse == ASSUME WatchInv PROVE NoClauseFalse
<1> SUFFICES ASSUME pc \in {"stable", "simplify", "early", "decide", "complete", "last"},
                    NEW i \in DOMAIN db, \A l \in LitsOf(db[i]) : FalseNow(l)
             PROVE  FALSE
  BY DEF NoClauseFalse
<1>1. StepInv /\ Consistent /\ watchers = {} /\ pc # "analyze"
  BY DEF WatchInv, StepInv, Phases, Consistent
<1>2. WatchRight(db[i].lits, trail, qhead, {}) /\ qhead = Len(trail)
  BY <1>1 DEF WatchInv, Propagation, AllRight, Caught, Late
<1>3. /\ Len(db[i].lits) > 1 /\ Len(db[i].lits) \in Nat /\ DOMAIN db[i].lits = 1..Len(db[i].lits)
      /\ LitsOf(db[i]) \in SUBSET Literal
  BY <1>1, Clauses DEF StepInv, Watched
<1>4. db[i].lits[1] \in LitsOf(db[i]) /\ db[i].lits[2] \in LitsOf(db[i])
  <2>1. 1 \in DOMAIN db[i].lits /\ 2 \in DOMAIN db[i].lits
    BY <1>3
  <2> QED BY <2>1 DEF LitsOf
<1>5. DOMAIN trail = 1..Len(trail)
  BY <1>1, Typed, Places
<1>6. PICK j \in 1..Len(trail) : trail[j].lit = Negated(db[i].lits[1])
  BY <1>4, <1>5 DEF FalseNow, OnTrail
<1>7. PICK k \in 1..Len(trail) : trail[k].lit = Negated(db[i].lits[2])
  BY <1>4, <1>5 DEF FalseNow, OnTrail
<1>8. PICK m \in DOMAIN trail : trail[m].lit \in LitsIn(db[i].lits)
  BY <1>2, <1>6, <1>7 DEF WatchRight
<1>9. trail[m].lit \in LitsOf(db[i])
  BY <1>8 DEF LitsIn, LitsOf
<1>10. TrueNow(trail[m].lit) /\ FalseNow(trail[m].lit)
  BY <1>9 DEF TrueNow, OnTrail
<1> QED BY <1>1, <1>3, <1>9, <1>10, Typed, Places

\* For every problem and every way the search can go: when propagation has ended, no clause is false,
\* though a clause is looked at only when one of its two watched literals becomes false.
THEOREM NoConflictMissed == Spec => []NoClauseFalse
<1>1. Init => WatchInv
  BY WatchInvInit
<1>2. WatchInv /\ [Next]_vars => WatchInv'
  BY WatchInvNext
<1>3. WatchInv => NoClauseFalse
  BY NoneFalse
<1> QED BY <1>1, <1>2, <1>3, PTL DEF Spec

\* ... and the reasons that conflict analysis follows are in order, so that PropagationComplete holds.
THEOREM PropagationAlwaysComplete == Spec => []PropagationComplete
<1>1. Spec => [](ReasonsBefore /\ NoClauseFalse)
  BY NoConflictMissed, ReasonsAlwaysBefore, PTL
<1>2. ReasonsBefore /\ NoClauseFalse => PropagationComplete
  BY DEF PropagationComplete
<1> QED BY <1>1, <1>2, PTL

-----------------------------------------------------------------------------
(* What a model rests on.                                                  *)

\* A variable without a value waits in the heap, unless it is not to be decided.
HeapComplete == \A v \in decision : v \in Assigned \/ v \in order_heap

\* The atoms of the clauses, learnt ones aside, are to be decided.
AtomsDecided == \A v \in Atoms : OriginalAtom(v) \/ SplitAtom(v) => v \in decision

\* A clause that was added is dropped for a literal and its negation, or one true at level 0, or is
\* stored without some literals.
Represented(c) ==
    \/ \E l \in c : Negated(l) \in c
    \/ \E i \in DOMAIN trail : trail[i].level = 0 /\ trail[i].lit \in c
    \/ \E i \in DOMAIN db : ~ db[i].learnt /\ LitsOf(db[i]) \subseteq c

\* The assumptions of the levels that there are.
AssumedTrue ==
    \A j \in 1..decisionLevel :
        j <= Len(assumptions) => \E i \in DOMAIN trail : trail[i].lit = assumptions[j] /\ trail[i].level <= j

\* After a complete check, the theory has nothing against the trail, or a split brought new atoms.
Agreed == ~ Contradictory(Given) /\ Splits = {} /\ Len(stack) = Len(trail)
Believed == pc = "last" \/ res = "last" => Agreed \/ Candidates # {}

SatInv ==
    /\ WatchInv /\ AssumptionsDecided
    /\ HeapComplete /\ AtomsDecided /\ AssumedTrue /\ Believed /\ SatAnswersRight
    /\ Consistent => \A c \in Added : Represented(c)

-----------------------------------------------------------------------------
(* What stays of the trail and of the clauses.                             *)

\* A literal stays on the trail as long as its level does.
LEMMA LowStays ==
    ASSUME StepInv, [Next]_vars, NEW i \in DOMAIN trail, trail[i].level <= Len(trail_lim')
    PROVE  i \in DOMAIN trail' /\ trail'[i] = trail[i]
<1>1. /\ DOMAIN trail = 1..Len(trail) /\ Len(trail) \in Nat /\ decisionLevel \in Nat
      /\ trail[i].level \in 0..decisionLevel
  BY Typed, Places
<1>2. TypedTrail(trail', trail_lim') /\ trail' \in Seq(Entry)
  BY TrailTyped DEF TypedTrail
<1>3. DOMAIN trail' = 1..Len(trail') /\ Len(trail') \in Nat
  BY <1>2
<1>4. ASSUME NEW n \in 0..Len(trail), Keeps(n), i <= n
      PROVE  i \in DOMAIN trail' /\ trail'[i] = trail[i]
  BY <1>1, <1>3, <1>4 DEF Keeps
<1>5. CASE Keeps(Len(trail))
  BY <1>1, <1>4, <1>5
<1>6. CASE learn \/ stop \/ restart \/ handleUnsat \/ addUnitSplit \/ clearSearch
  <2>1. CASE UNCHANGED <<order_heap, trailVars>>
    BY <2>1 DEF trailVars
  <2>2. CASE \E k \in 0..decisionLevel : Cancels(k)
    <3>1. PICK k \in 0..decisionLevel : Cancels(k)
      BY <2>2
    <3>2. Keeps(KeptAt(k)) /\ KeptAt(k) \in 0..Len(trail)
      BY <3>1, KeepsCut DEF Cancels
    <3>3. trail_lim' = SubSeq(trail_lim, 1, k)
      BY <3>1 DEF Cancels, Cuts, Adds
    <3>4. Len(trail_lim') = k /\ (i <= KeptAt(k) <=> trail[i].level <= k)
      BY <3>3, Typed, KeptPart
    <3> QED BY <3>2, <3>4, <1>4
  <2> QED BY <1>6, <2>1, <2>2, CancelStep
<1> QED BY <1>5, <1>6, TrailGrows

\* An original clause stays one, with its literals.
LEMMA OriginalStays ==
    ASSUME StepInv, [Next]_vars, NEW i \in DOMAIN db, ~ db[i].learnt
    PROVE  \E j \in DOMAIN db' : ~ db'[j].learnt /\ LitsOf(db'[j]) = LitsOf(db[i])
<1>1. seen \in SUBSET Literal
  BY DEF StepInv, TypeOK
<1>2. CASE db' = db
  BY <1>2
<1>3. ASSUME NEW S \in SUBSET Literal, NEW b \in BOOLEAN, Stores(S, b)
      PROVE  i \in DOMAIN db' /\ db'[i] = db[i]
  BY <1>3, StoresEffect
<1>4. ASSUME NEW j \in watchers, Reorders(j)
      PROVE  i \in DOMAIN db' /\ ~ db'[i].learnt /\ LitsOf(db'[i]) = LitsOf(db[i])
  BY <1>4, ReordersEffect
<1>5. ASSUME NEW j \in DOMAIN db, db[j].learnt, db' = RemoveAt(db, j)
      PROVE  \E k \in DOMAIN db' : db'[k] = db[i]
  BY <1>5, RemovesEffect
<1> QED BY <1>1, <1>2, <1>3, <1>4, <1>5, DbStep, DbKinds

\* The next check begins: there are no levels any more.
LEMMA ClearLevels == ASSUME StepInv, clearSearch PROVE Len(trail_lim') = 0
<1>1. trail_lim' = SubSeq(trail_lim, 1, 0) /\ 0 \in 0..decisionLevel
  BY ZeroStep DEF Cuts
<1> QED BY <1>1, Typed, KeptPart

-----------------------------------------------------------------------------
(* Every atom of a clause waits or has a value.                            *)

\* An atom keeps its value while the trail is kept.
LEMMA AssignedStays ==
    ASSUME StepInv, [Next]_vars, NEW n \in 0..Len(trail), Keeps(n), NEW i \in 1..n
    PROVE  trail[i].lit.tr \in Assigned'
<1>1. Len(trail) \in Nat /\ trail' \in Seq(Entry)
  BY Typed, Places, TrailTyped DEF TypedTrail
<1>2. i \in DOMAIN trail' /\ trail'[i] = trail[i]
  <2>1. DOMAIN trail' = 1..Len(trail') /\ Len(trail') \in Nat
    BY <1>1
  <2> QED BY <1>1, <2>1 DEF Keeps
<1> QED BY <1>2 DEF Assigned

\* The steps that touch the variables to be decided, or those of them that wait.
LEMMA HeapMoves ==
    ASSUME StepInv, [Next]_vars
    PROVE  \/ UNCHANGED <<order_heap, decision>> /\ Keeps(Len(trail))
           \/ addOriginalClause_ \/ solve_ \/ handleNewSplitClauses \/ pickBranchLit
           \/ decision' = decision /\ \E k \in 0..decisionLevel : Cancels(k)
<1>1. CASE learn \/ stop \/ restart \/ handleUnsat \/ addUnitSplit \/ clearSearch
  <2>1. decision' = decision
    BY <1>1 DEF learn, stop, restart, handleUnsat, addUnitSplit, clearSearch
  <2>2. CASE UNCHANGED <<order_heap, trailVars>>
    <3>1. trail' = trail
      BY <2>2 DEF trailVars
    <3> QED BY <2>1, <2>2, <3>1, KeepsAll
  <2>3. CASE \E k \in 0..decisionLevel : Cancels(k)
    BY <2>1, <2>3
  <2> QED BY <1>1, <2>2, <2>3, CancelStep
<1>2. CASE Keeps(Len(trail))
  <2>1. CASE takeLiteral \/ keepWatch \/ moveWatch \/ propagateUnit \/ falsified \/ propagated
    BY <1>2, <2>1 DEF takeLiteral, keepWatch, moveWatch, propagateUnit, falsified, visit, propagated, clauseVars
  <2>2. CASE resolve \/ simplify \/ removeSatisfied \/ assertLit \/ handleSat \/ deduceTheory \/ addSplit
    BY <1>2, <2>2 DEF resolve, simplify, removeSatisfied, assertLit, handleSat, deduceTheory, addSplit, clauseVars
  <2>3. CASE enqueueSplits \/ skipAssumption \/ assume \/ analyzeFinal \/ complete
    BY <1>2, <2>3 DEF enqueueSplits, skipAssumption, assume, analyzeFinal, complete, clauseVars
  <2>4. CASE UNCHANGED vars
    BY <1>2, <2>4 DEF vars, clauseVars
  <2> QED BY <1>1, <2>1, <2>2, <2>3, <2>4 DEF Next
<1> QED BY <1>1, <1>2, TrailGrows

\* A variable leaves the heap when it is decided, and comes back when it leaves the trail.
LEMMA HeapStep == ASSUME StepInv, [Next]_vars, HeapComplete PROVE HeapComplete'
<1> SUFFICES ASSUME NEW v \in decision', v \notin Assigned' PROVE v \in order_heap'
  BY DEF HeapComplete
<1>1. DOMAIN trail = 1..Len(trail) /\ Len(trail) \in Nat
  BY Typed, Places
<1>2. ASSUME NEW n \in 0..Len(trail), Keeps(n), v \in Assigned
      PROVE  \E i \in (n + 1)..Len(trail) : trail[i].lit.tr = v
  <2>1. PICK i \in DOMAIN trail : trail[i].lit.tr = v
    BY <1>2 DEF Assigned
  <2>2. i \notin 1..n
    BY <1>2, <2>1, AssignedStays
  <2> QED BY <1>1, <2>1, <2>2
<1>3. ASSUME Keeps(Len(trail)) PROVE v \notin Assigned
  <2>1. ~ \E i \in (Len(trail) + 1)..Len(trail) : trail[i].lit.tr = v
    BY <1>1
  <2> QED BY <1>1, <1>2, <1>3, <2>1
<1>4. CASE UNCHANGED <<order_heap, decision>> /\ Keeps(Len(trail))
  BY <1>3, <1>4 DEF HeapComplete
<1>5. CASE addOriginalClause_ \/ solve_ \/ handleNewSplitClauses
  <2>1. Keeps(Len(trail))
    BY <1>5, TrailGrows, KeepsAll
       DEF addOriginalClause_, solve_, handleNewSplitClauses, learn, stop, restart, handleUnsat, addUnitSplit,
           clearSearch, Asserted, Accepted, InCheck, trailVars
  <2>2. CASE addOriginalClause_
    BY <1>3, <2>1, <2>2 DEF addOriginalClause_, addVars, HeapComplete
  <2>3. CASE solve_
    BY <1>3, <2>1, <2>3 DEF solve_, HeapComplete
  <2>4. CASE handleNewSplitClauses
    BY <1>3, <2>1, <2>4 DEF handleNewSplitClauses, addVars, HeapComplete
  <2> QED BY <1>5, <2>2, <2>3, <2>4
<1>6. CASE pickBranchLit
  <2>1. PICK w \in Candidates, sgn \in BOOLEAN : NewLevel([tr |-> w, sgn |-> sgn]) /\ order_heap' = order_heap \ {w}
    BY <1>6 DEF pickBranchLit
  <2>2. decision' = decision
    BY <1>6 DEF pickBranchLit
  <2> DEFINE e == [lit |-> [tr |-> w, sgn |-> sgn], level |-> decisionLevel + 1, reason |-> CRef_Undef]
  <2>3. trail' = Append(trail, e) /\ e.lit.tr = w
    BY <2>1 DEF NewLevel, Enqueued
  <2>4. trail \in Seq(Entry)
    BY Typed DEF TypedTrail
  <2> HIDE DEF e
  <2>5. DOMAIN trail' = 1..(Len(trail) + 1) /\ trail'[Len(trail) + 1] = e
    BY <2>3, <2>4, <1>1, AppendProperties
  <2>6. Len(trail) + 1 \in DOMAIN trail'
    BY <2>5, <1>1
  <2>7. v # w
    BY <2>3, <2>5, <2>6 DEF Assigned
  <2>8. Keeps(Len(trail))
    BY <1>6, TrailGrows
       DEF pickBranchLit, learn, stop, restart, handleUnsat, addUnitSplit, clearSearch, Asserted, InCheck, Deciding
  <2> QED BY <2>1, <2>2, <2>7, <2>8, <1>3 DEF HeapComplete
<1>7. CASE decision' = decision /\ \E k \in 0..decisionLevel : Cancels(k)
  <2>1. PICK k \in 0..decisionLevel : Cancels(k)
    BY <1>7
  <2>2. Keeps(KeptAt(k)) /\ KeptAt(k) \in 0..Len(trail)
    BY <2>1, KeepsCut DEF Cancels
  <2>3. order_heap' = Reinserted(k) /\ v \in decision
    BY <2>1, <1>7 DEF Cancels
  <2>4. v \in Assigned => \E i \in (KeptAt(k) + 1)..Len(trail) : trail[i].lit.tr = v
    BY <2>2, <1>2
  <2> QED BY <2>3, <2>4 DEF HeapComplete, Reinserted
<1> QED BY <1>4, <1>5, <1>6, <1>7, HeapMoves

\* A clause is stored only with atoms that are to be decided, and declareVarsToTheories() keeps those.
LEMMA AtomsDecidedStep == ASSUME StepInv, [Next]_vars, AtomsDecided PROVE AtomsDecided'
<1> SUFFICES ASSUME NEW v \in Atoms, OriginalAtom(v)' \/ SplitAtom(v)' PROVE v \in decision'
  BY DEF AtomsDecided
<1>1. seen \in SUBSET Literal
  BY DEF StepInv, TypeOK
<1>2. CASE addOriginalClause_
  <2>1. decision' = decision \cup {l.tr : l \in Round.clauses[loaded + 1]} /\ new_splits' = new_splits
    BY <1>2 DEF addOriginalClause_, addVars, splitVars
  <2>2. SplitAtom(v)' => SplitAtom(v)
    BY <2>1 DEF SplitAtom
  <2>3. OriginalAtom(v)' => OriginalAtom(v) \/ \E l \in Round.clauses[loaded + 1] : l.tr = v
    <3>1. CASE db' = db
      BY <3>1 DEF OriginalAtom
    <3>2. ASSUME NEW S \in SUBSET Round.clauses[loaded + 1], Stores(S, FALSE)
          PROVE  OriginalAtom(v)' => OriginalAtom(v) \/ \E l \in Round.clauses[loaded + 1] : l.tr = v
      <4>1. S \in SUBSET Literal
        BY <1>2, LoadClause
      <4> QED BY <3>2, <4>1, OriginalsMore
    <3> QED BY <1>2, <3>1, <3>2, LoadClause
  <2> QED BY <2>1, <2>2, <2>3 DEF AtomsDecided
<1>3. CASE ~ addOriginalClause_
  <2>1. OriginalAtom(v)' => OriginalAtom(v) \/ SplitAtom(v)
    <3>1. CASE new_splits # <<>> /\ Head(new_splits) \in SUBSET Literal /\ Stores(Head(new_splits), FALSE)
      <4>1. OriginalAtom(v)' => OriginalAtom(v) \/ \E l \in Head(new_splits) : l.tr = v
        BY <3>1, OriginalsMore
      <4> QED BY <3>1, <4>1, HeadAtoms
    <3>2. CASE \E S \in SUBSET seen : Stores(S, TRUE)
      <4>1. \E S \in SUBSET Literal : Stores(S, TRUE)
        BY <3>2, <1>1
      <4> QED BY <4>1, OriginalsSame
    <3>3. CASE db' = db
      BY <3>3, OriginalsSame
    <3>4. CASE \E i \in watchers : Reorders(i)
      BY <3>4, OriginalsSame
    <3>5. CASE \E i \in DOMAIN db : db[i].learnt /\ db' = RemoveAt(db, i)
      BY <3>5, OriginalsSame
    <3> QED BY <1>3, <3>1, <3>2, <3>3, <3>4, <3>5, DbStep DEF DbMoves
  <2>2. CASE handleNewSplitClauses
    <3>1. db' = db
      BY <2>2 DEF handleNewSplitClauses
    <3>2. PICK batch \in (SUBSET Splits) \ {{}} :
             /\ new_splits' \in ByLevel(batch)
             /\ decision' = decision \cup {l.tr : l \in UNION batch}
      BY <2>2 DEF handleNewSplitClauses, addVars
    <3>3. batch \in SUBSET SUBSET Literal
      BY Asked DEF Splits, StepInv
    <3>4. \A k \in DOMAIN new_splits' : new_splits'[k] \in batch
      BY <3>2, <3>3, Fetched
    <3>5. SplitAtom(v)' => v \in decision'
      BY <3>2, <3>4 DEF SplitAtom
    <3>6. OriginalAtom(v)' => v \in decision
      BY <3>1 DEF OriginalAtom, AtomsDecided
    <3> QED BY <3>2, <3>5, <3>6
  <2>3. CASE ~ handleNewSplitClauses
    <3>1. OriginalAtom(v) \/ SplitAtom(v)
      BY <2>1, <2>3, SplitAtoms
    <3>2. v \in decision
      BY <3>1 DEF AtomsDecided
    <3>3. CASE decision' = decision
      BY <3>2, <3>3
    <3>4. CASE solve_
      <4>1. pc = "load"
        BY <3>4 DEF solve_
      <4>2. new_splits = <<>>
        BY <4>1 DEF StepInv, Phases
      <4>3. OriginalAtom(v)
        BY <3>1, <4>2 DEF SplitAtom
      <4>4. v \in {l.tr : l \in UNION {LitsOf(db[i]) : i \in {j \in DOMAIN db : ~ db[j].learnt}}}
        BY <4>3 DEF OriginalAtom
      <4> QED BY <3>2, <3>4, <4>4 DEF solve_
    <3> QED BY <1>3, <2>3, <3>3, <3>4, InformedStep
  <2> QED BY <2>2, <2>3
<1> QED BY <1>2, <1>3

-----------------------------------------------------------------------------
(* Every clause that was added is represented.                             *)

\* Clauses are only added by loading them.
LEMMA AddedStep ==
    ASSUME StepInv, [Next]_vars, NEW c \in Added'
    PROVE  c \in Added \/ (addOriginalClause_ /\ c = Round.clauses[loaded + 1])
<1>1. problem' = problem /\ TypeOK /\ Phases
  BY SameProblem DEF StepInv
<1>2. /\ loaded \in 0..Len(Round.clauses) /\ round \in Nat /\ round >= 1
      /\ Round.clauses \in Seq(SUBSET Literal) /\ Len(Round.clauses) \in Nat
  BY <1>1, Asked, LenProperties DEF TypeOK
<1>3. CASE inputVars' = inputVars
  <2>1. Added' = Added
    BY <1>3 DEF Added, Round, inputVars
  <2> QED BY <2>1
<1>4. CASE addOriginalClause_
  <2>1. loaded' = loaded + 1 /\ round' = round
    BY <1>4 DEF addOriginalClause_
  <2>2. Round' = Round
    BY <1>1, <2>1 DEF Round
  <2>3. \A j \in 1..(loaded + 1) : j \in 1..loaded \/ j = loaded + 1
    BY <1>2
  <2> QED BY <1>1, <1>4, <2>1, <2>2, <2>3 DEF Added
<1>5. CASE clearSearch
  <2>1. /\ pc = "done" /\ round' = round + 1 /\ loaded' = 0
    BY <1>5 DEF clearSearch
  <2>2. loaded = Len(Round.clauses)
    BY <2>1, <1>1 DEF Phases, Loading
  <2>3. DOMAIN Round.clauses = 1..loaded
    BY <2>2, <1>2
  <2>4. /\ \A r \in 1..(round' - 1) : r \in 1..(round - 1) \/ r = round
        /\ ~ \E j \in 1..loaded' : TRUE
    BY <2>1, <1>2
  <2> DEFINE In(r) == \E j \in DOMAIN problem.rounds[r].clauses : c = problem.rounds[r].clauses[j]
  <2>5. \E r \in 1..(round' - 1) : In(r)
    BY <1>1, <2>4 DEF Added
  <2>6. (\E r \in 1..(round - 1) : In(r)) => c \in Added
    BY DEF Added
  <2>7. In(round) => c \in Added
    BY <2>3 DEF Added, Round
  <2> HIDE DEF In
  <2> QED BY <2>4, <2>5, <2>6, <2>7
<1>6. CASE ~ (inputVars' = inputVars) /\ ~ addOriginalClause_ /\ ~ clearSearch
  <2>1. CASE solve_ \/ takeLiteral \/ keepWatch \/ moveWatch \/ propagateUnit \/ falsified \/ propagated
    BY <2>1, <1>6 DEF solve_, takeLiteral, keepWatch, moveWatch, propagateUnit, falsified, visit, propagated
  <2>2. CASE resolve \/ learn \/ stop \/ restart \/ simplify \/ removeSatisfied \/ assertLit
    BY <2>2, <1>6 DEF resolve, learn, stop, restart, simplify, removeSatisfied, assertLit
  <2>3. CASE handleUnsat \/ handleSat \/ deduceTheory \/ handleNewSplitClauses \/ addUnitSplit \/ addSplit
    BY <2>3, <1>6 DEF handleUnsat, handleSat, deduceTheory, handleNewSplitClauses, addUnitSplit, addSplit
  <2>4. CASE enqueueSplits \/ skipAssumption \/ assume \/ analyzeFinal \/ pickBranchLit \/ complete
    BY <2>4, <1>6 DEF enqueueSplits, skipAssumption, assume, analyzeFinal, pickBranchLit, complete
  <2>5. CASE UNCHANGED vars
    BY <2>5, <1>6 DEF vars
  <2> QED BY <2>1, <2>2, <2>3, <2>4, <2>5, <1>6 DEF Next
<1> QED BY <1>3, <1>4, <1>5, <1>6

\* A clause that is represented stays so.
LEMMA RepresentedStays == ASSUME StepInv, [Next]_vars, NEW c, Represented(c) PROVE Represented(c)'
<1>1. CASE \E l \in c : Negated(l) \in c
  BY <1>1 DEF Represented
<1>2. CASE \E i \in DOMAIN trail : trail[i].level = 0 /\ trail[i].lit \in c
  <2>1. PICK i \in DOMAIN trail : trail[i].level = 0 /\ trail[i].lit \in c
    BY <1>2
  <2>2. Len(trail_lim') \in Nat
    BY TrailTyped DEF TypedTrail
  <2>3. i \in DOMAIN trail' /\ trail'[i] = trail[i]
    BY <2>1, <2>2, LowStays
  <2> QED BY <2>1, <2>3 DEF Represented
<1>3. CASE \E i \in DOMAIN db : ~ db[i].learnt /\ LitsOf(db[i]) \subseteq c
  <2>1. PICK i \in DOMAIN db : ~ db[i].learnt /\ LitsOf(db[i]) \subseteq c
    BY <1>3
  <2>2. PICK j \in DOMAIN db' : ~ db'[j].learnt /\ LitsOf(db'[j]) = LitsOf(db[i])
    BY <2>1, OriginalStays
  <2> QED BY <2>1, <2>2 DEF Represented, LitsOf
<1> QED BY <1>1, <1>2, <1>3 DEF Represented

\* addOriginalSMTClause(): what is not stored is not needed, unless the solver becomes inconsistent.
LEMMA LoadRepresented ==
    ASSUME StepInv, [Next]_vars, addOriginalClause_, Consistent', NEW clause, clause = Round.clauses[loaded + 1]
    PROVE  Represented(clause)'
<1> DEFINE free == {l \in clause : ~ FalseNow(l)}
           holds == \E l \in clause : TrueNow(l) \/ Negated(l) \in clause
<1>1. /\ pc = "load" /\ trail_lim = <<>> /\ ~ (conflict_frame > 0) /\ UNCHANGED <<trail_lim, conflict_frame>>
  BY DEF addOriginalClause_, StepInv, Phases, Loading
<1>2. /\ DOMAIN trail = 1..Len(trail) /\ Len(trail) \in Nat /\ trail \in Seq(Entry)
      /\ \A i \in DOMAIN trail : trail[i].level \in 0..decisionLevel
  BY Typed, Places DEF TypedTrail
<1>3. clause \in SUBSET Literal
  BY LoadClause
<1>4. ok'
  BY <1>1 DEF Consistent
<1>5. CASE holds
  <2>1. CASE \E l \in clause : Negated(l) \in clause
    BY <2>1, RepresentedStays DEF Represented
  <2>2. CASE \E l \in clause : TrueNow(l)
    <3>1. PICK i \in DOMAIN trail : trail[i].lit \in clause
      BY <2>2 DEF TrueNow, OnTrail
    <3>2. trail[i].level = 0
      BY <1>1, <1>2 DEF decisionLevel
    <3> QED BY <3>1, <3>2, RepresentedStays DEF Represented
  <2> QED BY <1>5, <2>1, <2>2
<1>6. ASSUME NEW l \in free, trail' = Enqueued(trail, l, 0, CRef_Undef)
      PROVE  Represented(clause)'
  <2> DEFINE e == [lit |-> l, level |-> 0, reason |-> CRef_Undef]
  <2>1. trail' = Append(trail, e) /\ e.lit = l /\ e.level = 0
    BY <1>6 DEF Enqueued
  <2> HIDE DEF e
  <2>2. DOMAIN trail' = 1..(Len(trail) + 1) /\ trail'[Len(trail) + 1] = e
    BY <2>1, <1>2, AppendProperties
  <2>3. Len(trail) + 1 \in DOMAIN trail' /\ l \in clause
    BY <2>2, <1>2
  <2> QED BY <2>1, <2>2, <2>3 DEF Represented
<1>7. ASSUME db' = Append(db, [lits |-> SetToSeq(free), learnt |-> FALSE])
      PROVE  Represented(clause)'
  <2> DEFINE e == [lits |-> SetToSeq(free), learnt |-> FALSE]
  <2>1. db' = Append(db, e) /\ e.lits = SetToSeq(free) /\ ~ e.learnt
    BY <1>7
  <2>2. free \in SUBSET Literal /\ free \subseteq clause
    BY <1>3
  <2> HIDE DEF e, free
  <2>3. {e.lits[k] : k \in DOMAIN e.lits} = free
    <3>1. LitsIn(SetToSeq(free)) = free
      BY <2>2, Listed
    <3> QED BY <2>1, <3>1 DEF LitsIn
  <2>4. Len(db) + 1 \in DOMAIN db' /\ db'[Len(db) + 1] = e
    <3>1. db \in Seq(Clause) /\ Len(db) \in Nat
      BY Clauses DEF StepInv, TypeOK
    <3>2. DOMAIN db' = 1..(Len(db) + 1) /\ db'[Len(db) + 1] = e
      BY <3>1, <2>1, AppendProperties
    <3> QED BY <3>1, <3>2
  <2>5. LitsOf(db'[Len(db) + 1]) \subseteq clause
    BY <2>2, <2>3, <2>4 DEF LitsOf
  <2> QED BY <2>1, <2>4, <2>5 DEF Represented, LitsOf
<1>8. CASE ~ holds
  <2>1. \/ \E l \in free : trail' = Enqueued(trail, l, 0, CRef_Undef)
        \/ db' = Append(db, [lits |-> SetToSeq(free), learnt |-> FALSE])
    BY <1>4, <1>8 DEF addOriginalClause_
  <2> HIDE DEF free
  <2> QED BY <2>1, <1>6, <1>7
<1> QED BY <1>5, <1>8

\* Every clause that was added is represented, as long as the solver is consistent.
LEMMA RepresentedStep ==
    ASSUME StepInv, [Next]_vars, Consistent', Consistent => \A c \in Added : Represented(c), NEW c \in Added'
    PROVE  Represented(c)'
<1>1. Consistent
  BY ConsistentBefore
<1>2. CASE c \in Added
  BY <1>1, <1>2, RepresentedStays
<1>3. CASE addOriginalClause_ /\ c = Round.clauses[loaded + 1]
  BY <1>3, LoadRepresented
<1> QED BY <1>2, <1>3, AddedStep

-----------------------------------------------------------------------------
(* The assumptions, and the answer of the theory.                          *)

\* The steps that open a level.
LEMMA LevelMoves ==
    ASSUME StepInv, [Next]_vars
    PROVE  Len(trail_lim') <= decisionLevel \/ skipAssumption \/ assume \/ pickBranchLit
<1>1. decisionLevel \in Nat
  BY Typed, Places
<1>2. CASE trail_lim' = trail_lim
  BY <1>1, <1>2 DEF decisionLevel
<1>3. CASE learn \/ stop \/ restart \/ handleUnsat \/ addUnitSplit \/ clearSearch
  <2>1. CASE \E k \in 0..decisionLevel : Cancels(k)
    <3>1. PICK k \in 0..decisionLevel : Cancels(k)
      BY <2>1
    <3>2. trail_lim' = SubSeq(trail_lim, 1, k)
      BY <3>1 DEF Cancels, Cuts, Adds
    <3>3. Len(trail_lim') = k
      BY <3>2, Typed, KeptPart
    <3> QED BY <1>1, <3>3
  <2>2. CASE UNCHANGED <<order_heap, trailVars>>
    BY <1>2, <2>2 DEF trailVars
  <2> QED BY <1>3, <2>1, <2>2, CancelStep
<1>4. CASE addOriginalClause_ \/ solve_ \/ takeLiteral \/ keepWatch \/ moveWatch \/ propagateUnit \/ falsified
  BY <1>2, <1>4
     DEF addOriginalClause_, solve_, takeLiteral, keepWatch, moveWatch, propagateUnit, falsified, visit, trailVars
<1>5. CASE propagated \/ resolve \/ simplify \/ removeSatisfied \/ assertLit \/ handleSat \/ deduceTheory
  BY <1>2, <1>5
     DEF propagated, resolve, simplify, removeSatisfied, assertLit, handleSat, deduceTheory, trailVars
<1>6. CASE handleNewSplitClauses \/ addSplit \/ enqueueSplits \/ analyzeFinal \/ complete \/ UNCHANGED vars
  BY <1>2, <1>6 DEF handleNewSplitClauses, addSplit, enqueueSplits, analyzeFinal, complete, vars, trailVars
<1> QED BY <1>3, <1>4, <1>5, <1>6 DEF Next

\* The level of an assumption is opened for it, and it stays true as long as that level is there.
LEMMA AssumedStep == ASSUME StepInv, AssumptionsDecided, [Next]_vars, AssumedTrue PROVE AssumedTrue'
<1>1. /\ decisionLevel \in Nat /\ Len(assumptions) \in Nat /\ trail \in Seq(Entry) /\ Len(trail) \in Nat
      /\ DOMAIN trail = 1..Len(trail) /\ \A i \in DOMAIN trail : trail[i].level \in 0..decisionLevel
  BY Typed, Places, Asked DEF StepInv, TypedTrail
<1>2. Len(trail_lim') \in Nat
  BY TrailTyped DEF TypedTrail
<1>3. CASE clearSearch
  BY <1>3, ClearLevels DEF AssumedTrue, decisionLevel
<1>4. CASE ~ clearSearch
  <2>1. assumptions' = assumptions
    BY <1>4, SameRound DEF assumptions
  <2> SUFFICES ASSUME NEW j \in 1..Len(trail_lim'), j <= Len(assumptions)
               PROVE  \E i \in DOMAIN trail' : trail'[i].lit = assumptions[j] /\ trail'[i].level <= j
    BY <2>1 DEF AssumedTrue, decisionLevel
  <2>2. ASSUME NEW i \in DOMAIN trail, trail[i].lit = assumptions[j], trail[i].level <= j
        PROVE  \E m \in DOMAIN trail' : trail'[m].lit = assumptions[j] /\ trail'[m].level <= j
    <3>1. trail[i].level <= Len(trail_lim')
      BY <1>1, <1>2, <2>2
    <3> QED BY <2>2, <3>1, LowStays
  <2>3. CASE j <= decisionLevel
    <3>1. j \in 1..decisionLevel
      BY <1>1, <2>3
    <3> QED BY <3>1, <2>2 DEF AssumedTrue
  <2>4. CASE ~ (j <= decisionLevel)
    <3>1. ~ (Len(trail_lim') <= decisionLevel)
      BY <1>1, <1>2, <2>4
    <3>2. CASE skipAssumption
      <4>1. trail' = trail /\ Len(trail_lim') = decisionLevel + 1 /\ TrueNow(assumptions[decisionLevel + 1])
        BY <3>2, Typed, AppendProperties DEF skipAssumption, decisionLevel, TypedTrail
      <4>2. j = decisionLevel + 1
        BY <1>1, <2>4, <4>1
      <4>3. PICK i \in DOMAIN trail : trail[i].lit = assumptions[j]
        BY <4>1, <4>2 DEF TrueNow, OnTrail
      <4>4. trail[i].level <= j
        BY <1>1, <4>2
      <4> QED BY <2>2, <4>3, <4>4
    <3>3. CASE assume
      <4> DEFINE e == [lit |-> assumptions[decisionLevel + 1], level |-> decisionLevel + 1, reason |-> CRef_Undef]
      <4>1. trail' = Append(trail, e) /\ trail_lim' = Append(trail_lim, Len(trail))
        BY <3>3 DEF assume, NewLevel, Enqueued
      <4>2. e.lit = assumptions[decisionLevel + 1] /\ e.level = decisionLevel + 1
        OBVIOUS
      <4> HIDE DEF e
      <4>3. DOMAIN trail' = 1..(Len(trail) + 1) /\ trail'[Len(trail) + 1] = e
        BY <1>1, <4>1, AppendProperties
      <4>4. Len(trail_lim') = decisionLevel + 1
        BY <4>1, Typed, AppendProperties DEF decisionLevel, TypedTrail
      <4>5. j = decisionLevel + 1 /\ Len(trail) + 1 \in DOMAIN trail'
        BY <1>1, <2>4, <4>3, <4>4
      <4>6. trail'[Len(trail) + 1].lit = assumptions[j] /\ trail'[Len(trail) + 1].level = j
        BY <4>2, <4>3, <4>5
      <4>7. trail'[Len(trail) + 1].level <= j
        BY <4>6
      <4> QED BY <4>5, <4>6, <4>7
    <3>4. CASE pickBranchLit
      <4>1. decisionLevel >= Len(assumptions)
        BY <3>4 DEF pickBranchLit, Deciding, AssumptionsDecided
      <4> QED BY <1>1, <2>4, <4>1
    <3> QED BY <3>1, <3>2, <3>3, <3>4, LevelMoves
  <2> QED BY <2>3, <2>4
<1> QED BY <1>3, <1>4

\* After the search has begun, the theory solver has every literal of the stack that is about its atoms.
LEMMA AllGiven ==
    ASSUME StepInv, ~ Loading, Len(stack) = Len(trail), NEW l \in Literal, l.tr \in problem.theory
    PROVE  l \in Given <=> TrueNow(l)
<1>1. /\ DOMAIN trail = 1..Len(trail) /\ Len(trail) \in Nat
      /\ DOMAIN stack = 1..Len(stack) /\ \A i \in DOMAIN stack : stack[i] = trail[i].lit
      /\ stack \in Seq(Literal) /\ given \in Seq(Literal)
  BY Typed, Places DEF StepInv, TypeOK, TheoryMirrorsTrail
<1>2. l \in Given => TrueNow(l)
  BY GivenTrue
<1>3. ASSUME TrueNow(l) PROVE l \in Given
  <2>1. PICK i \in DOMAIN trail : trail[i].lit = l
    BY <1>3 DEF TrueNow, OnTrail
  <2>2. l.tr \in informed
    <3>1. l.tr \in Assigned
      BY <2>1 DEF Assigned
    <3> QED BY <3>1 DEF StepInv, Declared
  <2>3. i \in 1..Len(stack) /\ i \in Nat /\ Len(stack) \in Nat /\ i <= Len(stack) /\ 0 \in Nat /\ 0 < i /\ 0 <= i
    BY <2>1, <1>1
  <2>4. i \in ToldOf(stack, Len(stack), informed) /\ i \in ToldOf(stack, i, informed) /\ stack[i] = l
    BY <1>1, <2>1, <2>2, <2>3 DEF ToldOf
  <2> DEFINE n == Cardinality(ToldOf(stack, i, informed))
  <2>5. Len(given) = Cardinality(ToldOf(stack, Len(stack), informed)) /\ given[n] = l
    BY <2>4, Pieces DEF TheoryPieces, Mirrored
  <2>6. Cardinality(ToldOf(stack, 0, informed)) \in Nat /\ Cardinality(ToldOf(stack, 0, informed)) < n
    BY <2>3, <2>4, Counting
  <2>7. n \in Nat /\ n <= Len(given)
    BY <2>3, <2>5, Counting
  <2> HIDE DEF n
  <2>8. n \in DOMAIN given
    <3>1. DOMAIN given = 1..Len(given) /\ Len(given) \in Nat
      BY <1>1
    <3> QED BY <2>6, <2>7, <3>1
  <2> QED BY <2>5, <2>8 DEF Given
<1> QED BY <1>2, <1>3

\* The theory, of which TheoryAssumption says what it is about.
LEMMA TheoryAtoms ==
    ASSUME TypeOK
    PROVE  /\ \A k \in problem.conflicts : \A l \in k : l \in Literal /\ l.tr \in problem.theory
           /\ \A c \in problem.splits : \A l \in c : l \in Literal /\ l.tr \in problem.theory
<1>1. problem \in Problems
  BY DEF TypeOK
<1>2. \A l \in UNION (problem.conflicts \cup problem.splits) : l.tr \in problem.theory
  BY <1>1, TheoryAssumption
<1> QED BY <1>2, Asked

\* A split clause that is fetched has a literal without a value.
LEMMA FetchedOpen ==
    ASSUME StepInv, handleNewSplitClauses, NEW c \in Splits
    PROVE  \E l \in c : l \in Literal /\ l.tr \notin Assigned
<1>1. /\ pc = "complete" /\ Len(stack) = Len(trail) /\ ~ Contradictory(Given) /\ ~ Loading /\ TypeOK
  BY DEF handleNewSplitClauses, Accepted, Asserted, Loading, StepInv
<1>2. c \in problem.splits /\ \A l \in c : ~ TrueNow(l)
  BY DEF Splits
<1>3. PICK l \in c : Negated(l) \notin Given
  BY <1>1, <1>2 DEF Contradictory
<1>4. l \in Literal /\ l.tr \in problem.theory
  BY <1>1, <1>2, TheoryAtoms
<1>5. Negated(l) \in Literal /\ Negated(l).tr = l.tr
  BY <1>4, Negation
<1>6. ~ FalseNow(l)
  BY <1>1, <1>3, <1>4, <1>5, AllGiven DEF FalseNow, TrueNow
<1> QED BY <1>2, <1>4, <1>6, Typed, Places DEF Undefined

\* The variables that wait, in another state of the same heap and trail.
LEMMA SameCandidates ==
    ASSUME UNCHANGED <<order_heap, decision, trail>>
    PROVE  Candidates' = Candidates
BY DEF Candidates, Assigned

\* What the theory agreed to, in another state of it and the trail.
LEMMA SameAgreed ==
    ASSUME UNCHANGED <<problem, trail, stack, given>>
    PROVE  Agreed' <=> Agreed
BY DEF Agreed, Contradictory, Given, Splits, TrueNow, OnTrail

\* The answer of the theory holds until it is used: a deduction that is new, or a split clause that
\* is unit, takes the search back to propagation.
LEMMA BelievedStep ==
    ASSUME StepInv, Consistent => Propagation, HeapComplete, [Next]_vars, Believed
    PROVE  Believed'
<1> SUFFICES ASSUME pc' = "last" \/ res' = "last" PROVE Agreed' \/ Candidates' # {}
  BY DEF Believed
<1>1. (res = "none" <=> pc \notin {"deduce", "split"}) /\ (~ ok => pc \in {"load", "done"})
  BY DEF StepInv, Phases
<1>2. CASE handleSat
  <2>1. pc = "complete" /\ Splits = {}
    <3>1. pc \in {"entry", "early", "complete"} /\ pc' = "deduce" /\ res' = "last"
      BY <1>2 DEF handleSat, Accepted, Asserted, InCheck
    <3>2. pc # "entry"
      BY <1>2, <3>1 DEF handleSat
    <3>3. pc # "early"
      BY <1>2, <3>1 DEF handleSat
    <3> QED BY <1>2, <3>1, <3>2, <3>3 DEF handleSat
  <2>2. Agreed
    BY <1>2, <2>1 DEF handleSat, Accepted, Asserted, Agreed
  <2>3. UNCHANGED <<problem, trail, stack, given>>
    BY <1>2 DEF handleSat, inputVars, trailVars, theoryVars
  <2> QED BY <2>2, <2>3, SameAgreed
<1>3. CASE deduceTheory
  <2>1. res = "last" /\ UNCHANGED <<problem, trail, stack, given, order_heap, decision>>
    BY <1>3 DEF deduceTheory, inputVars, clauseVars
  <2> QED BY <2>1, SameAgreed, SameCandidates DEF Believed
<1>4. CASE handleNewSplitClauses
  <2>1. PICK batch \in (SUBSET Splits) \ {{}} :
           /\ decision' = decision \cup {l.tr : l \in UNION batch}
           /\ order_heap' = order_heap \cup {l.tr : l \in UNION batch}
    BY <1>4 DEF handleNewSplitClauses, addVars
  <2>2. PICK c \in batch : c \in Splits
    BY <2>1
  <2>3. PICK l \in c : l.tr \notin Assigned
    BY <1>4, <2>2, FetchedOpen
  <2>4. l.tr \in {m.tr : m \in UNION batch}
    BY <2>2, <2>3
  <2>5. Assigned' = Assigned
    BY <1>4 DEF handleNewSplitClauses, trailVars, Assigned
  <2>6. l.tr \in Candidates'
    BY <2>1, <2>3, <2>4, <2>5 DEF Candidates
  <2> QED BY <2>6
<1>5. CASE addSplit
  <2>1. res = "last" /\ UNCHANGED <<problem, trail, stack, given, order_heap, decision>>
    BY <1>1, <1>5 DEF addSplit, inputVars, trailVars, theoryVars
  <2> QED BY <2>1, SameAgreed, SameCandidates DEF Believed
<1>6. CASE enqueueSplits
  <2>1. pc = "split" /\ Consistent
    BY <1>1, <1>6 DEF enqueueSplits, Consistent
  <2>2. propData # <<>> => res = "propagate"
    BY <2>1 DEF Propagation, Caught
  <2>3. res = "last" /\ UNCHANGED <<problem, trail, stack, given, order_heap, decision>>
    BY <1>6, <2>2 DEF enqueueSplits, inputVars, clauseVars, theoryVars
  <2> QED BY <2>3, SameAgreed, SameCandidates DEF Believed
<1>7. CASE UNCHANGED vars
  <2>1. UNCHANGED <<problem, trail, stack, given, order_heap, decision, pc, res>>
    BY <1>7 DEF vars, inputVars, trailVars, theoryVars, clauseVars, splitVars
  <2> QED BY <2>1, SameAgreed, SameCandidates DEF Believed
<1>8. CASE addOriginalClause_ \/ solve_ \/ takeLiteral \/ keepWatch \/ moveWatch \/ propagateUnit \/ falsified
  BY <1>1, <1>8
     DEF addOriginalClause_, solve_, takeLiteral, keepWatch, moveWatch, propagateUnit, falsified, visit,
         Propagating, analyze, zeroLevelConflictHandler, Answer, splitVars
<1>9. CASE propagated \/ resolve \/ learn \/ stop \/ restart \/ simplify \/ removeSatisfied \/ assertLit
  BY <1>1, <1>9
     DEF propagated, resolve, learn, stop, restart, simplify, removeSatisfied, assertLit, Propagating, InCheck,
         Answer, splitVars
<1>10. CASE handleUnsat
  BY <1>1, <1>10
     DEF handleUnsat, Asserted, InCheck, analyze, zeroLevelConflictHandler, Answer, splitVars
<1>11. CASE addUnitSplit
  BY <1>1, <1>11 DEF addUnitSplit
<1>12. CASE skipAssumption \/ assume \/ analyzeFinal \/ pickBranchLit \/ complete \/ clearSearch
  BY <1>1, <1>12
     DEF skipAssumption, assume, analyzeFinal, pickBranchLit, complete, clearSearch, Deciding, NewLevel,
         zeroLevelConflictHandler, Answer, splitVars
<1> QED BY <1>2, <1>3, <1>4, <1>5, <1>6, <1>7, <1>8, <1>9, <1>10, <1>11, <1>12 DEF Next

-----------------------------------------------------------------------------
(* The model.                                                              *)

\* The values of the trail, and those of a model of the theory elsewhere.
Completed(a) == [v \in Atoms |-> IF v \in Assigned THEN trail[EntryOf(v)].lit.sgn ELSE a[v]]

\* The theory has a model that agrees with the trail.
LEMMA TheoryModel ==
    ASSUME StepInv, ~ Loading, Agreed
    PROVE  \E a \in [Atoms -> BOOLEAN] :
              /\ \A l \in Given : Holds(a, l)
              /\ \A k \in problem.conflicts : \E l \in k : ~ Holds(a, l)
<1>1. TypeOK /\ problem \in Problems /\ ~ Contradictory(Given) /\ Splits = {} /\ Len(stack) = Len(trail)
  BY DEF StepInv, TypeOK, Agreed
<1>2. Given \in SUBSET {l \in Literal : l.tr \in problem.theory}
  <2> SUFFICES ASSUME NEW l \in Given PROVE l \in Literal /\ l.tr \in problem.theory
    OBVIOUS
  <2>1. PICK k \in DOMAIN given : given[k] = l
    BY DEF Given
  <2>2. PICK i \in Told(Len(stack)) : given[k] = stack[i]
    BY DEF StepInv, Marks
  <2>3. l.tr \in informed
    BY <2>1, <2>2 DEF Told
  <2> QED BY <2>3, GivenTrue DEF StepInv, Declared
<1>3. \A l \in Given : Negated(l) \notin Given
  <2> SUFFICES ASSUME NEW l \in Given, Negated(l) \in Given PROVE FALSE
    OBVIOUS
  <2>1. l \in Literal /\ TrueNow(l) /\ TrueNow(Negated(l))
    BY GivenTrue
  <2> QED BY <2>1, Typed, Places DEF FalseNow, TrueNow
<1>4. \A k \in problem.conflicts : ~ k \subseteq Given
  BY <1>1 DEF Contradictory
<1>5. \A c \in problem.splits : c \cap Given # {}
  <2> SUFFICES ASSUME NEW c \in problem.splits PROVE \E l \in c : l \in Given
    OBVIOUS
  <2>1. PICK l \in c : TrueNow(l)
    BY <1>1 DEF Splits
  <2>2. l \in Literal /\ l.tr \in problem.theory
    BY <1>1, TheoryAtoms
  <2> QED BY <1>1, <2>1, <2>2, AllGiven
<1> HIDE DEF Given
<1>6. \A S \in SUBSET {l \in Literal : l.tr \in problem.theory} :
         /\ \A l \in S : Negated(l) \notin S
         /\ \A k \in problem.conflicts : ~ k \subseteq S
         /\ \A c \in problem.splits : c \cap S # {}
         => \E a \in [Atoms -> BOOLEAN] : /\ \A l \in S : Holds(a, l)
                                         /\ \A k \in problem.conflicts : \E l \in k : ~ Holds(a, l)
  BY <1>1, TheoryAssumption
<1> QED BY <1>2, <1>3, <1>4, <1>5, <1>6

\* The completed assignment satisfies the trail.
LEMMA CompletedTrue ==
    ASSUME StepInv, NEW a \in [Atoms -> BOOLEAN]
    PROVE  /\ Completed(a) \in [Atoms -> BOOLEAN]
           /\ \A l \in OnTrail : Holds(Completed(a), l)
           /\ \A v \in Atoms : v \notin Assigned => Completed(a)[v] = a[v]
<1>1. \A v \in Assigned : EntryOf(v) \in DOMAIN trail /\ trail[EntryOf(v)].lit \in Literal
  BY Typed, Places
<1>2. Completed(a) \in [Atoms -> BOOLEAN]
  <2>1. \A l \in Literal : l.sgn \in BOOLEAN
    BY DEF Literal
  <2> QED BY <1>1, <2>1 DEF Completed
<1>3. ASSUME NEW l \in OnTrail PROVE Holds(Completed(a), l)
  <2>1. PICK i \in DOMAIN trail : trail[i].lit = l
    BY DEF OnTrail
  <2>2. l \in Literal /\ l.tr \in Atoms /\ EntryOf(l.tr) = i /\ l.tr \in Assigned
    BY <2>1, Typed, Places DEF Literal, Assigned
  <2>3. Completed(a)[l.tr] = l.sgn
    BY <2>1, <2>2 DEF Completed
  <2> QED BY <2>3 DEF Holds
<1> QED BY <1>2, <1>3 DEF Completed

\* It agrees with the model on the atoms of the theory, so that the theory allows it.
LEMMA CompletedAllowed ==
    ASSUME StepInv, ~ Loading, Agreed, NEW a \in [Atoms -> BOOLEAN], \A l \in Given : Holds(a, l),
           \A k \in problem.conflicts : \E l \in k : ~ Holds(a, l)
    PROVE  Completed(a) \in Models
<1>1. TypeOK /\ Splits = {} /\ Len(stack) = Len(trail)
  BY DEF StepInv, Agreed
<1>2. ASSUME NEW l \in Literal, l.tr \in problem.theory PROVE Holds(Completed(a), l) <=> Holds(a, l)
  <2>1. l.tr \in Atoms /\ Negated(l) \in Literal /\ Negated(l).tr = l.tr
    BY Negation
  <2>2. CASE TrueNow(l)
    <3>1. l \in Given
      BY <1>1, <1>2, <2>2, AllGiven
    <3> QED BY <2>2, <3>1, CompletedTrue DEF TrueNow
  <2>3. CASE FalseNow(l)
    <3>1. Negated(l) \in Given
      BY <1>1, <1>2, <2>1, <2>3, AllGiven DEF FalseNow, TrueNow
    <3>2. Holds(a, Negated(l)) /\ Holds(Completed(a), Negated(l)) /\ Completed(a) \in [Atoms -> BOOLEAN]
      BY <2>3, <3>1, CompletedTrue DEF FalseNow
    <3> QED BY <3>2, HoldsOne
  <2>4. CASE Undefined(l)
    <3>1. l.tr \notin Assigned
      BY <2>4, Typed, Places
    <3> QED BY <2>1, <3>1, CompletedTrue DEF Holds
  <2> QED BY <2>2, <2>3, <2>4 DEF Undefined
<1>3. \A k \in problem.conflicts : \E l \in k : ~ Holds(Completed(a), l)
  BY <1>1, <1>2, TheoryAtoms
<1>4. ASSUME NEW c \in problem.splits PROVE \E l \in c : Holds(Completed(a), l)
  <2>1. PICK l \in c : TrueNow(l)
    BY <1>1 DEF Splits
  <2> QED BY <2>1, CompletedTrue DEF TrueNow
<1> QED BY <1>3, <1>4, CompletedTrue DEF Models

\* When every variable that may be decided has a value, every clause that was added is true.
LEMMA AllTrue ==
    ASSUME SatInv, pc = "last", Candidates = {}, NEW c \in Added
    PROVE  \E l \in c : TrueNow(l) \/ Negated(l) \in c
<1>1. StepInv /\ WatchInv /\ Consistent /\ HeapComplete /\ AtomsDecided
  BY DEF SatInv, WatchInv, StepInv, Phases, Consistent
<1>2. Represented(c)
  BY <1>1 DEF SatInv
<1>3. CASE \E i \in DOMAIN trail : trail[i].level = 0 /\ trail[i].lit \in c
  BY <1>3 DEF TrueNow, OnTrail
<1>4. CASE \E i \in DOMAIN db : ~ db[i].learnt /\ LitsOf(db[i]) \subseteq c
  <2>1. PICK i \in DOMAIN db : ~ db[i].learnt /\ LitsOf(db[i]) \subseteq c
    BY <1>4
  <2>2. PICK l \in LitsOf(db[i]) : ~ FalseNow(l)
    BY <1>1, NoneFalse DEF NoClauseFalse
  <2>3. l \in Literal /\ l.tr \in Atoms
    <3>1. l \in Literal
      BY <1>1, <2>2, Clauses DEF StepInv
    <3> QED BY <3>1 DEF Literal
  <2>4. OriginalAtom(l.tr)
    BY <2>1, <2>2 DEF OriginalAtom
  <2>5. l.tr \in decision
    BY <1>1, <2>3, <2>4 DEF AtomsDecided
  <2>6. l.tr \in Assigned
    BY <1>1, <2>5 DEF HeapComplete, Candidates
  <2>7. TrueNow(l)
    BY <1>1, <2>2, <2>3, <2>6, Typed, Places DEF Undefined
  <2> QED BY <2>1, <2>2, <2>7
<1> QED BY <1>2, <1>3, <1>4 DEF Represented

\* The answer: a model with the assumptions that gives every clause a literal.
ModelRight ==
    /\ Satisfying(OnTrail \cup {assumptions[j] : j \in DOMAIN assumptions}) # {}
    /\ \A c \in Added : \E l \in c : TrueNow(l) \/ Negated(l) \in c

\* The clauses that were added are sets of literals.
LEMMA AddedLiterals == ASSUME TypeOK, NEW c \in Added PROVE c \in SUBSET Literal
<1>1. problem \in Problem /\ round \in DOMAIN problem.rounds /\ loaded \in 0..Len(Round.clauses)
  BY CoreSMTSolverAssumption DEF TypeOK
<1> DEFINE R == [clauses : Seq(SUBSET Literal), assumptions : Seq(Literal)]
<1>2. problem.rounds \in Seq(R)
  BY <1>1 DEF Problem
<1>3. \A r \in R : r.clauses \in Seq(SUBSET Literal)
  OBVIOUS
<1> HIDE DEF R
<1>4. /\ DOMAIN problem.rounds = 1..Len(problem.rounds) /\ Len(problem.rounds) \in Nat
      /\ \A r \in DOMAIN problem.rounds : problem.rounds[r] \in R
  BY <1>2, LenProperties, ElementOfSeq
<1>5. CASE \E r \in 1..(round - 1) : \E j \in DOMAIN problem.rounds[r].clauses : c = problem.rounds[r].clauses[j]
  <2>1. PICK r \in 1..(round - 1) : \E j \in DOMAIN problem.rounds[r].clauses : c = problem.rounds[r].clauses[j]
    BY <1>5
  <2>2. r \in DOMAIN problem.rounds
    BY <1>1, <1>4
  <2> QED BY <2>1, <2>2, <1>3, <1>4
<1>6. CASE \E j \in 1..loaded : c = Round.clauses[j]
  <2>1. Round.clauses \in Seq(SUBSET Literal)
    BY <1>1, <1>3, <1>4 DEF Round
  <2>2. DOMAIN Round.clauses = 1..Len(Round.clauses) /\ Len(Round.clauses) \in Nat
    BY <2>1
  <2>3. \A j \in 1..loaded : j \in DOMAIN Round.clauses
    BY <1>1, <2>2
  <2> QED BY <1>6, <2>1, <2>3
<1> QED BY <1>5, <1>6 DEF Added

\* What is a model stays one as long as the trail and what was added stay.
LEMMA ModelStays ==
    ASSUME ModelRight, UNCHANGED <<problem, round, loaded, trail>>
    PROVE  ModelRight'
<1>1. Added' = Added /\ OnTrail' = OnTrail /\ assumptions' = assumptions /\ Models' = Models
  BY DEF Added, Round, OnTrail, assumptions, Models
<1> QED BY <1>1 DEF ModelRight, Satisfying, TrueNow

\* What the search has found when nothing is left to decide is a model.
LEMMA LastRight == ASSUME SatInv, pc = "last", Candidates = {} PROVE ModelRight
<1>1. StepInv /\ ~ Loading /\ Believed /\ AssumptionsDecided /\ AssumedTrue
  BY DEF SatInv, WatchInv, Loading
<1>2. \A c \in Added : \E l \in c : TrueNow(l) \/ Negated(l) \in c
  BY AllTrue
<1>3. Agreed
  BY <1>1 DEF Believed
<1>4. PICK a \in [Atoms -> BOOLEAN] :
         (\A l \in Given : Holds(a, l)) /\ (\A k \in problem.conflicts : \E l \in k : ~ Holds(a, l))
  BY <1>1, <1>3, TheoryModel
<1> DEFINE b == Completed(a)
<1>5. b \in Models /\ b \in [Atoms -> BOOLEAN] /\ \A l \in OnTrail : Holds(b, l)
  BY <1>1, <1>3, <1>4, CompletedAllowed, CompletedTrue
<1> HIDE DEF b
<1>6. \A j \in DOMAIN assumptions : assumptions[j] \in OnTrail
  <2>1. /\ decisionLevel \in Nat /\ Len(assumptions) \in Nat /\ DOMAIN assumptions = 1..Len(assumptions)
        /\ decisionLevel >= Len(assumptions)
    BY <1>1, Typed, Places, Asked DEF StepInv, AssumptionsDecided
  <2> SUFFICES ASSUME NEW j \in 1..Len(assumptions) PROVE assumptions[j] \in OnTrail
    BY <2>1
  <2>2. j \in 1..decisionLevel /\ j <= Len(assumptions)
    BY <2>1
  <2> QED BY <1>1, <2>2 DEF AssumedTrue, OnTrail
<1>7. ASSUME NEW c \in Added PROVE \E l \in c : Holds(b, l)
  <2>1. PICK l \in c : TrueNow(l) \/ Negated(l) \in c
    BY <1>2
  <2>2. CASE TrueNow(l)
    BY <1>5, <2>1, <2>2 DEF TrueNow
  <2>3. CASE Negated(l) \in c
    <3>1. l \in Literal
      BY <1>1, <2>1, AddedLiterals DEF StepInv
    <3> QED BY <1>5, <2>1, <2>3, <3>1, HoldsOne
  <2> QED BY <2>1, <2>2, <2>3
<1>8. b \in Satisfying(OnTrail \cup {assumptions[j] : j \in DOMAIN assumptions})
  BY <1>5, <1>6, <1>7 DEF Satisfying
<1> QED BY <1>2, <1>8 DEF ModelRight

\* The answer is given after the last check only, and stands until the next one begins.
LEMMA SatRightStep == ASSUME SatInv, [Next]_vars PROVE SatAnswersRight'
<1> SUFFICES ASSUME pc' = "done", status' = "l_True" PROVE ModelRight'
  BY DEF SatAnswersRight, ModelRight
<1>1. CASE complete
  <2>1. pc = "last" /\ Candidates = {}
    BY <1>1 DEF complete, Deciding
  <2>2. ModelRight
    BY <2>1, LastRight
  <2>3. UNCHANGED <<problem, round, loaded, trail>>
    BY <1>1 DEF complete, inputVars, trailVars
  <2> QED BY <2>2, <2>3, ModelStays
<1>2. CASE UNCHANGED vars
  <2>1. pc = "done" /\ status = "l_True" /\ UNCHANGED <<problem, round, loaded, trail>>
    BY <1>2 DEF vars, inputVars, trailVars, answerVars
  <2>2. ModelRight
    BY <2>1 DEF SatInv, SatAnswersRight, ModelRight
  <2> QED BY <2>1, <2>2, ModelStays
<1>3. CASE addOriginalClause_ \/ solve_ \/ takeLiteral \/ keepWatch \/ moveWatch \/ propagateUnit \/ falsified
  BY <1>3
     DEF addOriginalClause_, solve_, takeLiteral, keepWatch, moveWatch, propagateUnit, falsified, visit,
         Propagating, analyze, zeroLevelConflictHandler, Answer
<1>4. CASE propagated \/ resolve \/ learn \/ stop \/ restart \/ simplify \/ removeSatisfied \/ assertLit
  BY <1>4
     DEF propagated, resolve, learn, stop, restart, simplify, removeSatisfied, assertLit, InCheck, Answer
<1>5. CASE handleUnsat \/ handleSat \/ handleNewSplitClauses \/ addUnitSplit \/ addSplit
  BY <1>5
     DEF handleUnsat, handleSat, handleNewSplitClauses, addUnitSplit, addSplit, analyze,
         zeroLevelConflictHandler, Answer
<1>6. CASE deduceTheory \/ enqueueSplits
  <2>1. res \in {"none", "propagate", "decide", "last"}
    BY DEF SatInv, WatchInv, StepInv, TypeOK
  <2> QED BY <1>6, <2>1 DEF deduceTheory, enqueueSplits
<1>7. CASE skipAssumption \/ assume \/ analyzeFinal \/ pickBranchLit \/ clearSearch
  BY <1>7
     DEF skipAssumption, assume, analyzeFinal, pickBranchLit, clearSearch, NewLevel, zeroLevelConflictHandler,
         Answer
<1> QED BY <1>1, <1>2, <1>3, <1>4, <1>5, <1>6, <1>7 DEF Next

-----------------------------------------------------------------------------
(* What holds from the beginning to the end.                               *)

\* Every step keeps the invariant.
LEMMA SatInvNext == ASSUME SatInv, [Next]_vars PROVE SatInv'
<1>1. StepInv /\ (Consistent => Propagation) /\ WatchInv'
  BY WatchInvNext DEF SatInv, WatchInv
<1>2. AssumptionsDecided'
  BY <1>1, DecidedStep, AboveStep DEF SatInv, AssumptionsDecided, DecidedRight, Above
<1>3. HeapComplete' /\ AtomsDecided' /\ AssumedTrue' /\ Believed'
  BY <1>1, HeapStep, AtomsDecidedStep, AssumedStep, BelievedStep DEF SatInv
<1>4. SatAnswersRight'
  BY SatRightStep
<1>5. ASSUME Consistent', NEW c \in Added' PROVE Represented(c)'
  BY <1>1, <1>5, RepresentedStep DEF SatInv
<1> QED BY <1>1, <1>2, <1>3, <1>4, <1>5 DEF SatInv

\* A new solver has no clause and no literal.
LEMMA SatInvInit == ASSUME Init PROVE SatInv
<1>1. WatchInv
  BY WatchInvInit
<1>2. AssumptionsDecided
  BY ImpliedInvInit DEF ImpliedInv
<1>3. HeapComplete /\ AtomsDecided /\ AssumedTrue
  BY DEF Init, HeapComplete, AtomsDecided, OriginalAtom, SplitAtom, AssumedTrue, decisionLevel
<1>4. Believed /\ SatAnswersRight
  BY DEF Init, Believed, SatAnswersRight
<1>5. Added = {}
  <2>1. 1..(round - 1) = {} /\ 1..loaded = {}
    BY DEF Init
  <2> QED BY <2>1 DEF Added
<1> QED BY <1>1, <1>2, <1>3, <1>4, <1>5 DEF SatInv

\* For every problem, theory and way the search can go: when it answers "sat", an assignment that the
\* theory allows satisfies the trail, the assumptions and every clause that was added, and every clause
\* but those with a literal and its negation has a true literal on the trail (search, solve_).
THEOREM SatAnswersAlwaysRight == Spec => []SatAnswersRight
<1>1. Init => SatInv
  BY SatInvInit
<1>2. SatInv /\ [Next]_vars => SatInv'
  BY SatInvNext
<1>3. SatInv => SatAnswersRight
  BY DEF SatInv
<1> QED BY <1>1, <1>2, <1>3, PTL DEF Spec

\* Whatever the search answers is right.
THEOREM AnswersAlwaysRight == Spec => []AnswerRight
<1>1. Spec => [](SatAnswersRight /\ UnsatAnswersRight)
  BY SatAnswersAlwaysRight, UnsatAnswersAlwaysRight, PTL
<1>2. SatAnswersRight /\ UnsatAnswersRight => AnswerRight
  BY DEF AnswerRight
<1> QED BY <1>1, <1>2, PTL
=============================================================================
