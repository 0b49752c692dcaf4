------------------------ MODULE CoreSMTSolverProofs ------------------------
(***************************************************************************)
(* The search keeps its records in step, for all problems: the levels of   *)
(* the trail, the reasons, the clause being resolved, and the mirror of    *)
(* the trail in the theory solver.                                         *)
(***************************************************************************)
EXTENDS CoreSMTSolver, TLAPS, FiniteSetTheorems, SequenceTheorems, WellFoundedInduction

Loading == pc \in {"load", "unit"}

\* What is left of the loops where the solver is not in them, and what each place of it means.
Phases ==
    /\ watchers # {} => pc \in {"watch", "unit"}
    /\ seen # {} => pc = "analyze"
    /\ new_splits # <<>> \/ propData # <<>> => pc = "split"
    /\ res = "none" <=> pc \notin {"deduce", "split"}
    /\ Loading => trail_lim = <<>> /\ stack = <<>>
    /\ ~ Loading => loaded = Len(Round.clauses)
    /\ ~ ok => pc \in {"load", "done"}
    /\ conflict_frame > 0 => pc = "done" /\ ~ ok
    /\ pc = "done" /\ status = "l_False" => ~ ok

\* The atoms of a trail are distinct, and the levels are where trail_lim says; above level 0 the first
\* literal of a level is the only one without a reason.
Levelled(tr, lim) ==
    /\ \A i, j \in DOMAIN tr : tr[i].lit.tr = tr[j].lit.tr => i = j
    /\ \A i \in DOMAIN tr : tr[i].level \in 0..Len(lim)
    /\ \A i \in DOMAIN tr, k \in DOMAIN lim : lim[k] < i <=> k <= tr[i].level
    /\ \A j, k \in DOMAIN lim : j <= k => lim[j] <= lim[k]
    /\ \A i \in DOMAIN tr : tr[i].level > 0 /\ tr[i].reason = CRef_Undef => i = lim[tr[i].level] + 1

ReasonsFalse(tr) ==
    \A i \in DOMAIN tr :
        tr[i].reason \notin {CRef_Undef, CRef_Fake}
            => \A l \in tr[i].reason : \E j \in 1..(i - 1) : tr[j].lit = Negated(l)

\* The clauses still to be visited watch the literal that is being propagated.
Watched ==
    /\ \A i \in DOMAIN db : Len(db[i].lits) > 1
    /\ \A i \in watchers : qhead > 0 /\ FalseLit \in {db[i].lits[1], db[i].lits[2]}

\* The literals resolved on, and the reasons of those that a split implies, are false.
Resolvents ==
    /\ \A l \in seen : FalseNow(l) /\ LevelOf(l) > 0
    /\ \A k \in DOMAIN propData : \A l \in propData[k].reason : FalseNow(l)

Told(n) == {i \in 1..n : stack[i].tr \in informed}

\* The theory solver has nothing else than what it was told, and its marks are in order.
Marks ==
    /\ \A k \in DOMAIN given : \E i \in Told(Len(stack)) : Cardinality(Told(i)) = k /\ given[k] = stack[i]
    /\ \A i \in DOMAIN deductions_marks :
          deductions_marks[i].next <= deductions_marks[i].lim /\ deductions_marks[i].lim <= Len(th_deductions)
    /\ \A i, j \in DOMAIN deductions_marks : i <= j => deductions_marks[i].lim <= deductions_marks[j].lim

\* The atoms that declareVarsToTheories() would find now, and those of the splits to come.
Known ==
    {l.tr : l \in UNION {LitsOf(db[i]) : i \in {j \in DOMAIN db : ~ db[j].learnt}}}
        \cup {trail[i].lit.tr : i \in {j \in DOMAIN trail : trail[j].level = 0}}
        \cup {l.tr : l \in UNION {new_splits[k] : k \in DOMAIN new_splits}}

\* The theory was told every atom of it that may come to the trail.
Declared ==
    /\ informed \subseteq Known \cap problem.theory
    /\ ~ Loading => Known \cap problem.theory \subseteq informed
    /\ \A i \in DOMAIN db : \A l \in LitsOf(db[i]) : l.tr \in problem.theory => l.tr \in Known
    /\ Assigned \cap problem.theory \subseteq Known
    /\ ~ Loading => decision \cap problem.theory \subseteq Known
    /\ \A d \in DOMAIN th_deductions : th_deductions[d].tr \in informed
    /\ \A k \in DOMAIN new_splits : new_splits[k] \in problem.splits
    /\ \A k \in DOMAIN propData : propData[k].lit.tr \in Known

StepInv ==
    /\ TypeOK /\ Phases /\ Levelled(trail, trail_lim) /\ ReasonsFalse(trail) /\ Watched /\ Resolvents
    /\ TheoryMirrorsTrail /\ Marks /\ Declared

-----------------------------------------------------------------------------
(* Literals, sets of them, and largest and smallest elements.              *)

\* Negated() is an involution without fixpoints that keeps the atom (PtAsgn).
LEMMA Negation ==
    ASSUME NEW l \in Literal
    PROVE  /\ Negated(l) \in Literal /\ Negated(l).tr = l.tr /\ l.tr \in Atoms
           /\ Negated(Negated(l)) = l /\ Negated(l) # l
           /\ \A m \in Literal : m.tr = l.tr => m = l \/ m = Negated(l)
<1>1. /\ l = [tr |-> l.tr, sgn |-> l.sgn] /\ l.sgn \in BOOLEAN /\ l.tr \in Atoms
      /\ \A m \in Literal : m = [tr |-> m.tr, sgn |-> m.sgn] /\ m.sgn \in BOOLEAN
  BY DEF Literal
<1>2. Negated(Negated(l)) = l /\ Negated(l) # l
  <2> DEFINE m == [tr |-> l.tr, sgn |-> ~ l.sgn]
  <2>1. m.tr = l.tr /\ m.sgn = ~ l.sgn
    OBVIOUS
  <2>2. (~ l.sgn) # l.sgn /\ (~ m.sgn) = l.sgn
    BY <2>1, <1>1
  <2>3. [tr |-> m.tr, sgn |-> ~ m.sgn] = [tr |-> l.tr, sgn |-> l.sgn]
    BY <2>1, <2>2
  <2> QED BY <2>1, <2>2, <2>3, <1>1 DEF Negated
<1>3. ASSUME NEW m \in Literal, m.tr = l.tr PROVE m = l \/ m = Negated(l)
  <2>1. m = [tr |-> l.tr, sgn |-> m.sgn]
    BY <1>1, <1>3
  <2>2. m.sgn = l.sgn \/ m.sgn = ~ l.sgn
    BY <1>1
  <2>3. CASE m.sgn = l.sgn
    BY <2>1, <2>3, <1>1
  <2>4. CASE m.sgn = ~ l.sgn
    BY <2>1, <2>4 DEF Negated
  <2> QED BY <2>2, <2>3, <2>4
<1> QED BY <1>1, <1>2, <1>3 DEF Negated, Literal

\* There are finitely many literals, so every clause is finite.
LEMMA FiniteClauses == ASSUME NEW S \in SUBSET Literal PROVE IsFiniteSet(S)
<1> DEFINE P == Atoms \X BOOLEAN
           f == [p \in P |-> [tr |-> p[1], sgn |-> p[2]]]
<1>1. IsFiniteSet(BOOLEAN)
  <2>1. BOOLEAN = {TRUE} \cup {FALSE}
    OBVIOUS
  <2>2. IsFiniteSet({TRUE}) /\ IsFiniteSet({FALSE})
    BY FS_Singleton
  <2>3. IsFiniteSet({TRUE} \cup {FALSE})
    BY <2>2, FS_Union
  <2> QED BY <2>1, <2>3
<1>2. IsFiniteSet(P)
  BY <1>1, FS_Product, CoreSMTSolverAssumption
<1>3. f \in Surjection(P, Literal)
  <2>1. f \in [P -> Literal]
    BY DEF Literal
  <2>2. \A l \in Literal : \E p \in P : f[p] = l
    <3> SUFFICES ASSUME NEW l \in Literal PROVE \E p \in P : f[p] = l
      OBVIOUS
    <3>1. <<l.tr, l.sgn>> \in P /\ f[<<l.tr, l.sgn>>] = l
      BY DEF Literal
    <3> QED BY <3>1
  <2> QED BY <2>1, <2>2 DEF Surjection
<1>4. IsFiniteSet(Literal)
  BY <1>2, <1>3, FS_Surjection
<1> QED BY <1>4, FS_Subset

\* SetToSeq() lists a clause: each of its literals once.
LEMMA Listing ==
    ASSUME NEW S \in SUBSET Literal
    PROVE  /\ SetToSeq(S) \in Seq(S) /\ Len(SetToSeq(S)) = Cardinality(S)
           /\ Cardinality(S) \in Nat
           /\ \A x \in S : \E i \in DOMAIN SetToSeq(S) : SetToSeq(S)[i] = x
<1> DEFINE n == Cardinality(S)
           s == SetToSeq(S)
<1>1. IsFiniteSet(S) /\ n \in Nat
  BY FiniteClauses, FS_CardinalityType
<1>2. \E f \in Bijection(1..n, S) : TRUE
  BY <1>1, FS_NatBijection, FS_CountingElements, FS_CardinalityType DEF ExistsBijection
<1>3. s \in [1..n -> S] /\ IsInjective(s)
  <2>1. \E f \in [1..n -> S] : IsInjective(f)
    BY <1>2 DEF Bijection, Injection, IsInjective
  <2> QED BY <2>1 DEF SetToSeq
<1>4. s \in Seq(S) /\ Len(s) = n
  BY <1>1, <1>3
<1>5. s \in Injection(1..n, S)
  BY <1>3 DEF Injection, IsInjective
<1>6. IsFiniteSet(1..n) /\ Cardinality(1..n) = n
  BY <1>1, FS_Interval
<1>7. s \in Surjection(1..n, S)
  BY <1>1, <1>5, <1>6, FS_Injection
<1> QED BY <1>1, <1>3, <1>4, <1>7 DEF Surjection

\* The order of the numbers is well-founded: a set of them has a smallest element.
Less == OpToRel(<, Nat)

\* The natural numbers have no infinite descent, in the form the library's minimality facts ask for.
LEMMA LessWellFounded == IsWellFoundedOn(Less, Nat)
BY NatLessThanWellFounded DEF Less

\* A number that is not below another is at least as large.
LEMMA NotLess == ASSUME NEW x \in Nat, NEW y \in Nat, ~ (<<x, y>> \in Less) PROVE y <= x
<1>1. Less = {p \in Nat \X Nat : p[1] < p[2]}
  BY DEF Less, OpToRel
<1>2. ~ (x < y)
  BY <1>1
<1> QED BY <1>2

\* Min of a set of numbers, by which the model finds the first entry of an atom, is its least member.
LEMMA Smallest ==
    ASSUME NEW S \in SUBSET Nat, S # {}
    PROVE  Min(S) \in S /\ \A x \in S : Min(S) <= x
<1>1. PICK m \in S : \A x \in S : ~ (<<x, m>> \in Less)
  BY LessWellFounded, WFMin
<1>2. \A x \in S : m <= x
  BY <1>1, NotLess
<1> QED BY <1>2 DEF Min

\* A sequence whose members all lie in a smaller set is a sequence of that set.
LEMMA Narrow ==
    ASSUME NEW S, NEW T, NEW s \in Seq(S), \A i \in 1..Len(s) : s[i] \in T
    PROVE  s \in Seq(T)
<1>1. Len(s) \in Nat /\ s \in [1..Len(s) -> S]
  BY LenProperties
<1>2. s \in [1..Len(s) -> T]
  BY <1>1
<1> QED BY <1>1, <1>2, SeqDef

\* The largest element of a set of numbers with a bound.
LEMMA Largest ==
    ASSUME NEW S \in SUBSET Nat, S # {}, NEW n \in Nat, \A x \in S : x <= n
    PROVE  Max(S) \in S /\ \A x \in S : x <= Max(S)
<1> DEFINE T == {n - x : x \in S}
<1>1. T # {} /\ T \subseteq Nat
  <2>1. \A x \in S : n - x \in Nat
    OBVIOUS
  <2>2. T \subseteq Nat
    BY <2>1
  <2>3. PICK x \in S : TRUE
    OBVIOUS
  <2>4. n - x \in T
    OBVIOUS
  <2> QED BY <2>2, <2>4
<1>2. Min(T) \in T /\ \A e \in T : Min(T) <= e
  BY <1>1, Smallest
<1>3. PICK m \in S : Min(T) = n - m
  BY <1>2
<1>4. \A x \in S : m >= x
  <2> SUFFICES ASSUME NEW x \in S PROVE m >= x
    OBVIOUS
  <2>1. n - x \in T
    OBVIOUS
  <2>2. Min(T) <= n - x
    BY <2>1, <1>2
  <2>3. n - m <= n - x /\ x \in Nat /\ m \in Nat
    BY <2>2, <1>3
  <2> QED BY <2>3
<1> QED BY <1>4 DEF Max

-----------------------------------------------------------------------------
(* What becomes of the levels and the reasons of a trail.                  *)

TypedTrail(tr, lim) ==
    tr \in Seq(Entry) /\ lim \in Seq(0..Len(tr)) /\ Levelled(tr, lim) /\ ReasonsFalse(tr)

\* Where a trail ends when it is cut back to a level (cancelUntil).
EndOf(tr, lim, level) == IF Len(lim) > level THEN lim[level + 1] ELSE Len(tr)
CutTo(tr, lim, level) == SubSeq(tr, 1, EndOf(tr, lim, level))

\* What may be put on a trail at its last level: a new atom, with a reason that is false.
Addable(tr, l, level, from) ==
    /\ l \in Literal /\ from \in Reasons
    /\ \A i \in DOMAIN tr : tr[i].lit.tr # l.tr
    /\ level > 0 => from # CRef_Undef
    /\ from \notin {CRef_Undef, CRef_Fake} => \A m \in from : \E j \in DOMAIN tr : tr[j].lit = Negated(m)

\* Cutting a trail back to a level keeps the literals of that level and of those below.
LEMMA Cut ==
    ASSUME NEW tr, NEW lim, TypedTrail(tr, lim), NEW k \in 0..Len(lim)
    PROVE  /\ EndOf(tr, lim, k) \in 0..Len(tr)
           /\ CutTo(tr, lim, k) \in Seq(Entry) /\ Len(CutTo(tr, lim, k)) = EndOf(tr, lim, k)
           /\ \A i \in 1..EndOf(tr, lim, k) : CutTo(tr, lim, k)[i] = tr[i]
           /\ \A i \in DOMAIN tr : i <= EndOf(tr, lim, k) <=> tr[i].level <= k
           /\ SubSeq(lim, 1, k) \in Seq(0..EndOf(tr, lim, k)) /\ Len(SubSeq(lim, 1, k)) = k
           /\ TypedTrail(CutTo(tr, lim, k), SubSeq(lim, 1, k))
<1> DEFINE n == EndOf(tr, lim, k)
           kept == CutTo(tr, lim, k)
           low == SubSeq(lim, 1, k)
<1>1. tr \in Seq(Entry) /\ lim \in Seq(0..Len(tr)) /\ Levelled(tr, lim) /\ ReasonsFalse(tr)
  BY DEF TypedTrail
<1>2. n \in 0..Len(tr) /\ (k < Len(lim) => n = lim[k + 1]) /\ (k = Len(lim) => n = Len(tr))
  BY <1>1 DEF EndOf
<1>3. kept \in Seq(Entry) /\ Len(kept) = n /\ \A i \in 1..n : kept[i] = tr[i]
  BY <1>1, <1>2 DEF CutTo
<1>4. low \in Seq(0..Len(tr)) /\ Len(low) = k /\ \A i \in 1..k : low[i] = lim[i]
  BY <1>1
<1> HIDE DEF n, kept, low
<1>a. DOMAIN kept = 1..n /\ DOMAIN low = 1..k /\ DOMAIN kept \subseteq DOMAIN tr /\ DOMAIN low \subseteq DOMAIN lim
  BY <1>1, <1>2, <1>3, <1>4
<1>5. \A i \in DOMAIN tr : tr[i].level \in 0..Len(lim)
  BY <1>1 DEF Levelled
<1>6. \A i \in DOMAIN tr : i <= n <=> tr[i].level <= k
  <2>1. CASE k = Len(lim)
    BY <1>1, <1>2, <1>5, <2>1
  <2>2. CASE k < Len(lim)
    <3>1. \A i \in DOMAIN tr : lim[k + 1] < i <=> k + 1 <= tr[i].level
      BY <1>1, <2>2 DEF Levelled
    <3> QED BY <1>1, <1>2, <1>5, <2>2, <3>1
  <2> QED BY <1>1, <2>1, <2>2
<1>7. \A j \in 1..k : lim[j] <= n
  <2>1. CASE k = Len(lim)
    BY <1>1, <1>2, <2>1
  <2>2. CASE k < Len(lim)
    BY <1>1, <1>2, <2>2 DEF Levelled
  <2> QED BY <1>1, <2>1, <2>2
<1>8. low \in Seq(0..n)
  <2>1. \A j \in 1..k : lim[j] \in 0..Len(tr)
    BY <1>1
  <2>2. \A j \in 1..k : low[j] \in 0..n
    <3> SUFFICES ASSUME NEW j \in 1..k PROVE low[j] \in 0..n
      OBVIOUS
    <3>1. low[j] = lim[j] /\ lim[j] \in 0..Len(tr) /\ lim[j] <= n /\ n \in Nat
      BY <1>2, <1>4, <1>7, <2>1
    <3> QED BY <3>1
  <2> QED BY <1>4, <2>2, Narrow
<1>9. Levelled(kept, low)
  <2>1. \A i, j \in DOMAIN kept : kept[i].lit.tr = kept[j].lit.tr => i = j
    BY <1>1, <1>3, <1>a DEF Levelled
  <2>2. \A i \in DOMAIN kept : kept[i].level \in 0..Len(low)
    <3> SUFFICES ASSUME NEW i \in DOMAIN kept PROVE kept[i].level \in 0..Len(low)
      OBVIOUS
    <3>1. i \in 1..n /\ i \in DOMAIN tr /\ i <= n
      BY <1>2, <1>a
    <3>2. tr[i].level <= k /\ tr[i].level \in 0..Len(lim)
      BY <3>1, <1>5, <1>6
    <3> QED BY <3>1, <3>2, <1>3, <1>4
  <2>3. \A i \in DOMAIN kept, j \in DOMAIN low : low[j] < i <=> j <= kept[i].level
    <3> SUFFICES ASSUME NEW i \in DOMAIN kept, NEW j \in DOMAIN low PROVE low[j] < i <=> j <= kept[i].level
      OBVIOUS
    <3>1. i \in DOMAIN tr /\ j \in DOMAIN lim /\ low[j] = lim[j] /\ kept[i] = tr[i]
      BY <1>3, <1>4, <1>a
    <3> QED BY <3>1, <1>1 DEF Levelled
  <2>4. \A i, j \in DOMAIN low : i <= j => low[i] <= low[j]
    <3>1. \A i, j \in DOMAIN lim : i <= j => lim[i] <= lim[j]
      BY <1>1 DEF Levelled
    <3> QED BY <3>1, <1>4, <1>a
  <2>5. \A i \in DOMAIN kept : kept[i].level > 0 /\ kept[i].reason = CRef_Undef => i = low[kept[i].level] + 1
    <3>1. \A i \in DOMAIN tr : tr[i].level > 0 /\ tr[i].reason = CRef_Undef => i = lim[tr[i].level] + 1
      BY <1>1 DEF Levelled
    <3> SUFFICES ASSUME NEW i \in DOMAIN kept, kept[i].level > 0, kept[i].reason = CRef_Undef
                 PROVE  i = low[kept[i].level] + 1
      OBVIOUS
    <3>2. i \in DOMAIN tr /\ kept[i] = tr[i] /\ kept[i].level \in 1..k
      BY <1>3, <1>4, <1>a, <2>2
    <3> QED BY <3>1, <3>2, <1>4
  <2> QED BY <2>1, <2>2, <2>3, <2>4, <2>5 DEF Levelled
<1>10. ReasonsFalse(kept)
  <2> SUFFICES ASSUME NEW i \in DOMAIN kept, kept[i].reason \notin {CRef_Undef, CRef_Fake}, NEW l \in kept[i].reason
               PROVE  \E j \in 1..(i - 1) : kept[j].lit = Negated(l)
    BY DEF ReasonsFalse
  <2>1. i \in DOMAIN tr /\ i \in 1..n /\ kept[i] = tr[i]
    BY <1>3, <1>a
  <2>2. PICK j \in 1..(i - 1) : tr[j].lit = Negated(l)
    BY <2>1, <1>1 DEF ReasonsFalse
  <2>3. kept[j] = tr[j]
    BY <2>1, <1>2, <1>3
  <2> QED BY <2>2, <2>3
<1>11. TypedTrail(kept, low)
  BY <1>3, <1>8, <1>9, <1>10 DEF TypedTrail
<1> QED BY <1>2, <1>3, <1>4, <1>6, <1>8, <1>11 DEF n, kept, low

\* A literal is enqueued at the last level.
LEMMA Enqueue ==
    ASSUME NEW tr, NEW lim, TypedTrail(tr, lim), NEW l, NEW from, Addable(tr, l, Len(lim), from)
    PROVE  TypedTrail(Enqueued(tr, l, Len(lim), from), lim)
<1> DEFINE e == [lit |-> l, level |-> Len(lim), reason |-> from]
           more == Enqueued(tr, l, Len(lim), from)
<1>1. tr \in Seq(Entry) /\ lim \in Seq(0..Len(tr)) /\ Levelled(tr, lim) /\ ReasonsFalse(tr)
  BY DEF TypedTrail
<1>2. e \in Entry /\ e.lit = l /\ e.level = Len(lim) /\ e.reason = from
  BY <1>1 DEF Addable, Entry
<1>3. /\ more \in Seq(Entry) /\ Len(more) = Len(tr) + 1 /\ more[Len(more)] = e
      /\ \A i \in DOMAIN tr : more[i] = tr[i]
  BY <1>1, <1>2 DEF Enqueued
<1>4. lim \in Seq(0..Len(more))
  <2>1. \A j \in DOMAIN lim : lim[j] \in 0..Len(more)
    BY <1>1, <1>3
  <2> QED BY <1>1, <2>1
<1>5. Levelled(more, lim)
  <2>1. \A i, j \in DOMAIN more : more[i].lit.tr = more[j].lit.tr => i = j
    <3>1. \A i \in DOMAIN more : i \in DOMAIN tr \/ i = Len(more)
      BY <1>1, <1>3
    <3>2. \A i, j \in DOMAIN tr : tr[i].lit.tr = tr[j].lit.tr => i = j
      BY <1>1 DEF Levelled
    <3>3. \A i \in DOMAIN tr : more[i] = tr[i] /\ tr[i].lit.tr # l.tr
      BY <1>3 DEF Addable
    <3>4. more[Len(more)].lit = l
      BY <1>2, <1>3
    <3> HIDE DEF more
    <3> QED BY <3>1, <3>2, <3>3, <3>4
  <2>2. \A i \in DOMAIN more : more[i].level \in 0..Len(lim)
    BY <1>1, <1>2, <1>3 DEF Levelled
  <2>3. \A i \in DOMAIN more, j \in DOMAIN lim : lim[j] < i <=> j <= more[i].level
    BY <1>1, <1>2, <1>3 DEF Levelled
  <2>4. \A i \in DOMAIN more : more[i].level > 0 /\ more[i].reason = CRef_Undef => i = lim[more[i].level] + 1
    BY <1>1, <1>2, <1>3 DEF Levelled, Addable
  <2> QED BY <1>1, <2>1, <2>2, <2>3, <2>4 DEF Levelled
<1>6. ReasonsFalse(more)
  <2> SUFFICES ASSUME NEW i \in DOMAIN more, more[i].reason \notin {CRef_Undef, CRef_Fake}, NEW m \in more[i].reason
               PROVE  \E j \in 1..(i - 1) : more[j].lit = Negated(m)
    BY DEF ReasonsFalse
  <2>1. DOMAIN tr = 1..Len(tr) /\ DOMAIN more = 1..(Len(tr) + 1) /\ Len(tr) \in Nat
    BY <1>1, <1>3
  <2>2. CASE i \in DOMAIN tr
    <3>1. PICK j \in 1..(i - 1) : tr[j].lit = Negated(m)
      BY <2>2, <1>1, <1>3 DEF ReasonsFalse
    <3> QED BY <3>1, <2>1, <2>2, <1>3
  <2>3. CASE i = Len(tr) + 1
    <3>1. PICK j \in DOMAIN tr : tr[j].lit = Negated(m)
      BY <2>3, <1>2, <1>3 DEF Addable
    <3> QED BY <3>1, <2>1, <2>3, <1>3
  <2> QED BY <2>1, <2>2, <2>3
<1> QED BY <1>3, <1>4, <1>5, <1>6 DEF TypedTrail

\* A new level that is empty, for an assumption that holds.
LEMMA Skip ==
    ASSUME NEW tr, NEW lim, TypedTrail(tr, lim)
    PROVE  TypedTrail(tr, Append(lim, Len(tr)))
<1> DEFINE more == Append(lim, Len(tr))
<1>1. tr \in Seq(Entry) /\ lim \in Seq(0..Len(tr)) /\ Levelled(tr, lim) /\ ReasonsFalse(tr)
  BY DEF TypedTrail
<1>2. /\ more \in Seq(0..Len(tr)) /\ Len(more) = Len(lim) + 1 /\ more[Len(more)] = Len(tr)
      /\ \A i \in DOMAIN lim : more[i] = lim[i]
  BY <1>1
<1>3. \A i \in DOMAIN tr : tr[i].level \in 0..Len(lim)
  BY <1>1 DEF Levelled
<1>4. Levelled(tr, more)
  <2>1. \A i \in DOMAIN tr, k \in DOMAIN more : more[k] < i <=> k <= tr[i].level
    BY <1>1, <1>2, <1>3 DEF Levelled
  <2>2. \A j, k \in DOMAIN more : j <= k => more[j] <= more[k]
    BY <1>1, <1>2 DEF Levelled
  <2>3. \A i \in DOMAIN tr : tr[i].level > 0 /\ tr[i].reason = CRef_Undef => i = more[tr[i].level] + 1
    BY <1>1, <1>2, <1>3 DEF Levelled
  <2>4. \A i, j \in DOMAIN tr : tr[i].lit.tr = tr[j].lit.tr => i = j
    BY <1>1 DEF Levelled
  <2>5. \A i \in DOMAIN tr : tr[i].level \in 0..Len(more)
    BY <1>1, <1>2, <1>3
  <2> QED BY <2>1, <2>2, <2>3, <2>4, <2>5 DEF Levelled
<1> QED BY <1>1, <1>2, <1>4 DEF TypedTrail

\* A decision opens a level.
LEMMA Decide ==
    ASSUME NEW tr, NEW lim, TypedTrail(tr, lim), NEW l \in Literal, \A i \in DOMAIN tr : tr[i].lit.tr # l.tr
    PROVE  TypedTrail(Enqueued(tr, l, Len(lim) + 1, CRef_Undef), Append(lim, Len(tr)))
<1> DEFINE e == [lit |-> l, level |-> Len(lim) + 1, reason |-> CRef_Undef]
           more == Enqueued(tr, l, Len(lim) + 1, CRef_Undef)
           up == Append(lim, Len(tr))
<1>1. tr \in Seq(Entry) /\ lim \in Seq(0..Len(tr)) /\ up \in Seq(0..Len(tr)) /\ Levelled(tr, up) /\ ReasonsFalse(tr)
  BY Skip DEF TypedTrail
<1>2. Len(up) = Len(lim) + 1 /\ up[Len(up)] = Len(tr) /\ \A j \in DOMAIN up : up[j] <= Len(tr)
  BY <1>1
<1>3. e \in Entry /\ e.lit = l /\ e.level = Len(up) /\ e.reason = CRef_Undef
  BY <1>1, <1>2 DEF Entry, Reasons
<1>4. /\ more \in Seq(Entry) /\ Len(more) = Len(tr) + 1 /\ more[Len(more)] = e
      /\ \A i \in DOMAIN tr : more[i] = tr[i]
  BY <1>1, <1>3 DEF Enqueued
<1> HIDE DEF more, e, up
<1>a. /\ DOMAIN more = 1..(Len(tr) + 1) /\ Len(tr) \in Nat /\ DOMAIN tr = 1..Len(tr)
      /\ \A i \in DOMAIN more : i \in DOMAIN tr \/ i = Len(more)
  BY <1>1, <1>4
<1>5. up \in Seq(0..Len(more))
  <2>1. \A j \in DOMAIN up : up[j] \in 0..Len(more)
    BY <1>1, <1>4
  <2> QED BY <1>1, <2>1
<1>6. Levelled(more, up)
  <2>1. \A i, j \in DOMAIN more : more[i].lit.tr = more[j].lit.tr => i = j
    <3>1. \A i, j \in DOMAIN tr : tr[i].lit.tr = tr[j].lit.tr => i = j
      BY <1>1 DEF Levelled
    <3>2. \A i \in DOMAIN tr : more[i].lit.tr = tr[i].lit.tr /\ more[i].lit.tr # l.tr
      BY <1>4
    <3>3. more[Len(more)].lit.tr = l.tr
      BY <1>3, <1>4
    <3> QED BY <3>1, <3>2, <3>3, <1>a
  <2>2. \A i \in DOMAIN more : more[i].level \in 0..Len(up)
    BY <1>1, <1>2, <1>3, <1>4 DEF Levelled
  <2>3. \A i \in DOMAIN more, j \in DOMAIN up : up[j] < i <=> j <= more[i].level
    <3> SUFFICES ASSUME NEW i \in DOMAIN more, NEW j \in DOMAIN up PROVE up[j] < i <=> j <= more[i].level
      OBVIOUS
    <3>1. CASE i \in DOMAIN tr
      BY <3>1, <1>1, <1>4 DEF Levelled
    <3>2. CASE i = Len(more)
      BY <3>2, <1>1, <1>2, <1>3, <1>4
    <3> QED BY <3>1, <3>2, <1>a
  <2>4. \A i \in DOMAIN more : more[i].level > 0 /\ more[i].reason = CRef_Undef => i = up[more[i].level] + 1
    <3> SUFFICES ASSUME NEW i \in DOMAIN more, more[i].level > 0, more[i].reason = CRef_Undef
                 PROVE  i = up[more[i].level] + 1
      OBVIOUS
    <3>1. CASE i \in DOMAIN tr
      BY <3>1, <1>1, <1>4 DEF Levelled
    <3>2. CASE i = Len(more)
      BY <3>2, <1>1, <1>2, <1>3, <1>4
    <3> QED BY <3>1, <3>2, <1>a
  <2> QED BY <1>1, <2>1, <2>2, <2>3, <2>4 DEF Levelled
<1>7. ReasonsFalse(more)
  <2> SUFFICES ASSUME NEW i \in DOMAIN more, more[i].reason \notin {CRef_Undef, CRef_Fake}, NEW m \in more[i].reason
               PROVE  \E j \in 1..(i - 1) : more[j].lit = Negated(m)
    BY DEF ReasonsFalse
  <2>1. i \in DOMAIN tr
    BY <1>3, <1>4, <1>a
  <2>2. PICK j \in 1..(i - 1) : tr[j].lit = Negated(m)
    BY <2>1, <1>1, <1>4 DEF ReasonsFalse
  <2> QED BY <2>1, <2>2, <1>4, <1>a
<1> QED BY <1>4, <1>5, <1>6, <1>7 DEF TypedTrail, more, up

-----------------------------------------------------------------------------
(* Where literals are on the trail.                                        *)

\* An atom is at one place of the trail, and a literal of it is either true or false.
LEMMA Places ==
    ASSUME TypedTrail(trail, trail_lim)
    PROVE  /\ Len(trail) \in Nat /\ DOMAIN trail = 1..Len(trail) /\ decisionLevel \in Nat
           /\ \A i \in DOMAIN trail : /\ trail[i] \in Entry /\ trail[i].lit \in Literal
                                      /\ trail[i].level \in 0..decisionLevel
                                      /\ EntryOf(trail[i].lit.tr) = i
           /\ \A v \in Assigned : EntryOf(v) \in DOMAIN trail /\ trail[EntryOf(v)].lit.tr = v
           /\ \A l \in Literal : /\ l.tr \in Assigned => LevelOf(l) \in 0..decisionLevel
                                 /\ TrueNow(l) => l.tr \in Assigned /\ trail[EntryOf(l.tr)].lit = l
                                 /\ FalseNow(l) => l.tr \in Assigned /\ trail[EntryOf(l.tr)].lit = Negated(l)
                                 /\ Undefined(l) <=> l.tr \notin Assigned
                                 /\ ~ TrueNow(l) \/ ~ FalseNow(l)
<1>1. trail \in Seq(Entry) /\ trail_lim \in Seq(0..Len(trail)) /\ Levelled(trail, trail_lim)
  BY DEF TypedTrail
<1>2. Len(trail) \in Nat /\ DOMAIN trail = 1..Len(trail) /\ decisionLevel \in Nat
  BY <1>1 DEF decisionLevel
<1>3. \A i \in DOMAIN trail : trail[i] \in Entry /\ trail[i].lit \in Literal
  <2>1. \A i \in DOMAIN trail : trail[i] \in Entry
    BY <1>1, <1>2, ElementOfSeq
  <2> QED BY <2>1 DEF Entry
<1>4. \A i \in DOMAIN trail : trail[i].level \in 0..decisionLevel
  BY <1>1 DEF Levelled, decisionLevel
<1>5. \A v \in Assigned : EntryOf(v) \in DOMAIN trail /\ trail[EntryOf(v)].lit.tr = v
  BY DEF Assigned, EntryOf
<1>6. \A i \in DOMAIN trail : EntryOf(trail[i].lit.tr) = i
  <2> SUFFICES ASSUME NEW i \in DOMAIN trail PROVE EntryOf(trail[i].lit.tr) = i
    OBVIOUS
  <2>1. trail[i].lit.tr \in Assigned
    BY DEF Assigned
  <2> QED BY <2>1, <1>1, <1>5 DEF Levelled
<1>7. ASSUME NEW l \in Literal
      PROVE  /\ l.tr \in Assigned => LevelOf(l) \in 0..decisionLevel
             /\ TrueNow(l) => l.tr \in Assigned /\ trail[EntryOf(l.tr)].lit = l
             /\ FalseNow(l) => l.tr \in Assigned /\ trail[EntryOf(l.tr)].lit = Negated(l)
             /\ Undefined(l) <=> l.tr \notin Assigned
             /\ ~ TrueNow(l) \/ ~ FalseNow(l)
  <2>1. l.tr \in Assigned => LevelOf(l) \in 0..decisionLevel
    BY <1>4, <1>5 DEF LevelOf
  <2>2. TrueNow(l) => l.tr \in Assigned /\ trail[EntryOf(l.tr)].lit = l
    BY <1>6 DEF TrueNow, OnTrail, Assigned
  <2>3. FalseNow(l) => l.tr \in Assigned /\ trail[EntryOf(l.tr)].lit = Negated(l)
    <3> SUFFICES ASSUME FalseNow(l) PROVE l.tr \in Assigned /\ trail[EntryOf(l.tr)].lit = Negated(l)
      OBVIOUS
    <3>1. PICK i \in DOMAIN trail : trail[i].lit = Negated(l)
      BY DEF FalseNow, OnTrail
    <3>2. trail[i].lit.tr = l.tr
      BY <3>1, Negation
    <3> QED BY <3>1, <3>2, <1>6 DEF Assigned
  <2>4. Undefined(l) => l.tr \notin Assigned
    <3> SUFFICES ASSUME l.tr \in Assigned PROVE ~ Undefined(l)
      OBVIOUS
    <3>1. PICK i \in DOMAIN trail : trail[i].lit.tr = l.tr
      BY DEF Assigned
    <3>2. trail[i].lit = l \/ trail[i].lit = Negated(l)
      BY <3>1, <1>3, Negation
    <3> QED BY <3>2 DEF Undefined, TrueNow, FalseNow, OnTrail
  <2>5. ~ TrueNow(l) \/ ~ FalseNow(l)
    BY <2>2, <2>3, Negation
  <2> QED BY <2>1, <2>2, <2>3, <2>4, <2>5 DEF Undefined
<1> QED BY <1>2, <1>3, <1>4, <1>5, <1>6, <1>7

\* The lowest level at which literals that are assigned are all still assigned.
LEMMA Lowest ==
    ASSUME TypedTrail(trail, trail_lim), NEW lits \in SUBSET Literal, \A l \in lits : l.tr \in Assigned
    PROVE  /\ backtrackLevel(lits) \in 0..decisionLevel
           /\ \A l \in lits : LevelOf(l) <= backtrackLevel(lits)
           /\ backtrackLevel(lits) = 0 \/ \E l \in lits : LevelOf(l) = backtrackLevel(lits)
<1> DEFINE L == {0} \cup {LevelOf(l) : l \in lits}
<1>1. decisionLevel \in Nat /\ \A l \in lits : LevelOf(l) \in 0..decisionLevel
  BY Places
<1>2. L \in SUBSET Nat /\ L # {} /\ \A x \in L : x <= decisionLevel
  BY <1>1
<1>3. Max(L) \in L /\ \A x \in L : x <= Max(L)
  BY <1>1, <1>2, Largest
<1>4. Max(L) = backtrackLevel(lits)
  BY DEF backtrackLevel
<1>5. backtrackLevel(lits) \in L /\ \A x \in L : x <= backtrackLevel(lits)
  BY <1>3, <1>4
<1>6. backtrackLevel(lits) = 0 \/ \E l \in lits : LevelOf(l) = backtrackLevel(lits)
  BY <1>5
<1>7. \A l \in lits : LevelOf(l) <= backtrackLevel(lits)
  BY <1>5
<1> QED BY <1>1, <1>6, <1>7

\* What is kept of the trail at a level.
LEMMA KeptPart ==
    ASSUME TypedTrail(trail, trail_lim), NEW k \in 0..decisionLevel
    PROVE  /\ KeptAt(k) \in 0..Len(trail) /\ Kept(k) \in Seq(Entry) /\ Len(Kept(k)) = KeptAt(k)
           /\ DOMAIN Kept(k) = 1..KeptAt(k) /\ DOMAIN Kept(k) \subseteq DOMAIN trail
           /\ \A i \in 1..KeptAt(k) : Kept(k)[i] = trail[i]
           /\ \A i \in DOMAIN trail : i <= KeptAt(k) <=> trail[i].level <= k
           /\ Len(SubSeq(trail_lim, 1, k)) = k
           /\ TypedTrail(Kept(k), SubSeq(trail_lim, 1, k))
           /\ Min({k, decisionLevel}) = k
<1>1. KeptAt(k) = EndOf(trail, trail_lim, k) /\ Kept(k) = CutTo(trail, trail_lim, k)
  BY DEF KeptAt, Kept, EndOf, CutTo, decisionLevel
<1>2. k \in 0..Len(trail_lim) /\ Len(trail_lim) \in Nat
  BY Places DEF decisionLevel
<1>a. /\ EndOf(trail, trail_lim, k) \in 0..Len(trail) /\ CutTo(trail, trail_lim, k) \in Seq(Entry)
      /\ Len(CutTo(trail, trail_lim, k)) = EndOf(trail, trail_lim, k)
      /\ \A i \in 1..EndOf(trail, trail_lim, k) : CutTo(trail, trail_lim, k)[i] = trail[i]
      /\ \A i \in DOMAIN trail : i <= EndOf(trail, trail_lim, k) <=> trail[i].level <= k
      /\ Len(SubSeq(trail_lim, 1, k)) = k
      /\ TypedTrail(CutTo(trail, trail_lim, k), SubSeq(trail_lim, 1, k))
  BY <1>2, Cut
<1>3. /\ KeptAt(k) \in 0..Len(trail) /\ Kept(k) \in Seq(Entry) /\ Len(Kept(k)) = KeptAt(k)
      /\ \A i \in 1..KeptAt(k) : Kept(k)[i] = trail[i]
      /\ \A i \in DOMAIN trail : i <= KeptAt(k) <=> trail[i].level <= k
      /\ Len(SubSeq(trail_lim, 1, k)) = k
      /\ TypedTrail(Kept(k), SubSeq(trail_lim, 1, k))
  BY <1>1, <1>a
<1>4. DOMAIN Kept(k) = 1..KeptAt(k) /\ 1..KeptAt(k) \subseteq DOMAIN trail
  BY <1>3, Places
<1>5. Min({k, decisionLevel}) = k
  <2>1. {k, decisionLevel} \in SUBSET Nat /\ k <= decisionLevel
    BY <1>2 DEF decisionLevel
  <2>2. Min({k, decisionLevel}) \in {k, decisionLevel} /\ Min({k, decisionLevel}) <= k
    BY <2>1, Smallest
  <2> QED BY <2>1, <2>2
<1> QED BY <1>3, <1>4, <1>5

\* cancelUntil(k) keeps exactly the entries of the trail whose level is at most k.
LEMMA KeptEntries ==
    ASSUME TypedTrail(trail, trail_lim), NEW k \in 0..decisionLevel
    PROVE  /\ \A i \in DOMAIN Kept(k) : i \in DOMAIN trail /\ Kept(k)[i] = trail[i] /\ trail[i].level <= k
           /\ \A i \in DOMAIN trail : trail[i].level <= k => i \in DOMAIN Kept(k) /\ Kept(k)[i] = trail[i]
<1>1. /\ KeptAt(k) \in 0..Len(trail) /\ DOMAIN Kept(k) = 1..KeptAt(k)
      /\ \A i \in 1..KeptAt(k) : Kept(k)[i] = trail[i]
      /\ \A i \in DOMAIN trail : i <= KeptAt(k) <=> trail[i].level <= k
  BY KeptPart
<1>2. DOMAIN trail = 1..Len(trail) /\ Len(trail) \in Nat
  BY Places
<1> QED BY <1>1, <1>2

\* Swapping two literals of a clause.
Swapped(c, a, b) == [c EXCEPT ![a] = c[b], ![b] = c[a]]
LitsIn(c) == {c[k] : k \in DOMAIN c}

\* Moving a watched literal of a clause to another place changes neither its length nor its literals.
LEMMA Swap ==
    ASSUME NEW c \in Seq(Literal), NEW a \in DOMAIN c, NEW b \in DOMAIN c
    PROVE  /\ Swapped(c, a, b) \in Seq(Literal) /\ Len(Swapped(c, a, b)) = Len(c)
           /\ DOMAIN Swapped(c, a, b) = DOMAIN c
           /\ Swapped(c, a, b)[a] = c[b] /\ Swapped(c, a, b)[b] = c[a]
           /\ \A k \in DOMAIN c : k # a /\ k # b => Swapped(c, a, b)[k] = c[k]
           /\ LitsIn(Swapped(c, a, b)) = LitsIn(c)
<1> DEFINE d == Swapped(c, a, b)
<1>1. Len(c) \in Nat /\ DOMAIN c = 1..Len(c) /\ c \in [1..Len(c) -> Literal]
  BY LenProperties
<1>2. d \in [1..Len(c) -> Literal]
  BY <1>1 DEF Swapped
<1>3. d[a] = c[b] /\ d[b] = c[a] /\ \A k \in DOMAIN c : k # a /\ k # b => d[k] = c[k]
  BY <1>1 DEF Swapped
<1> HIDE DEF d
<1>4. d \in Seq(Literal) /\ Len(d) = Len(c) /\ DOMAIN d = DOMAIN c
  BY <1>1, <1>2
<1>5. LitsIn(d) = LitsIn(c)
  BY <1>3, <1>4 DEF LitsIn
<1> QED BY <1>3, <1>4, <1>5 DEF d

-----------------------------------------------------------------------------
(* What an action does to the trail: it cuts it back to a level, and adds  *)
(* a literal at that level, or it opens a level.                           *)

Cuts(k) == k \in 0..decisionLevel /\ trail_lim' = SubSeq(trail_lim, 1, k) /\ trail' = Kept(k)

Adds(k, l, from) ==
    /\ k \in 0..decisionLevel /\ trail_lim' = SubSeq(trail_lim, 1, k)
    /\ trail' = Enqueued(Kept(k), l, k, from) /\ Addable(Kept(k), l, k, from)

Decides(l) ==
    /\ l \in Literal /\ Undefined(l)
    /\ trail_lim' = Append(trail_lim, Len(trail))
    /\ trail' = Enqueued(trail, l, decisionLevel + 1, CRef_Undef)

Skips == trail' = trail /\ trail_lim' = Append(trail_lim, Len(trail))

\* In every state of the search the trail has its type and its order.
LEMMA Typed == ASSUME StepInv PROVE TypedTrail(trail, trail_lim)
BY DEF StepInv, TypeOK, TypedTrail

\* Going back to the current level keeps the whole trail.
LEMMA Whole ==
    ASSUME TypedTrail(trail, trail_lim)
    PROVE  /\ Kept(decisionLevel) = trail /\ SubSeq(trail_lim, 1, decisionLevel) = trail_lim
           /\ decisionLevel \in 0..decisionLevel
<1>1. trail \in Seq(Entry) /\ trail_lim \in Seq(0..Len(trail)) /\ decisionLevel \in Nat
  BY Places DEF TypedTrail
<1>2. KeptAt(decisionLevel) = Len(trail)
  BY <1>1 DEF KeptAt
<1> QED BY <1>1, <1>2, SubSeqFull DEF Kept, decisionLevel

\* At the level where the search is, a literal may be added that is undefined and has a false reason.
LEMMA AddHere ==
    ASSUME StepInv, NEW l \in Literal, Undefined(l), NEW from \in Reasons,
           decisionLevel > 0 => from # CRef_Undef,
           from \notin {CRef_Undef, CRef_Fake} => \A m \in from : FalseNow(m),
           trail' = Enqueued(trail, l, decisionLevel, from), trail_lim' = trail_lim
    PROVE  Adds(decisionLevel, l, from)
<1>1. TypedTrail(trail, trail_lim)
  BY Typed
<1>2. \A i \in DOMAIN trail : trail[i].lit.tr # l.tr
  BY <1>1, Places DEF Assigned
<1>3. from \notin {CRef_Undef, CRef_Fake} => \A m \in from : \E j \in DOMAIN trail : trail[j].lit = Negated(m)
  BY DEF FalseNow, OnTrail
<1>4. Addable(trail, l, decisionLevel, from)
  BY <1>2, <1>3 DEF Addable
<1> QED BY <1>1, <1>4, Whole DEF Adds

\* The clauses are sequences of literals, and the watchers are among them.
LEMMA Clauses ==
    ASSUME TypeOK
    PROVE  /\ Len(db) \in Nat /\ DOMAIN db = 1..Len(db)
           /\ \A i \in DOMAIN db : /\ db[i] \in Clause /\ db[i].lits \in Seq(Literal)
                                   /\ Len(db[i].lits) \in Nat /\ DOMAIN db[i].lits = 1..Len(db[i].lits)
                                   /\ LitsOf(db[i]) \in SUBSET Literal
           /\ watchers \subseteq DOMAIN db
<1>1. db \in Seq(Clause) /\ watchers \subseteq DOMAIN db
  BY DEF TypeOK
<1>2. Len(db) \in Nat /\ DOMAIN db = 1..Len(db)
  BY <1>1
<1>3. ASSUME NEW i \in DOMAIN db
      PROVE  /\ db[i] \in Clause /\ db[i].lits \in Seq(Literal)
             /\ Len(db[i].lits) \in Nat /\ DOMAIN db[i].lits = 1..Len(db[i].lits)
             /\ LitsOf(db[i]) \in SUBSET Literal
  <2>1. db[i] \in Clause
    BY <1>1, <1>2, ElementOfSeq
  <2>2. db[i].lits \in Seq(Literal)
    BY <2>1 DEF Clause
  <2>3. Len(db[i].lits) \in Nat /\ DOMAIN db[i].lits = 1..Len(db[i].lits)
    BY <2>2
  <2>4. \A k \in DOMAIN db[i].lits : db[i].lits[k] \in Literal
    BY <2>2, <2>3, ElementOfSeq
  <2> QED BY <2>1, <2>2, <2>3, <2>4 DEF LitsOf
<1> QED BY <1>1, <1>2, <1>3

\* A clause that is visited has the false literal in second place.
LEMMA Visit ==
    ASSUME StepInv, NEW i \in watchers
    PROVE  /\ Visited(i) \in Seq(Literal) /\ Len(Visited(i)) = Len(db[i].lits) /\ Len(Visited(i)) > 1
           /\ DOMAIN Visited(i) = 1..Len(db[i].lits) /\ Len(db[i].lits) \in Nat
           /\ LitsIn(Visited(i)) = LitsOf(db[i])
           /\ Visited(i)[2] = FalseLit /\ Visited(i)[1] \in LitsOf(db[i])
           /\ FalseLit \in Literal /\ FalseNow(FalseLit) /\ qhead \in DOMAIN trail
<1> DEFINE c == db[i].lits
<1>1. TypeOK /\ Watched /\ TypedTrail(trail, trail_lim)
  BY Typed DEF StepInv
<1>2. i \in DOMAIN db /\ c \in Seq(Literal) /\ Len(c) \in Nat /\ DOMAIN c = 1..Len(c)
  BY <1>1, Clauses
<1>3. Len(c) > 1 /\ qhead > 0 /\ FalseLit \in {c[1], c[2]}
  BY <1>1, <1>2 DEF Watched
<1>4. qhead \in DOMAIN trail
  BY <1>1, <1>3, Places DEF TypeOK
<1>5. FalseLit \in Literal /\ FalseNow(FalseLit)
  <2>1. trail[qhead].lit \in Literal
    BY <1>1, <1>4, Places
  <2> QED BY <2>1, <1>4, Negation DEF FalseLit, FalseNow, OnTrail
<1>6. LitsOf(db[i]) = LitsIn(c) /\ \A k \in DOMAIN c : c[k] \in LitsOf(db[i])
  BY DEF LitsOf, LitsIn
<1>7. 1 \in DOMAIN c /\ 2 \in DOMAIN c
  BY <1>2, <1>3
<1>8. CASE c[1] = FalseLit
  <2>1. Visited(i) = Swapped(c, 1, 2)
    BY <1>8 DEF Visited, Swapped
  <2>2. /\ Visited(i) \in Seq(Literal) /\ Len(Visited(i)) = Len(c) /\ DOMAIN Visited(i) = DOMAIN c
        /\ Visited(i)[1] = c[2] /\ Visited(i)[2] = c[1]
        /\ LitsIn(Visited(i)) = LitsIn(c)
    <3> HIDE DEF c
    <3>1. Swapped(c, 1, 2) \in Seq(Literal) /\ Len(Swapped(c, 1, 2)) = Len(c)
      BY <1>2, <1>7, Swap
    <3>2. DOMAIN Swapped(c, 1, 2) = DOMAIN c /\ Swapped(c, 1, 2)[1] = c[2]
      BY <1>2, <1>7, Swap
    <3>3. Swapped(c, 1, 2)[2] = c[1]
      BY <1>2, <1>7, Swap
    <3>4. LitsIn(Swapped(c, 1, 2)) = LitsIn(c)
      BY <1>2, <1>7, Swap
    <3> QED BY <2>1, <3>1, <3>2, <3>3, <3>4
  <2>3. Visited(i)[1] \in LitsOf(db[i])
    BY <2>2, <1>6, <1>7
  <2> QED BY <2>2, <2>3, <1>2, <1>3, <1>4, <1>5, <1>6, <1>8
<1>9. CASE c[1] # FalseLit
  <2>1. Visited(i) = c
    BY <1>9 DEF Visited
  <2>2. c[2] = FalseLit /\ c[1] \in LitsOf(db[i])
    BY <1>3, <1>6, <1>7, <1>9
  <2> QED BY <2>1, <2>2, <1>2, <1>3, <1>4, <1>5, <1>6
<1> QED BY <1>8, <1>9

\* Without a place for the watch, all literals but the first are false.
LEMMA NoneFree ==
    ASSUME StepInv, NEW i \in watchers, Free(Visited(i)) = {}
    PROVE  \A l \in LitsOf(db[i]) \ {Visited(i)[1]} : FalseNow(l)
<1> SUFFICES ASSUME NEW l \in LitsOf(db[i]) \ {Visited(i)[1]} PROVE FalseNow(l)
  OBVIOUS
<1>a. LitsIn(Visited(i)) = LitsOf(db[i]) /\ DOMAIN Visited(i) = 1..Len(Visited(i))
  BY Visit
<1>1. PICK k \in 1..Len(Visited(i)) : l = Visited(i)[k]
  BY <1>a DEF LitsIn
<1>2. k # 1 /\ Len(Visited(i)) \in Nat
  BY <1>1, Visit
<1>3. CASE k = 2
  BY <1>1, <1>3, Visit
<1>4. CASE k # 2
  <2>1. k \in 3..Len(Visited(i))
    BY <1>1, <1>2, <1>4
  <2> QED BY <2>1, <1>1 DEF Free
<1> QED BY <1>3, <1>4

\* propagate(): the reason is the rest of the clause, all of it false.
LEMMA PropagateStep ==
    ASSUME StepInv, propagateUnit
    PROVE  \E i \in watchers : Adds(decisionLevel, Visited(i)[1], LitsOf(db[i]) \ {Visited(i)[1]})
<1>1. PICK i \in watchers :
          /\ Undefined(Visited(i)[1]) /\ Free(Visited(i)) = {} /\ trail_lim' = trail_lim
          /\ trail' = Enqueued(trail, Visited(i)[1], decisionLevel, LitsOf(db[i]) \ {Visited(i)[1]})
  BY DEF propagateUnit, visit
<1> DEFINE l == Visited(i)[1]
           from == LitsOf(db[i]) \ {l}
<1>2. l \in Literal /\ from \in SUBSET Literal
  BY Visit, Clauses DEF StepInv
<1>3. from \in Reasons /\ from # CRef_Undef
  BY <1>2, CoreSMTSolverAssumption DEF Reasons
<1>4. \A m \in from : FalseNow(m)
  BY <1>1, NoneFree
<1> HIDE DEF l, from
<1>5. Undefined(l) /\ trail_lim' = trail_lim /\ trail' = Enqueued(trail, l, decisionLevel, from)
  BY <1>1 DEF l, from
<1>6. Adds(decisionLevel, l, from)
  BY <1>2, <1>3, <1>4, <1>5, AddHere
<1> QED BY <1>6 DEF l, from

\* The literals that are resolved are false, above level 0.
LEMMA SeenPlaces ==
    ASSUME StepInv
    PROVE  \A l \in seen : /\ l \in Literal /\ FalseNow(l) /\ l.tr \in Assigned
                           /\ LevelOf(l) \in 1..decisionLevel /\ decisionLevel \in Nat
                           /\ EntryOf(l.tr) \in DOMAIN trail /\ EntryOf(l.tr) \in Nat
                           /\ trail[EntryOf(l.tr)].lit = Negated(l) /\ trail[EntryOf(l.tr)].level = LevelOf(l)
<1>1. TypedTrail(trail, trail_lim) /\ seen \subseteq Literal /\ \A l \in seen : FalseNow(l) /\ LevelOf(l) > 0
  BY Typed DEF StepInv, TypeOK, Resolvents
<1> SUFFICES ASSUME NEW l \in seen
             PROVE  /\ l \in Literal /\ FalseNow(l) /\ l.tr \in Assigned
                    /\ LevelOf(l) \in 1..decisionLevel /\ decisionLevel \in Nat
                    /\ EntryOf(l.tr) \in DOMAIN trail /\ EntryOf(l.tr) \in Nat
                    /\ trail[EntryOf(l.tr)].lit = Negated(l) /\ trail[EntryOf(l.tr)].level = LevelOf(l)
  OBVIOUS
<1>2. l \in Literal /\ FalseNow(l) /\ LevelOf(l) > 0
  BY <1>1
<1>3. l.tr \in Assigned /\ trail[EntryOf(l.tr)].lit = Negated(l) /\ LevelOf(l) \in 0..decisionLevel
  BY <1>1, <1>2, Places
<1>4. EntryOf(l.tr) \in DOMAIN trail /\ DOMAIN trail = 1..Len(trail) /\ Len(trail) \in Nat /\ decisionLevel \in Nat
  BY <1>1, <1>3, Places
<1> QED BY <1>2, <1>3, <1>4 DEF LevelOf

\* As long as several literals of the level are open, the last of them has a reason.
LEMMA Latest ==
    ASSUME StepInv, NEW one \in Open, Open # {one}
    PROVE  /\ LastOpen \in DOMAIN trail /\ trail[LastOpen].reason # CRef_Undef
           /\ Negated(trail[LastOpen].lit) \in Open
<1>1. TypedTrail(trail, trail_lim) /\ Levelled(trail, trail_lim)
  BY Typed DEF TypedTrail
<1>2. Len(trail) \in Nat /\ DOMAIN trail = 1..Len(trail)
  BY <1>1, Places
<1> DEFINE E == {EntryOf(l.tr) : l \in Open}
<1>3. \A l \in Open : l \in seen /\ LevelOf(l) = decisionLevel
  BY DEF Open
<1>4. E \in SUBSET Nat /\ E # {} /\ \A x \in E : x <= Len(trail)
  BY <1>2, <1>3, SeenPlaces
<1>5. LastOpen \in E /\ \A x \in E : x <= LastOpen
  <2>1. Max(E) \in E /\ \A x \in E : x <= Max(E)
    BY <1>2, <1>4, Largest
  <2> QED BY <2>1 DEF LastOpen
<1>6. PICK last \in Open : EntryOf(last.tr) = LastOpen
  BY <1>5
<1>7. /\ last \in Literal /\ LastOpen \in DOMAIN trail /\ trail[LastOpen].lit = Negated(last)
      /\ trail[LastOpen].level = decisionLevel /\ decisionLevel > 0 /\ decisionLevel \in Nat
  BY <1>3, <1>6, SeenPlaces
<1>8. PICK other \in Open : other # last
  OBVIOUS
<1>9. /\ other \in Literal /\ EntryOf(other.tr) \in DOMAIN trail /\ trail[EntryOf(other.tr)].lit = Negated(other)
      /\ trail[EntryOf(other.tr)].level = decisionLevel
  BY <1>3, SeenPlaces
<1>10. EntryOf(other.tr) # LastOpen
  <2>1. Negated(other) # Negated(last)
    BY <1>7, <1>8, <1>9, Negation
  <2> QED BY <2>1, <1>7, <1>9
<1>11. EntryOf(other.tr) <= LastOpen
  BY <1>5
<1>12. ASSUME trail[LastOpen].reason = CRef_Undef PROVE FALSE
  <2>1. LastOpen = trail_lim[decisionLevel] + 1
    BY <1>1, <1>7, <1>12 DEF Levelled
  <2>2. decisionLevel \in DOMAIN trail_lim /\ trail_lim[decisionLevel] \in Nat
    BY <1>1, <1>7 DEF TypedTrail, decisionLevel
  <2>3. trail_lim[decisionLevel] < EntryOf(other.tr)
    BY <1>1, <1>7, <1>9, <2>2 DEF Levelled
  <2> QED BY <2>1, <2>2, <2>3, <1>2, <1>9, <1>10, <1>11
<1>13. Negated(trail[LastOpen].lit) = last
  BY <1>7, Negation
<1> QED BY <1>7, <1>12, <1>13

\* The learnt clause: one literal of the level, and the others that are not redundant.
Rest == (seen \ Open) \ Redundant(seen \ Open)

\* The level analyze() goes back to: the highest of the other literals of the learnt clause, and below the current one.
LEMMA RestPlaces ==
    ASSUME StepInv, NEW asserting \in Open
    PROVE  /\ Rest \in SUBSET seen /\ Rest \in SUBSET Literal
           /\ backtrackLevel(Rest) \in 0..decisionLevel /\ backtrackLevel(Rest) < decisionLevel
           /\ \A l \in Rest : LevelOf(l) <= backtrackLevel(Rest)
           /\ backtrackLevel(Rest) = 0 \/ \E l \in Rest : LevelOf(l) = backtrackLevel(Rest)
           /\ backtrackLevel(Rest) > 0 <=> Rest # {}
<1>1. TypedTrail(trail, trail_lim) /\ Rest \in SUBSET seen /\ \A l \in Rest : l \notin Open
  BY Typed DEF Rest
<1>2. Rest \in SUBSET Literal /\ \A l \in Rest : l.tr \in Assigned /\ LevelOf(l) \in 1..decisionLevel
  BY <1>1, SeenPlaces
<1>3. /\ backtrackLevel(Rest) \in 0..decisionLevel /\ \A l \in Rest : LevelOf(l) <= backtrackLevel(Rest)
      /\ backtrackLevel(Rest) = 0 \/ \E l \in Rest : LevelOf(l) = backtrackLevel(Rest)
  BY <1>1, <1>2, Lowest
<1>4. decisionLevel \in Nat /\ decisionLevel > 0
  BY SeenPlaces DEF Open
<1>5. \A l \in Rest : LevelOf(l) # decisionLevel
  BY <1>1 DEF Open
<1> QED BY <1>1, <1>2, <1>3, <1>4, <1>5

\* A step that learns puts the asserting literal on the trail that is left, with the clause as its reason.
LEMMA LearnStep ==
    ASSUME StepInv, learn
    PROVE  \E asserting \in Open :
              /\ Open = {asserting}
              /\ cancelUntil(backtrackLevel(Rest)) /\ db' = Stored(asserting, Rest)
              /\ Adds(backtrackLevel(Rest), asserting, IF Rest = {} THEN CRef_Undef ELSE Rest)
<1>1. PICK asserting \in Open :
          /\ Open = {asserting}
          /\ trail' = Enqueued(Kept(backtrackLevel(Rest)), asserting, backtrackLevel(Rest),
                               IF Rest = {} THEN CRef_Undef ELSE Rest)
          /\ db' = Stored(asserting, Rest) /\ cancelUntil(backtrackLevel(Rest))
  BY DEF learn, Rest
<1> DEFINE k == backtrackLevel(Rest)
           from == IF Rest = {} THEN CRef_Undef ELSE Rest
<1>2. TypedTrail(trail, trail_lim)
  BY Typed
<1>3. /\ Rest \in SUBSET seen /\ Rest \in SUBSET Literal /\ k \in 0..decisionLevel /\ k < decisionLevel
      /\ \A l \in Rest : LevelOf(l) <= k
      /\ k > 0 <=> Rest # {}
  BY RestPlaces
<1>4. /\ asserting \in Literal /\ EntryOf(asserting.tr) \in DOMAIN trail
      /\ trail[EntryOf(asserting.tr)].level = decisionLevel
      /\ trail[EntryOf(asserting.tr)].lit.tr = asserting.tr
  <2>1. asserting \in seen /\ LevelOf(asserting) = decisionLevel
    BY DEF Open
  <2> QED BY <2>1, <1>2, SeenPlaces, Places
<1> HIDE DEF k
<1>5. \A i \in DOMAIN Kept(k) : Kept(k)[i].lit.tr # asserting.tr
  <2> SUFFICES ASSUME NEW i \in DOMAIN Kept(k), Kept(k)[i].lit.tr = asserting.tr PROVE FALSE
    OBVIOUS
  <2>1. i \in DOMAIN trail /\ trail[i].lit.tr = asserting.tr /\ trail[i].level <= k
    BY <1>2, <1>3, KeptEntries
  <2>2. EntryOf(asserting.tr) = i
    BY <2>1, <1>2, Places
  <2>3. decisionLevel \in Nat /\ k \in Nat
    BY <1>2, <1>3, Places
  <2> QED BY <2>1, <2>2, <2>3, <1>3, <1>4
<1>6. \A m \in Rest : \E j \in DOMAIN Kept(k) : Kept(k)[j].lit = Negated(m)
  <2> SUFFICES ASSUME NEW m \in Rest PROVE \E j \in DOMAIN Kept(k) : Kept(k)[j].lit = Negated(m)
    OBVIOUS
  <2>1. EntryOf(m.tr) \in DOMAIN trail /\ trail[EntryOf(m.tr)].lit = Negated(m) /\ trail[EntryOf(m.tr)].level <= k
    BY <1>3, SeenPlaces
  <2>2. EntryOf(m.tr) \in DOMAIN Kept(k) /\ Kept(k)[EntryOf(m.tr)] = trail[EntryOf(m.tr)]
    BY <2>1, <1>2, <1>3, KeptEntries
  <2> QED BY <2>1, <2>2
<1>7. from \in Reasons /\ (k > 0 => from # CRef_Undef)
  <2>1. Rest # CRef_Undef /\ Rest \in Reasons
    BY <1>3, CoreSMTSolverAssumption DEF Reasons
  <2> QED BY <2>1, <1>3 DEF Reasons
<1>8. from \notin {CRef_Undef, CRef_Fake} => from = Rest
  OBVIOUS
<1>9. Addable(Kept(k), asserting, k, from)
  BY <1>4, <1>5, <1>6, <1>7, <1>8 DEF Addable
<1>10. trail_lim' = SubSeq(trail_lim, 1, k)
  BY <1>1, <1>2, <1>3, KeptPart DEF cancelUntil, cancelLevels, k
<1>11. Adds(k, asserting, from)
  BY <1>1, <1>3, <1>9, <1>10 DEF Adds, k
<1> QED BY <1>1, <1>11 DEF k

\* What is to be solved.
LEMMA Asked ==
    ASSUME TypeOK
    PROVE  /\ Round.clauses \in Seq(SUBSET Literal) /\ assumptions \in Seq(Literal)
           /\ \A j \in DOMAIN assumptions : assumptions[j] \in Literal /\ assumptions[j].tr \notin problem.theory
           /\ problem.theory \in SUBSET Atoms /\ problem.conflicts \in SUBSET SUBSET Literal
           /\ problem.splits \in SUBSET SUBSET Literal /\ \A c \in problem.splits : Cardinality(c) > 1
           /\ problem.rounds # <<>> /\ round \in Nat /\ round >= 1
<1>1. problem \in Problem /\ round \in DOMAIN problem.rounds
  BY CoreSMTSolverAssumption DEF TypeOK
<1>2. /\ problem.rounds \in Seq([clauses : Seq(SUBSET Literal), assumptions : Seq(Literal)])
      /\ problem.theory \in SUBSET Atoms /\ problem.conflicts \in SUBSET SUBSET Literal
      /\ problem.splits \in SUBSET SUBSET Literal /\ \A c \in problem.splits : Cardinality(c) > 1
      /\ problem.rounds # <<>>
      /\ \A r \in DOMAIN problem.rounds : \A j \in DOMAIN problem.rounds[r].assumptions :
            problem.rounds[r].assumptions[j].tr \notin problem.theory
  BY <1>1 DEF Problem
<1>3. round \in 1..Len(problem.rounds) /\ Len(problem.rounds) \in Nat
  <2> DEFINE R == [clauses : Seq(SUBSET Literal), assumptions : Seq(Literal)]
  <2>1. problem.rounds \in Seq(R)
    BY <1>2
  <2> HIDE DEF R
  <2> QED BY <2>1, <1>1, LenProperties
<1>4. Round \in [clauses : Seq(SUBSET Literal), assumptions : Seq(Literal)]
  BY <1>2, <1>3, ElementOfSeq DEF Round
<1>5. Round.clauses \in Seq(SUBSET Literal) /\ assumptions \in Seq(Literal)
  BY <1>4 DEF assumptions
<1>6. \A j \in DOMAIN assumptions : assumptions[j] \in Literal
  BY <1>5
<1>7. \A j \in DOMAIN assumptions : assumptions[j].tr \notin problem.theory
  BY <1>1, <1>2 DEF assumptions, Round
<1> QED BY <1>2, <1>3, <1>5, <1>6, <1>7

\* What the theory solver was given is on the trail, and so are the conflicts it explains.
LEMMA GivenTrue ==
    ASSUME StepInv
    PROVE  /\ \A l \in Given : l \in Literal /\ TrueNow(l) /\ l.tr \in Assigned
           /\ \A k \in Conflicts(Given) : k \in SUBSET Literal /\ k \subseteq Given
<1>1. TypedTrail(trail, trail_lim) /\ TypeOK /\ TheoryMirrorsTrail /\ Marks
  BY Typed DEF StepInv
<1>2. \A l \in Given : \E i \in DOMAIN trail : trail[i].lit = l
  <2> SUFFICES ASSUME NEW l \in Given PROVE \E i \in DOMAIN trail : trail[i].lit = l
    OBVIOUS
  <2>1. PICK j \in DOMAIN given : l = given[j]
    BY DEF Given
  <2>2. PICK i \in Told(Len(stack)) : given[j] = stack[i]
    BY <1>1 DEF Marks
  <2>3. stack \in Seq(Literal) /\ i \in 1..Len(stack) /\ Len(stack) <= Len(trail)
    BY <1>1 DEF Told, TypeOK, TheoryMirrorsTrail
  <2>4. i \in DOMAIN stack /\ i \in DOMAIN trail
    BY <1>1, <2>3, Places
  <2>5. stack[i] = trail[i].lit
    BY <1>1, <2>4 DEF TheoryMirrorsTrail
  <2> QED BY <2>1, <2>2, <2>4, <2>5
<1>3. \A l \in Given : l \in Literal /\ TrueNow(l) /\ l.tr \in Assigned
  BY <1>1, <1>2, Places DEF TrueNow, OnTrail, Assigned
<1>4. ASSUME NEW k \in Conflicts(Given) PROVE k \in SUBSET Literal /\ k \subseteq Given
  BY <1>3, <1>4 DEF Conflicts
<1> QED BY <1>3, <1>4

\* The next clause that the theory solver asks for is a set of literals.
LEMMA SplitTyped ==
    ASSUME TypeOK, new_splits # <<>>
    PROVE  /\ Head(new_splits) \in SUBSET Literal /\ Tail(new_splits) \in Seq(SUBSET Literal)
           /\ Head(new_splits) = new_splits[1] /\ 1 \in DOMAIN new_splits
<1>1. new_splits \in Seq(SUBSET Literal)
  BY DEF TypeOK
<1> QED BY <1>1, HeadTailProperties

\* The next literal that a clause of the theory solver implies has a reason made of literals.
LEMMA PropTyped ==
    ASSUME TypeOK, propData # <<>>
    PROVE  /\ Head(propData).lit \in Literal /\ Head(propData).reason \in SUBSET Literal
           /\ Tail(propData) \in Seq([lit : Literal, reason : SUBSET Literal])
           /\ Head(propData) = propData[1] /\ 1 \in DOMAIN propData
<1>1. propData \in Seq([lit : Literal, reason : SUBSET Literal])
  BY DEF TypeOK
<1>2. Head(propData) \in [lit : Literal, reason : SUBSET Literal]
  BY <1>1, HeadTailProperties
<1>3. Tail(propData) \in Seq([lit : Literal, reason : SUBSET Literal])
  BY <1>1, HeadTailProperties
<1>4. Head(propData) = propData[1] /\ 1 \in DOMAIN propData
  BY <1>1, EmptySeq
<1> QED BY <1>2, <1>3, <1>4

\* addOriginalSMTClause(): a unit.
LEMMA LoadStep ==
    ASSUME StepInv, addOriginalClause_, trail' # trail
    PROVE  \E l \in Round.clauses[loaded + 1] :
              /\ pc = "load" /\ ok /\ pc' = "unit" /\ UNCHANGED ok
              /\ \A m \in Round.clauses[loaded + 1] \ {l} : FalseNow(m)
              /\ Adds(0, l, CRef_Undef) /\ decisionLevel = 0
<1>1. pc = "load" /\ loaded < Len(Round.clauses) /\ trail_lim' = trail_lim
  BY DEF addOriginalClause_
<1>2. PICK l \in Round.clauses[loaded + 1] :
          /\ {m \in Round.clauses[loaded + 1] : ~ FalseNow(m)} = {l} /\ trail' = Enqueued(trail, l, 0, CRef_Undef)
          /\ ok /\ pc' = "unit" /\ ok' = ok
          /\ ~ \E m \in Round.clauses[loaded + 1] : TrueNow(m) \/ Negated(m) \in Round.clauses[loaded + 1]
  BY DEF addOriginalClause_
<1>3. Round.clauses \in Seq(SUBSET Literal) /\ loaded + 1 \in 1..Len(Round.clauses)
  <2>1. Round.clauses \in Seq(SUBSET Literal) /\ loaded \in 0..Len(Round.clauses)
    BY Asked DEF StepInv, TypeOK
  <2> QED BY <2>1, <1>1
<1>4. l \in Literal
  BY <1>2, <1>3, ElementOfSeq
<1>5. Undefined(l) /\ \A m \in Round.clauses[loaded + 1] \ {l} : FalseNow(m)
  BY <1>2 DEF Undefined
<1>6. decisionLevel = 0
  BY <1>1 DEF StepInv, Phases, Loading, decisionLevel
<1>7. CRef_Undef \in Reasons
  BY DEF Reasons
<1>8. Adds(decisionLevel, l, CRef_Undef)
  BY <1>1, <1>2, <1>4, <1>5, <1>6, <1>7, AddHere
<1> QED BY <1>1, <1>2, <1>5, <1>6, <1>8

\* deduceTheory(): a literal that the theory will explain when it is asked.
LEMMA DeduceStep ==
    ASSUME StepInv, deduceTheory, trail' # trail
    PROVE  /\ deductions_next + 1 \in DOMAIN th_deductions
           /\ Adds(decisionLevel, th_deductions[deductions_next + 1], CRef_Fake)
<1> DEFINE l == th_deductions[deductions_next + 1]
<1>1. /\ deductions_next < Len(th_deductions) /\ Undefined(l) /\ trail_lim' = trail_lim
      /\ trail' = Enqueued(trail, l, decisionLevel, CRef_Fake)
  BY DEF deduceTheory
<1>2. th_deductions \in Seq(Literal) /\ deductions_next \in 0..Len(th_deductions)
  BY DEF StepInv, TypeOK, TSolverTypeOK
<1>3. deductions_next + 1 \in DOMAIN th_deductions /\ l \in Literal
  BY <1>1, <1>2
<1>4. CRef_Fake \in Reasons /\ CRef_Fake # CRef_Undef
  BY CoreSMTSolverAssumption DEF Reasons
<1>5. Adds(decisionLevel, l, CRef_Fake)
  BY <1>1, <1>3, <1>4, AddHere
<1> QED BY <1>3, <1>5

\* A unit split clause: its literal is enqueued at level 0, and later at any other.
LEMMA UnitSplitStep ==
    ASSUME StepInv, addUnitSplit
    PROVE  \E implied \in Head(new_splits) :
              LET rest == Head(new_splits) \ {implied}
                  level == backtrackLevel(rest)
              IN  /\ Undefined(implied) /\ \A l \in rest : FalseNow(l) /\ LevelOf(l) <= level
                  /\ level \in 0..decisionLevel /\ cancelUntil(level)
                  /\ level = 0 => Adds(0, implied, CRef_Undef) /\ db' = db
                  /\ level # 0 => Cuts(level)
                                    /\ db' = Append(db, [lits |-> <<implied>> \o SetToSeq(rest), learnt |-> FALSE])
                  /\ propData' = (IF level < decisionLevel THEN <<>> ELSE propData)
                                    \o (IF level = 0 THEN <<>> ELSE <<[lit |-> implied, reason |-> rest]>>)
<1>1. new_splits # <<>>
  BY DEF addUnitSplit
<1>2. PICK implied \in Head(new_splits) :
          LET rest == Head(new_splits) \ {implied}
              level == backtrackLevel(rest)
          IN  /\ Undefined(implied) /\ \A l \in rest : FalseNow(l)
              /\ trail' = IF level = 0 THEN Enqueued(Kept(0), implied, 0, CRef_Undef) ELSE Kept(level)
              /\ cancelUntil(level)
              /\ db' = IF level = 0 THEN db
                       ELSE Append(db, [lits |-> <<implied>> \o SetToSeq(rest), learnt |-> FALSE])
              /\ propData' = (IF level < decisionLevel THEN <<>> ELSE propData)
                                 \o (IF level = 0 THEN <<>> ELSE <<[lit |-> implied, reason |-> rest]>>)
  BY DEF addUnitSplit
<1> DEFINE rest == Head(new_splits) \ {implied}
           level == backtrackLevel(rest)
<1>3. TypedTrail(trail, trail_lim) /\ rest \in SUBSET Literal /\ implied \in Literal
  BY <1>1, Typed, SplitTyped DEF StepInv
<1>4. \A l \in rest : FalseNow(l) /\ l.tr \in Assigned
  BY <1>2, <1>3, Places
<1>5. level \in 0..decisionLevel /\ \A l \in rest : LevelOf(l) <= level
  BY <1>3, <1>4, Lowest
<1>6. trail_lim' = SubSeq(trail_lim, 1, level)
  <2>1. Min({level, decisionLevel}) = level
    BY <1>3, <1>5, KeptPart
  <2> QED BY <1>2, <2>1 DEF cancelUntil, cancelLevels
<1>7. ASSUME level = 0 PROVE Adds(0, implied, CRef_Undef)
  <2>1. \A i \in DOMAIN Kept(0) : Kept(0)[i].lit.tr # implied.tr
    <3>1. 0 \in 0..decisionLevel
      BY <1>5, <1>7
    <3>2. \A i \in DOMAIN Kept(0) : i \in DOMAIN trail /\ Kept(0)[i] = trail[i]
      BY <1>3, <3>1, KeptEntries
    <3>3. implied.tr \notin Assigned
      BY <1>2, <1>3, Places
    <3> QED BY <3>2, <3>3 DEF Assigned
  <2>2. Addable(Kept(0), implied, 0, CRef_Undef)
    BY <1>3, <2>1 DEF Addable, Reasons
  <2> QED BY <1>2, <1>5, <1>6, <1>7, <2>2 DEF Adds
<1>8. ASSUME level # 0 PROVE Cuts(level)
  BY <1>2, <1>5, <1>6, <1>8 DEF Cuts
<1> QED BY <1>2, <1>4, <1>5, <1>7, <1>8

\* A literal implied by a clause of the theory solver goes on the trail at the current level.
LEMMA EnqueueSplitStep ==
    ASSUME StepInv, enqueueSplits, trail' # trail
    PROVE  propData # <<>> /\ Adds(decisionLevel, Head(propData).lit, Head(propData).reason)
<1> DEFINE l == Head(propData).lit
           from == Head(propData).reason
<1>1. /\ propData # <<>> /\ Undefined(l) /\ trail_lim' = trail_lim
      /\ trail' = Enqueued(trail, l, decisionLevel, from)
  BY DEF enqueueSplits
<1>2. l \in Literal /\ from \in SUBSET Literal /\ from = propData[1].reason /\ 1 \in DOMAIN propData
  BY <1>1, PropTyped DEF StepInv
<1>3. \A m \in from : FalseNow(m)
  BY <1>2 DEF StepInv, Resolvents
<1>4. from \in Reasons /\ from # CRef_Undef
  BY <1>2, CoreSMTSolverAssumption DEF Reasons
<1> HIDE DEF l, from
<1>5. Adds(decisionLevel, l, from)
  BY <1>1, <1>2, <1>3, <1>4, AddHere
<1> QED BY <1>1, <1>5 DEF l, from

\* handleUnsat(): back to the highest level of the explanation.
LEMMA UnsatStep ==
    ASSUME StepInv, handleUnsat
    PROVE  \/ /\ decisionLevel = 0 /\ zeroLevelConflictHandler /\ has_explanation' = TRUE
              /\ UNCHANGED <<order_heap, trailVars, seen, conflictC, informed, th_deductions, deductions_next,
                             deductions_marks, polarity, stack, given>>
           \/ Cuts(0) /\ cancelUntil(0) /\ zeroLevelConflictHandler /\ UNCHANGED <<seen, conflictC>>
           \/ \E k \in Conflicts(Given) :
                 /\ backtrackLevel(k) > 0 /\ Cuts(backtrackLevel(k)) /\ cancelUntil(backtrackLevel(k))
                 /\ \A l \in k : LevelOf(l) <= backtrackLevel(k)
                 /\ analyze({Negated(l) : l \in k}) /\ UNCHANGED <<ok, status>>
<1>1. TypedTrail(trail, trail_lim) /\ decisionLevel \in Nat
  BY Typed, Places
<1>2. ASSUME NEW k \in Conflicts(Given)
      PROVE  backtrackLevel(k) \in 0..decisionLevel /\ \A l \in k : LevelOf(l) <= backtrackLevel(k)
  <2>1. k \in SUBSET Literal /\ \A l \in k : l.tr \in Assigned
    BY GivenTrue
  <2> QED BY <2>1, <1>1, Lowest
<1>3. \/ /\ decisionLevel = 0 /\ zeroLevelConflictHandler /\ has_explanation' = TRUE
         /\ UNCHANGED <<order_heap, trailVars, seen, conflictC, informed, th_deductions, deductions_next,
                        deductions_marks, polarity, stack, given>>
      \/ trail' = Kept(0) /\ cancelUntil(0) /\ zeroLevelConflictHandler /\ UNCHANGED <<seen, conflictC>>
      \/ \E k \in Conflicts(Given) :
            /\ backtrackLevel(k) > 0 /\ trail' = Kept(backtrackLevel(k)) /\ cancelUntil(backtrackLevel(k))
            /\ analyze({Negated(l) : l \in k}) /\ UNCHANGED <<ok, status>>
  BY DEF handleUnsat, backtrackLevel
<1>4. ASSUME NEW n \in 0..decisionLevel, trail' = Kept(n), cancelUntil(n) PROVE Cuts(n)
  <2>1. Min({n, decisionLevel}) = n
    BY <1>1, KeptPart
  <2> QED BY <1>4, <2>1 DEF Cuts, cancelUntil, cancelLevels
<1> QED BY <1>1, <1>2, <1>3, <1>4

\* assume and pickBranchLit decide a literal that is undefined.
LEMMA DecideStep ==
    ASSUME StepInv
    PROVE  /\ assume => Decides(assumptions[decisionLevel + 1])
           /\ pickBranchLit => \E v \in Candidates, sgn \in BOOLEAN : Decides([tr |-> v, sgn |-> sgn])
<1>1. TypedTrail(trail, trail_lim) /\ decisionLevel \in Nat
  BY Typed, Places
<1>2. ASSUME NEW l \in Literal, NewLevel(l), Undefined(l) PROVE Decides(l)
  BY <1>2 DEF NewLevel, Decides
<1>3. ASSUME assume PROVE Decides(assumptions[decisionLevel + 1])
  <2>1. decisionLevel + 1 \in DOMAIN assumptions
    BY <1>1, <1>3, Asked DEF assume, StepInv
  <2>2. assumptions[decisionLevel + 1] \in Literal
    BY <2>1, Asked DEF StepInv
  <2> QED BY <2>2, <1>2, <1>3 DEF assume
<1>4. ASSUME pickBranchLit PROVE \E v \in Candidates, sgn \in BOOLEAN : Decides([tr |-> v, sgn |-> sgn])
  <2>1. PICK v \in Candidates, sgn \in BOOLEAN : NewLevel([tr |-> v, sgn |-> sgn])
    BY <1>4 DEF pickBranchLit
  <2>2. [tr |-> v, sgn |-> sgn] \in Literal /\ [tr |-> v, sgn |-> sgn].tr \notin Assigned
    BY DEF Candidates, StepInv, TypeOK, Literal
  <2>3. Undefined([tr |-> v, sgn |-> sgn])
    BY <2>2, <1>1, Places
  <2> QED BY <2>1, <2>2, <2>3, <1>2
<1> QED BY <1>3, <1>4

\* stop, restart and clearSearch go back to level 0.
LEMMA ZeroStep ==
    ASSUME StepInv, stop \/ restart \/ clearSearch
    PROVE  Cuts(0) /\ 0 \in 0..decisionLevel
<1>a. TypedTrail(trail, trail_lim)
  BY Typed
<1>b. 0 \in 0..decisionLevel
  BY <1>a, Places
<1>1. Min({0, decisionLevel}) = 0 /\ 0 \in 0..decisionLevel
  BY <1>a, <1>b, KeptPart
<1> QED BY <1>1 DEF stop, restart, clearSearch, cancelUntil, cancelLevels, Cuts

\* The trail and the levels after any step.
TrailMoves ==
    \/ UNCHANGED <<trail, trail_lim>>
    \/ \E k \in 0..decisionLevel : Cuts(k)
    \/ \E k \in 0..decisionLevel, l \in Literal, from \in Reasons : Adds(k, l, from)
    \/ \E l \in Literal : Decides(l)
    \/ Skips

\* No step moves the trail in another way than keeping it, cutting it, adding one literal or deciding one.
LEMMA TrailStep == ASSUME StepInv, [Next]_vars PROVE TrailMoves
<1>1. TypedTrail(trail, trail_lim) /\ decisionLevel \in Nat
  BY Typed, Places
<1>2. ASSUME NEW k, NEW l, NEW from, Adds(k, l, from) PROVE TrailMoves
  BY <1>2 DEF Adds, Addable, TrailMoves
<1>3. ASSUME NEW k, Cuts(k) PROVE TrailMoves
  BY <1>3 DEF Cuts, TrailMoves
<1>5. ASSUME NEW l, Decides(l) PROVE TrailMoves
  BY <1>5 DEF Decides, TrailMoves
<1>6. CASE addOriginalClause_
  <2>1. trail_lim' = trail_lim
    BY <1>6 DEF addOriginalClause_
  <2>2. CASE trail' = trail
    BY <2>1, <2>2 DEF TrailMoves
  <2>3. CASE trail' # trail
    BY <2>3, <1>2, <1>6, LoadStep
  <2> QED BY <2>2, <2>3
<1>7. CASE propagateUnit
  BY <1>2, <1>7, PropagateStep
<1>8. CASE learn
  BY <1>2, <1>8, LearnStep
<1>9. CASE stop \/ restart \/ clearSearch
  BY <1>3, <1>9, ZeroStep
<1>11. CASE handleUnsat
  <2>1. UNCHANGED <<trail, trail_lim>> \/ \E k : Cuts(k)
    BY <1>11, UnsatStep DEF trailVars
  <2>2. CASE UNCHANGED <<trail, trail_lim>>
    BY <2>2 DEF TrailMoves
  <2> QED BY <2>1, <2>2, <1>3
<1>12. CASE deduceTheory
  <2>1. trail_lim' = trail_lim
    BY <1>12 DEF deduceTheory
  <2>2. CASE trail' = trail
    BY <2>1, <2>2 DEF TrailMoves
  <2>3. CASE trail' # trail
    BY <2>3, <1>2, <1>12, DeduceStep
  <2> QED BY <2>2, <2>3
<1>13. CASE addUnitSplit
  BY <1>2, <1>3, <1>13, UnitSplitStep
<1>14. CASE enqueueSplits
  <2>1. trail_lim' = trail_lim
    BY <1>14 DEF enqueueSplits
  <2>2. CASE trail' = trail
    BY <2>1, <2>2 DEF TrailMoves
  <2>3. CASE trail' # trail
    BY <2>3, <1>2, <1>14, EnqueueSplitStep
  <2> QED BY <2>2, <2>3
<1>15. CASE skipAssumption
  BY <1>15 DEF skipAssumption, Skips, TrailMoves
<1>16. CASE assume \/ pickBranchLit
  <2>1. \E l : Decides(l)
    BY <1>16, DecideStep
  <2> QED BY <2>1, <1>5
<1>18. CASE solve_ \/ takeLiteral \/ keepWatch \/ moveWatch \/ falsified \/ propagated
  BY <1>18 DEF solve_, takeLiteral, keepWatch, moveWatch, visit, falsified, propagated, trailVars, TrailMoves
<1>19. CASE resolve \/ simplify \/ removeSatisfied \/ assertLit \/ handleSat
  BY <1>19 DEF resolve, simplify, removeSatisfied, assertLit, handleSat, trailVars, TrailMoves
<1>20. CASE handleNewSplitClauses \/ addSplit \/ analyzeFinal \/ complete
  BY <1>20 DEF handleNewSplitClauses, addSplit, analyzeFinal, complete, trailVars, TrailMoves
<1>21. CASE UNCHANGED vars
  BY <1>21 DEF vars, trailVars, TrailMoves
<1> QED
  BY <1>6, <1>7, <1>8, <1>9, <1>11, <1>12, <1>13, <1>14, <1>15, <1>16, <1>18, <1>19, <1>20, <1>21 DEF Next

\* The trail stays well-formed: the levels, and the reasons before their literals.
LEMMA TrailTyped ==
    ASSUME StepInv, [Next]_vars
    PROVE  TypedTrail(trail', trail_lim')
<1>1. TypedTrail(trail, trail_lim)
  BY Typed
<1>2. CASE UNCHANGED <<trail, trail_lim>>
  BY <1>1, <1>2
<1>3. ASSUME NEW k \in 0..decisionLevel, Cuts(k) PROVE TypedTrail(trail', trail_lim')
  BY <1>1, <1>3, KeptPart DEF Cuts
<1>4. ASSUME NEW k \in 0..decisionLevel, NEW l \in Literal, NEW from \in Reasons, Adds(k, l, from)
      PROVE  TypedTrail(trail', trail_lim')
  <2>1. TypedTrail(Kept(k), SubSeq(trail_lim, 1, k)) /\ Len(SubSeq(trail_lim, 1, k)) = k
    BY <1>1, KeptPart
  <2>2. Addable(Kept(k), l, Len(SubSeq(trail_lim, 1, k)), from)
    BY <1>4, <2>1 DEF Adds
  <2>3. TypedTrail(Enqueued(Kept(k), l, Len(SubSeq(trail_lim, 1, k)), from), SubSeq(trail_lim, 1, k))
    BY <2>1, <2>2, Enqueue
  <2> QED BY <1>4, <2>1, <2>3 DEF Adds
<1>5. ASSUME NEW l \in Literal, Decides(l) PROVE TypedTrail(trail', trail_lim')
  <2>1. \A i \in DOMAIN trail : trail[i].lit.tr # l.tr
    BY <1>1, <1>5, Places DEF Decides, Assigned
  <2> QED BY <1>1, <1>5, <2>1, Decide DEF Decides, decisionLevel
<1>6. CASE Skips
  BY <1>1, <1>6, Skip DEF Skips
<1> QED BY <1>2, <1>3, <1>4, <1>5, <1>6, TrailStep DEF TrailMoves

-----------------------------------------------------------------------------
(* The mirror in the theory solver: a literal given for every literal of   *)
(* the stack whose atom the solver was told.                               *)

ToldOf(st, n, inf) == {i \in 1..n : st[i].tr \in inf}
ToldAfter(st, n, m, inf) == {i \in (n + 1)..m : st[i].tr \in inf}

Mirrored(st, gv, inf) ==
    /\ Len(gv) = Cardinality(ToldOf(st, Len(st), inf))
    /\ \A i \in ToldOf(st, Len(st), inf) : gv[Cardinality(ToldOf(st, i, inf))] = st[i]
    /\ \A k \in DOMAIN gv :
          \E i \in ToldOf(st, Len(st), inf) : Cardinality(ToldOf(st, i, inf)) = k /\ gv[k] = st[i]

\* How many of the first places of a stack were told grows with every one that was.
LEMMA Counting ==
    ASSUME NEW st, NEW inf, NEW n \in Nat, NEW m \in Nat, n <= m
    PROVE  /\ Cardinality(ToldOf(st, n, inf)) \in Nat /\ Cardinality(ToldOf(st, m, inf)) \in Nat
           /\ Cardinality(ToldOf(st, n, inf)) <= Cardinality(ToldOf(st, m, inf))
           /\ n < m /\ m \in ToldOf(st, m, inf)
                 => Cardinality(ToldOf(st, n, inf)) < Cardinality(ToldOf(st, m, inf))
           /\ Cardinality(ToldAfter(st, n, m, inf)) \in Nat
           /\ Cardinality(ToldOf(st, m, inf))
                 = Cardinality(ToldOf(st, n, inf)) + Cardinality(ToldAfter(st, n, m, inf))
<1> DEFINE N == ToldOf(st, n, inf)
           M == ToldOf(st, m, inf)
           D == ToldAfter(st, n, m, inf)
<1>1. IsFiniteSet(N) /\ IsFiniteSet(M) /\ IsFiniteSet(D)
  <2>1. IsFiniteSet(1..m) /\ IsFiniteSet((n + 1)..m)
    BY FS_Interval
  <2>2. N \subseteq 1..m /\ M \subseteq 1..m /\ D \subseteq (n + 1)..m
    BY DEF ToldOf, ToldAfter
  <2> QED BY <2>1, <2>2, FS_Subset
<1>2. Cardinality(N) \in Nat /\ Cardinality(M) \in Nat /\ Cardinality(D) \in Nat
  BY <1>1, FS_CardinalityType
<1>3. M = N \cup D /\ N \cap D = {}
  BY DEF ToldOf, ToldAfter
<1> HIDE DEF N, M, D
<1>4. Cardinality(M) = Cardinality(N) + Cardinality(D)
  <2>1. Cardinality(N \cap D) = 0
    BY <1>3, FS_EmptySet
  <2>2. Cardinality(N \cup D) = Cardinality(N) + Cardinality(D) - Cardinality(N \cap D)
    BY <1>1, FS_Union
  <2> QED BY <2>1, <2>2, <1>2, <1>3
<1>5. n < m /\ m \in M => Cardinality(D) > 0
  <2> SUFFICES ASSUME n < m, m \in M PROVE Cardinality(D) # 0
    BY <1>2
  <2>1. m \in D
    BY DEF M, D, ToldOf, ToldAfter
  <2> QED BY <2>1, <1>1, FS_EmptySet
<1> QED BY <1>2, <1>4, <1>5 DEF N, M, D

\* An empty stack is mirrored by a theory solver that was given nothing.
LEMMA MirrorNone == ASSUME NEW inf PROVE Mirrored(<<>>, <<>>, inf)
<1>1. ToldOf(<<>>, 0, inf) = {}
  BY DEF ToldOf
<1>2. Len(<<>>) = 0 /\ DOMAIN <<>> = {}
  OBVIOUS
<1> QED BY <1>1, <1>2, FS_EmptySet DEF Mirrored

\* THandler::backtrack(): a literal given less for every literal of the stack that was told.
LEMMA MirrorCut ==
    ASSUME NEW st \in Seq(Literal), NEW gv \in Seq(Literal), NEW inf, Mirrored(st, gv, inf),
           NEW k \in 0..Len(st)
    PROVE  LET left == Cardinality(ToldOf(st, k, inf))
           IN  /\ left \in 0..Len(gv)
               /\ Len(gv) - Cardinality(ToldAfter(st, k, Len(st), inf)) = left
               /\ Cardinality(ToldAfter(st, k, Len(st), inf)) \in Nat
               /\ Mirrored(SubSeq(st, 1, k), SubSeq(gv, 1, left), inf)
<1> DEFINE left == Cardinality(ToldOf(st, k, inf))
           cut == SubSeq(st, 1, k)
           kept == SubSeq(gv, 1, left)
           C(i) == Cardinality(ToldOf(st, i, inf))
<1>1. Len(st) \in Nat /\ Len(gv) \in Nat /\ k \in Nat /\ k <= Len(st) /\ DOMAIN gv = 1..Len(gv)
  OBVIOUS
<1>2. /\ left \in Nat /\ C(Len(st)) \in Nat /\ left <= C(Len(st)) /\ Len(gv) = C(Len(st))
      /\ Cardinality(ToldAfter(st, k, Len(st), inf)) \in Nat
      /\ C(Len(st)) = left + Cardinality(ToldAfter(st, k, Len(st), inf))
  BY <1>1, Counting DEF Mirrored
<1>3. left \in 0..Len(gv)
  BY <1>1, <1>2
<1>4. Len(cut) = k /\ \A i \in 1..k : cut[i] = st[i]
  BY <1>1
<1>5. Len(kept) = left /\ DOMAIN kept = 1..left /\ \A j \in 1..left : kept[j] = gv[j]
  BY <1>1, <1>3
<1>6. \A i \in 0..k : ToldOf(cut, i, inf) = ToldOf(st, i, inf)
  <2> SUFFICES ASSUME NEW i \in 0..k PROVE ToldOf(cut, i, inf) = ToldOf(st, i, inf)
    OBVIOUS
  <2>1. \A j \in 1..i : cut[j] = st[j]
    BY <1>1, <1>4
  <2> QED BY <2>1 DEF ToldOf
<1> HIDE DEF cut, kept, left
<1>7. Len(kept) = Cardinality(ToldOf(cut, Len(cut), inf))
  BY <1>1, <1>4, <1>5, <1>6 DEF left
<1>8. \A i \in ToldOf(cut, Len(cut), inf) : kept[Cardinality(ToldOf(cut, i, inf))] = cut[i]
  <2> SUFFICES ASSUME NEW i \in ToldOf(cut, Len(cut), inf) PROVE kept[Cardinality(ToldOf(cut, i, inf))] = cut[i]
    OBVIOUS
  <2>1. i \in 1..k /\ i \in Nat /\ i \in ToldOf(st, k, inf)
    BY <1>1, <1>4, <1>6 DEF ToldOf
  <2>2. i \in ToldOf(st, Len(st), inf) /\ i \in ToldOf(st, i, inf)
    BY <1>1, <2>1 DEF ToldOf
  <2>3. gv[C(i)] = st[i]
    BY <2>2 DEF Mirrored
  <2>a. i \in Nat /\ i <= k /\ 0 \in Nat /\ 0 <= i /\ 0 < i
    BY <1>1, <2>1
  <2>4. C(i) \in Nat /\ C(i) <= left
    BY <1>1, <2>a, Counting DEF left
  <2>5. C(i) > 0
    <3>1. C(0) \in Nat /\ C(0) < C(i)
      BY <2>2, <2>a, Counting
    <3> QED BY <3>1, <2>4
  <2>6. kept[C(i)] = gv[C(i)]
    BY <1>2, <1>5, <2>4, <2>5
  <2> QED BY <2>1, <2>3, <2>6, <1>1, <1>4, <1>6
<1>9. \A j \in DOMAIN kept :
        \E i \in ToldOf(cut, Len(cut), inf) : Cardinality(ToldOf(cut, i, inf)) = j /\ kept[j] = cut[i]
  <2> SUFFICES ASSUME NEW j \in 1..left
               PROVE  \E i \in ToldOf(cut, k, inf) : Cardinality(ToldOf(cut, i, inf)) = j /\ kept[j] = cut[i]
    BY <1>4, <1>5
  <2>1. PICK i \in ToldOf(st, Len(st), inf) : C(i) = j /\ gv[j] = st[i]
    BY <1>1, <1>3 DEF Mirrored
  <2>2. i \in 1..Len(st) /\ i \in Nat /\ i \in ToldOf(st, i, inf)
    BY DEF ToldOf
  <2>3. i <= k
    <3> SUFFICES ASSUME k < i PROVE FALSE
      BY <1>1, <2>2
    <3>1. left < C(i)
      BY <1>1, <2>2, Counting DEF left
    <3> QED BY <3>1, <2>1, <1>2
  <2>5. i \in 0..k /\ i \in 1..k
    <3>1. k \in Nat /\ i \in Nat /\ i >= 1
      BY <1>1, <2>2
    <3> QED BY <3>1, <2>3
  <2>4. i \in ToldOf(cut, k, inf)
    <3>1. cut[i] = st[i] /\ st[i].tr \in inf
      BY <2>2, <2>5, <1>4 DEF ToldOf
    <3> QED BY <3>1, <2>5 DEF ToldOf
  <2> QED BY <2>1, <2>4, <2>5, <1>4, <1>5, <1>6
<1>10. Mirrored(cut, kept, inf)
  BY <1>7, <1>8, <1>9 DEF Mirrored
<1> QED BY <1>1, <1>2, <1>3, <1>10 DEF cut, kept, left

\* THandler::assertLits(): a literal comes on the stack, and is given if its atom was told.
LEMMA MirrorAdd ==
    ASSUME NEW st \in Seq(Literal), NEW gv \in Seq(Literal), NEW inf, Mirrored(st, gv, inf), NEW l \in Literal
    PROVE  /\ l.tr \notin inf => Mirrored(Append(st, l), gv, inf)
           /\ l.tr \in inf => Mirrored(Append(st, l), Append(gv, l), inf)
<1> DEFINE n == Len(st)
           more == Append(st, l)
           give == Append(gv, l)
           C(i) == Cardinality(ToldOf(st, i, inf))
<1>1. /\ n \in Nat /\ Len(gv) \in Nat /\ DOMAIN gv = 1..Len(gv) /\ Len(more) = n + 1 /\ more[n + 1] = l
      /\ \A i \in 1..n : more[i] = st[i]
  OBVIOUS
<1>2. Len(give) = Len(gv) + 1 /\ DOMAIN give = 1..(Len(gv) + 1) /\ give[Len(gv) + 1] = l
      /\ \A j \in 1..Len(gv) : give[j] = gv[j]
  OBVIOUS
<1> HIDE DEF n, more, give
<1>3. \A i \in 0..n : ToldOf(more, i, inf) = ToldOf(st, i, inf)
  <2> SUFFICES ASSUME NEW i \in 0..n PROVE ToldOf(more, i, inf) = ToldOf(st, i, inf)
    OBVIOUS
  <2>1. \A j \in 1..i : more[j] = st[j]
    BY <1>1
  <2> QED BY <2>1 DEF ToldOf
<1>4. /\ Len(gv) = C(n) /\ C(n) \in Nat
      /\ \A i \in ToldOf(st, n, inf) : gv[C(i)] = st[i]
      /\ \A k \in DOMAIN gv : \E i \in ToldOf(st, n, inf) : C(i) = k /\ gv[k] = st[i]
  BY <1>1, Counting DEF Mirrored, n
<1>5. \A i \in ToldOf(st, n, inf) : i \in 1..n /\ i \in 0..n
  BY <1>1 DEF ToldOf
<1>6. CASE l.tr \notin inf
  <2>1. ToldOf(more, n + 1, inf) = ToldOf(st, n, inf)
    BY <1>1, <1>6 DEF ToldOf
  <2>2. \A i \in ToldOf(st, n, inf) : Cardinality(ToldOf(more, i, inf)) = C(i) /\ more[i] = st[i]
    BY <1>1, <1>3, <1>5
  <2>3. Mirrored(more, gv, inf)
    BY <2>1, <2>2, <1>1, <1>4 DEF Mirrored
  <2> QED BY <2>3, <1>6 DEF more
<1>7. CASE l.tr \in inf
  <2>1. ToldOf(more, n + 1, inf) = ToldOf(st, n, inf) \cup {n + 1}
    <3>1. \A i \in 1..(n + 1) : i \in 1..n \/ i = n + 1
      BY <1>1
    <3>2. 1..n \subseteq 1..(n + 1) /\ n + 1 \in 1..(n + 1)
      BY <1>1
    <3> QED BY <3>1, <3>2, <1>1, <1>7 DEF ToldOf
  <2>2. \A i \in ToldOf(st, n, inf) : /\ Cardinality(ToldOf(more, i, inf)) = C(i) /\ more[i] = st[i]
                                      /\ C(i) \in DOMAIN gv
    <3> SUFFICES ASSUME NEW i \in ToldOf(st, n, inf)
                 PROVE  /\ Cardinality(ToldOf(more, i, inf)) = C(i) /\ more[i] = st[i]
                        /\ C(i) \in DOMAIN gv
      OBVIOUS
    <3>1. i \in 1..n /\ i \in 0..n /\ i \in Nat /\ i <= n /\ 0 \in Nat /\ 0 <= i /\ 0 < i /\ i \in ToldOf(st, i, inf)
      BY <1>1 DEF ToldOf
    <3>2. C(i) \in Nat /\ C(i) <= C(n)
      BY <3>1, <1>1, Counting
    <3>3. C(0) \in Nat /\ C(0) < C(i)
      BY <3>1, Counting
    <3>4. C(i) \in DOMAIN gv
      BY <3>2, <3>3, <1>1, <1>4
    <3> QED BY <3>1, <3>4, <1>1, <1>3
  <2>3. Cardinality(ToldOf(more, n + 1, inf)) = C(n) + 1
    <3>1. IsFiniteSet(ToldOf(st, n, inf))
      <4>1. IsFiniteSet(1..n) /\ ToldOf(st, n, inf) \subseteq 1..n
        BY <1>1, FS_Interval DEF ToldOf
      <4> QED BY <4>1, FS_Subset
    <3>2. n + 1 \notin ToldOf(st, n, inf)
      BY <1>1 DEF ToldOf
    <3> QED BY <2>1, <3>1, <3>2, FS_AddElement
  <2>4. Len(give) = Cardinality(ToldOf(more, Len(more), inf))
    BY <2>3, <1>1, <1>2, <1>4
  <2>5. ASSUME NEW i \in ToldOf(more, Len(more), inf) PROVE give[Cardinality(ToldOf(more, i, inf))] = more[i]
    <3>1. CASE i \in ToldOf(st, n, inf)
      BY <3>1, <2>2, <1>1, <1>2, <1>4
    <3>2. CASE i = n + 1
      BY <3>2, <2>3, <1>1, <1>2, <1>4
    <3> QED BY <3>1, <3>2, <2>1, <2>5, <1>1
  <2>6. ASSUME NEW k \in DOMAIN give
        PROVE  \E i \in ToldOf(more, Len(more), inf) : Cardinality(ToldOf(more, i, inf)) = k /\ give[k] = more[i]
    <3>1. CASE k \in DOMAIN gv
      <4>1. PICK i \in ToldOf(st, n, inf) : C(i) = k /\ gv[k] = st[i]
        BY <3>1, <1>4
      <4>2. i \in ToldOf(more, Len(more), inf)
        BY <2>1, <1>1
      <4> QED BY <4>1, <4>2, <3>1, <2>2, <1>1, <1>2
    <3>2. CASE k = Len(gv) + 1
      <4>1. n + 1 \in ToldOf(more, Len(more), inf)
        BY <2>1, <1>1
      <4> QED BY <4>1, <3>2, <2>3, <1>1, <1>2, <1>4
    <3> QED BY <3>1, <3>2, <2>6, <1>1, <1>2
  <2>7. Mirrored(more, give, inf)
    BY <2>4, <2>5, <2>6 DEF Mirrored
  <2> QED BY <2>7, <1>7 DEF more, give
<1> QED BY <1>6, <1>7

\* handleNewSplitClauses(): the solver is told atoms that are not on the stack.
LEMMA MirrorMore ==
    ASSUME NEW st \in Seq(Literal), NEW gv, NEW inf, NEW wider, Mirrored(st, gv, inf),
           inf \subseteq wider, \A i \in DOMAIN st : st[i].tr \in wider => st[i].tr \in inf
    PROVE  Mirrored(st, gv, wider)
<1>1. Len(st) \in Nat /\ DOMAIN st = 1..Len(st)
  OBVIOUS
<1>2. \A i \in 0..Len(st) : ToldOf(st, i, wider) = ToldOf(st, i, inf)
  <2> SUFFICES ASSUME NEW i \in 0..Len(st) PROVE ToldOf(st, i, wider) = ToldOf(st, i, inf)
    OBVIOUS
  <2>1. 1..i \subseteq DOMAIN st
    BY <1>1
  <2> QED BY <2>1 DEF ToldOf
<1>3. Len(st) \in 0..Len(st) /\ \A i \in ToldOf(st, Len(st), inf) : i \in 0..Len(st)
  BY <1>1 DEF ToldOf
<1> QED BY <1>2, <1>3 DEF Mirrored

\* The theory handler and its solver in step with the trail, part by part.
TheoryOK ==
    /\ TSolverTypeOK /\ stack \in Seq(Literal) /\ given \in Seq(Literal)
    /\ TheoryMirrorsTrail /\ Marks

OnStack == stack \in Seq(Literal) /\ Len(stack) <= Len(trail) /\ \A i \in DOMAIN stack : stack[i] = trail[i].lit

MarksOK ==
    /\ \A i \in DOMAIN deductions_marks :
          deductions_marks[i].next <= deductions_marks[i].lim /\ deductions_marks[i].lim <= Len(th_deductions)
    /\ \A i, j \in DOMAIN deductions_marks : i <= j => deductions_marks[i].lim <= deductions_marks[j].lim

TheoryPieces ==
    /\ TSolverTypeOK /\ OnStack /\ given \in Seq(Literal) /\ Mirrored(stack, given, informed)
    /\ Len(deductions_marks) = Len(given) /\ MarksOK

\* What the invariant says of the theory solver.
LEMMA Pieces == ASSUME StepInv PROVE TheoryPieces
<1>1. TypeOK /\ TheoryMirrorsTrail /\ Marks
  BY DEF StepInv
<1>2. TSolverTypeOK /\ OnStack /\ given \in Seq(Literal)
  BY <1>1 DEF TypeOK, OnStack, TheoryMirrorsTrail
<1>3. Mirrored(stack, given, informed)
  BY <1>1 DEF Mirrored, TheoryMirrorsTrail, Marks, Told, ToldOf
<1>4. Len(deductions_marks) = Len(given) /\ MarksOK
  BY <1>1 DEF TheoryMirrorsTrail, Marks, MarksOK
<1> QED BY <1>2, <1>3, <1>4 DEF TheoryPieces

\* ... and that these pieces make up its part of the invariant in the next state.
LEMMA PiecesNext == ASSUME TheoryPieces' PROVE TheoryOK'
<1>1. TSolverTypeOK' /\ (stack \in Seq(Literal))' /\ (given \in Seq(Literal))'
  BY DEF TheoryPieces, OnStack
<1>2. TheoryMirrorsTrail'
  BY DEF TheoryPieces, OnStack, Mirrored, TheoryMirrorsTrail, ToldOf
<1>3. Marks'
  BY DEF TheoryPieces, Mirrored, Marks, MarksOK, Told, ToldOf
<1> QED BY <1>1, <1>2, <1>3 DEF TheoryOK

\* The deductions when all backtrack points but m of them are popped.
TheoryCut(m) ==
    IF m = Len(given)
    THEN UNCHANGED <<th_deductions, deductions_next, deductions_marks, polarity, has_explanation>>
    ELSE /\ th_deductions' = SubSeq(th_deductions, 1, deductions_marks[m + 1].lim)
         /\ deductions_next' = deductions_marks[m + 1].next
         /\ deductions_marks' = SubSeq(deductions_marks, 1, m)
         /\ polarity' \subseteq polarity
         /\ has_explanation' = FALSE

\* THandler::backtrack() takes as many literals from the theory solver as it told it since.
LEMMA BacktrackStep ==
    ASSUME StepInv, NEW n \in 0..Len(trail), backtrack(n)
    PROVE  \E k \in 0..Len(stack), m \in 0..Len(given) :
              /\ k <= n /\ stack' = SubSeq(stack, 1, k) /\ given' = SubSeq(given, 1, m)
              /\ informed' = informed /\ Mirrored(stack', given', informed')
              /\ TheoryCut(m)
<1> DEFINE k == Min({n, Len(stack)})
           m == Cardinality(ToldOf(stack, k, informed))
           pops == Cardinality(ToldAfter(stack, k, Len(stack), informed))
<1>1. /\ stack \in Seq(Literal) /\ given \in Seq(Literal) /\ Mirrored(stack, given, informed)
      /\ Len(deductions_marks) = Len(given)
      /\ Len(stack) \in Nat /\ Len(given) \in Nat /\ Len(trail) \in Nat
  BY Pieces, Typed, Places DEF TheoryPieces, OnStack
<1>2. k \in 0..Len(stack) /\ k <= n
  <2>1. {n, Len(stack)} \in SUBSET Nat
    BY <1>1
  <2>2. k \in {n, Len(stack)} /\ \A x \in {n, Len(stack)} : k <= x
    BY <2>1, Smallest
  <2> QED BY <2>2, <1>1
<1> HIDE DEF k
<1>3. /\ m \in 0..Len(given) /\ Len(given) - pops = m /\ pops \in Nat
      /\ Mirrored(SubSeq(stack, 1, k), SubSeq(given, 1, m), informed)
  BY <1>1, <1>2, MirrorCut
<1>4. Pops(k) = pops
  BY DEF Pops, ToldAfter
<1>5. stack' = SubSeq(stack, 1, k)
  BY DEF backtrack, k
<1> HIDE DEF m, pops
<1>6. CASE pops = 0
  <2>1. UNCHANGED <<tsolverVars, given>>
    BY <1>4, <1>6 DEF backtrack, k
  <2>2. m = Len(given) /\ given = SubSeq(given, 1, m)
    BY <1>1, <1>3, <1>6, SubSeqFull
  <2>3. informed' = informed /\ TheoryCut(m) /\ given' = SubSeq(given, 1, m)
    BY <2>1, <2>2 DEF tsolverVars, TheoryCut
  <2> QED BY <2>3, <1>2, <1>3, <1>5
<1>7. CASE pops # 0
  <2>1. /\ PopMarks(pops) /\ given' = SubSeq(given, 1, Len(given) - pops)
        /\ has_explanation' = FALSE /\ informed' = informed
    BY <1>4, <1>7 DEF backtrack, k
  <2>2. m # Len(given) /\ Len(deductions_marks) - pops + 1 = m + 1 /\ Len(deductions_marks) - pops = m
    BY <1>1, <1>3, <1>7
  <2>3. /\ th_deductions' = SubSeq(th_deductions, 1, deductions_marks[m + 1].lim)
        /\ deductions_next' = deductions_marks[m + 1].next
        /\ deductions_marks' = SubSeq(deductions_marks, 1, m)
        /\ polarity' \subseteq polarity
    BY <2>1, <2>2 DEF PopMarks
  <2>4. TheoryCut(m) /\ given' = SubSeq(given, 1, m)
    BY <2>1, <2>2, <2>3, <1>3 DEF TheoryCut
  <2> QED BY <2>1, <2>4, <1>2, <1>3, <1>5
<1> QED BY <1>3, <1>6, <1>7

\* A theory solver that takes literals back keeps its marks, and its deductions, in order.
LEMMA TheoryCutTyped ==
    ASSUME StepInv, NEW m \in 0..Len(given), informed' = informed, TheoryCut(m)
    PROVE  TSolverTypeOK' /\ Len(deductions_marks') = m /\ MarksOK'
<1>1. TSolverTypeOK /\ MarksOK /\ Len(deductions_marks) = Len(given) /\ Len(given) \in Nat
  BY Pieces DEF TheoryPieces
<1>2. /\ th_deductions \in Seq(Literal) /\ deductions_next \in 0..Len(th_deductions)
      /\ deductions_marks \in Seq([lim : Nat, next : Nat]) /\ informed \subseteq Atoms /\ polarity \subseteq Atoms
      /\ has_explanation \in BOOLEAN
  BY <1>1 DEF TSolverTypeOK
<1>3. CASE m = Len(given)
  BY <1>1, <1>3 DEF TheoryCut, TSolverTypeOK, MarksOK
<1>4. CASE m # Len(given)
  <2>1. /\ th_deductions' = SubSeq(th_deductions, 1, deductions_marks[m + 1].lim)
        /\ deductions_next' = deductions_marks[m + 1].next
        /\ deductions_marks' = SubSeq(deductions_marks, 1, m)
        /\ polarity' \subseteq polarity /\ has_explanation' = FALSE
    BY <1>4 DEF TheoryCut
  <2> DEFINE mark == deductions_marks[m + 1]
  <2>2. m + 1 \in DOMAIN deductions_marks /\ DOMAIN deductions_marks = 1..Len(given)
    BY <1>1, <1>2, <1>4
  <2> DEFINE M == [lim : Nat, next : Nat]
  <2>a. deductions_marks \in Seq(M)
    BY <1>2
  <2>b. \A x \in M : x.lim \in Nat /\ x.next \in Nat
    OBVIOUS
  <2> HIDE DEF M
  <2>3. mark \in M
    BY <1>1, <2>2, <2>a, ElementOfSeq
  <2>4. mark.lim \in Nat /\ mark.next \in Nat /\ mark.next <= mark.lim /\ mark.lim <= Len(th_deductions)
    BY <1>1, <2>2, <2>3, <2>b DEF MarksOK
  <2> HIDE DEF mark
  <2>5. th_deductions' \in Seq(Literal) /\ Len(th_deductions') = mark.lim
    <3> DEFINE n == mark.lim
    <3>1. th_deductions' = SubSeq(th_deductions, 1, n)
      BY <2>1 DEF mark
    <3>2. th_deductions \in Seq(Literal) /\ n \in Nat /\ n <= Len(th_deductions)
      BY <1>2, <2>4
    <3> HIDE DEF n
    <3>3. \A i \in 1..n : th_deductions[i] \in Literal
      BY <3>2, ElementOfSeq, LenProperties
    <3>4. SubSeq(th_deductions, 1, n) \in Seq(Literal) /\ Len(SubSeq(th_deductions, 1, n)) = n
      BY <3>2, <3>3, SubSeqProperties
    <3> QED BY <3>1, <3>4 DEF n
  <2>c. \A i \in 1..m : deductions_marks[i] \in M
    BY <1>1, <2>a, ElementOfSeq
  <2>6. /\ deductions_marks' \in Seq(M) /\ Len(deductions_marks') = m
        /\ DOMAIN deductions_marks' = 1..m /\ \A i \in 1..m : deductions_marks'[i] = deductions_marks[i]
    <3>1. SubSeq(deductions_marks, 1, m) \in Seq(M) /\ Len(SubSeq(deductions_marks, 1, m)) = m
      BY <1>1, <2>c, SubSeqProperties
    <3>2. \A i \in 1..m : SubSeq(deductions_marks, 1, m)[i] = deductions_marks[i]
      BY <1>1, <2>a, <2>c
    <3> QED BY <2>1, <3>1, <3>2, LenProperties
  <2>7. TSolverTypeOK'
    <3>1. deductions_next' \in 0..Len(th_deductions')
      BY <2>1, <2>4, <2>5 DEF mark
    <3>2. deductions_marks' \in Seq([lim : Nat, next : Nat])
      BY <2>6 DEF M
    <3>3. informed' \subseteq Atoms /\ polarity' \subseteq Atoms /\ has_explanation' \in BOOLEAN
      BY <1>2, <2>1
    <3> QED BY <2>5, <3>1, <3>2, <3>3 DEF TSolverTypeOK
  <2>8. \A i \in 1..m : i \in DOMAIN deductions_marks /\ i <= m + 1
    BY <2>2
  <2>9. \A i \in 1..m : deductions_marks[i].next <= deductions_marks[i].lim /\ deductions_marks[i].lim <= mark.lim
    BY <1>1, <2>2, <2>8 DEF MarksOK, mark
  <2>10. MarksOK'
    BY <1>1, <2>5, <2>6, <2>8, <2>9 DEF MarksOK
  <2> QED BY <2>6, <2>7, <2>10
<1> QED BY <1>3, <1>4

\* The first n literals of the trail stay where they are.
Keeps(n) == n <= Len(trail') /\ \A i \in 1..n : trail'[i] = trail[i]

\* Cancelling levels leaves the part of the trail below them as it is.
LEMMA KeepsCut ==
    ASSUME StepInv, NEW k \in 0..decisionLevel, Cuts(k) \/ \E l \in Literal, from \in Reasons : Adds(k, l, from)
    PROVE  Keeps(KeptAt(k)) /\ KeptAt(k) \in 0..Len(trail)
<1>1. /\ KeptAt(k) \in 0..Len(trail) /\ Kept(k) \in Seq(Entry) /\ Len(Kept(k)) = KeptAt(k)
      /\ \A i \in 1..KeptAt(k) : Kept(k)[i] = trail[i]
  BY Typed, KeptPart
<1>2. CASE Cuts(k)
  BY <1>1, <1>2 DEF Cuts, Keeps
<1>3. ASSUME NEW l \in Literal, NEW from \in Reasons, Adds(k, l, from) PROVE Keeps(KeptAt(k))
  <2>1. [lit |-> l, level |-> k, reason |-> from] \in Entry
    BY Typed, Places DEF Entry
  <2>2. trail' = Append(Kept(k), [lit |-> l, level |-> k, reason |-> from])
    BY <1>3 DEF Adds, Enqueued
  <2> QED BY <1>1, <2>1, <2>2, AppendProperties DEF Keeps
<1> QED BY <1>1, <1>2, <1>3

\* A trail that is kept or grows has its old part left as it is.
LEMMA KeepsAll ==
    ASSUME StepInv, \/ trail' = trail
                    \/ \E l \in Literal, k \in Nat, from \in Reasons : trail' = Enqueued(trail, l, k, from)
    PROVE  Keeps(Len(trail))
<1>1. trail \in Seq(Entry) /\ Len(trail) \in Nat
  BY Typed DEF TypedTrail
<1>2. CASE trail' = trail
  BY <1>1, <1>2 DEF Keeps
<1>3. ASSUME NEW l \in Literal, NEW k \in Nat, NEW from \in Reasons, trail' = Enqueued(trail, l, k, from)
      PROVE  Keeps(Len(trail))
  <2>1. [lit |-> l, level |-> k, reason |-> from] \in Entry
    BY DEF Entry
  <2>2. trail' = Append(trail, [lit |-> l, level |-> k, reason |-> from])
    BY <1>3 DEF Enqueued
  <2> QED BY <1>1, <2>1, <2>2, AppendProperties DEF Keeps
<1> QED BY <1>2, <1>3

\* What is left of the stack is on what is left of the trail.
LEMMA StackKept ==
    ASSUME StepInv, NEW k \in 0..Len(stack), stack' = SubSeq(stack, 1, k), Keeps(k), Len(trail') \in Nat
    PROVE  OnStack'
<1>1. stack \in Seq(Literal) /\ Len(stack) <= Len(trail) /\ \A i \in DOMAIN stack : stack[i] = trail[i].lit
  BY Pieces DEF TheoryPieces, OnStack
<1>2. /\ stack' \in Seq(Literal) /\ Len(stack') = k /\ DOMAIN stack' = 1..k
      /\ \A i \in 1..k : stack'[i] = stack[i] /\ i \in DOMAIN stack
  BY <1>1
<1> QED BY <1>1, <1>2 DEF OnStack, Keeps

\* A step that touches only the end of the trail leaves the theory solver in step with it.
LEMMA TheorySame ==
    ASSUME StepInv, UNCHANGED theoryVars, Keeps(Len(trail)), Len(trail') \in Nat
    PROVE  TheoryPieces'
<1>1. TheoryPieces /\ UNCHANGED <<informed, th_deductions, deductions_next, deductions_marks, polarity,
                                  has_explanation, stack, given>>
  BY Pieces DEF theoryVars, tsolverVars
<1>2. Len(stack) \in Nat /\ Len(stack) <= Len(trail) /\ stack = SubSeq(stack, 1, Len(stack)) /\ Len(trail) \in Nat
  BY <1>1, Typed, Places, SubSeqFull DEF TheoryPieces, OnStack
<1>a. Keeps(Len(stack)) /\ Len(stack) \in 0..Len(stack) /\ stack' = SubSeq(stack, 1, Len(stack))
  BY <1>1, <1>2 DEF Keeps
<1>3. OnStack'
  BY <1>a, StackKept
<1>4. TSolverTypeOK' /\ MarksOK'
  BY <1>1 DEF TheoryPieces, TSolverTypeOK, MarksOK
<1> QED BY <1>1, <1>3, <1>4 DEF TheoryPieces

\* Backtracking the theory solver to what is left of the trail brings the two in step.
LEMMA TheoryBack ==
    ASSUME StepInv, NEW n \in 0..Len(trail), backtrack(n), Keeps(n), Len(trail') \in Nat
    PROVE  TheoryPieces'
<1>1. PICK k \in 0..Len(stack), m \in 0..Len(given) :
          /\ k <= n /\ stack' = SubSeq(stack, 1, k) /\ given' = SubSeq(given, 1, m)
          /\ informed' = informed /\ Mirrored(stack', given', informed')
          /\ TheoryCut(m)
  BY BacktrackStep
<1>2. stack \in Seq(Literal) /\ given \in Seq(Literal) /\ Len(trail) \in Nat
  BY Pieces, Typed, Places DEF TheoryPieces, OnStack
<1>3. given' \in Seq(Literal) /\ Len(given') = m
  BY <1>1, <1>2
<1>4. Keeps(k)
  BY <1>1, <1>2 DEF Keeps
<1>5. OnStack'
  BY <1>1, <1>4, StackKept
<1>6. TSolverTypeOK' /\ Len(deductions_marks') = m /\ MarksOK'
  BY <1>1, TheoryCutTyped
<1> QED BY <1>1, <1>3, <1>5, <1>6 DEF TheoryPieces

\* So does cancelUntil(), which calls backtrack() only when there is a level to cancel.
LEMMA TheoryCancel ==
    ASSUME StepInv, NEW k \in 0..decisionLevel, cancelUntil(k), Len(trail') \in Nat,
           Cuts(k) \/ \E l \in Literal, from \in Reasons : Adds(k, l, from)
    PROVE  TheoryPieces'
<1>1. Keeps(KeptAt(k)) /\ KeptAt(k) \in 0..Len(trail)
  BY KeepsCut
<1>2. CASE decisionLevel > k
  BY <1>1, <1>2, TheoryBack DEF cancelUntil
<1>3. CASE ~ (decisionLevel > k)
  <2>1. KeptAt(k) = Len(trail) /\ UNCHANGED theoryVars
    BY <1>3 DEF KeptAt, cancelUntil
  <2> QED BY <1>1, <2>1, TheorySame
<1> QED BY <1>2, <1>3

\* The solver deduces literals, and asks for none twice.
LEMMA AssertLitTheory ==
    ASSUME StepInv, assertLit
    PROVE  TheoryPieces'
<1> DEFINE l == trail[Len(stack) + 1].lit
<1>1. /\ TSolverTypeOK /\ stack \in Seq(Literal) /\ given \in Seq(Literal) /\ Mirrored(stack, given, informed)
      /\ Len(stack) \in Nat /\ Len(given) \in Nat /\ Len(stack) <= Len(trail)
      /\ \A i \in DOMAIN stack : stack[i] = trail[i].lit
      /\ Len(deductions_marks) = Len(given) /\ MarksOK
  BY Pieces DEF TheoryPieces, OnStack
<1>2. Len(stack) < Len(trail) /\ stack' = Append(stack, l) /\ trail' = trail
  BY DEF assertLit, trailVars
<1>3. Len(trail) \in Nat /\ Len(stack) + 1 \in DOMAIN trail /\ l \in Literal
  BY <1>1, <1>2, Typed, Places
<1>4. OnStack'
  <2>1. /\ stack' \in Seq(Literal) /\ Len(stack') = Len(stack) + 1 /\ DOMAIN stack' = 1..(Len(stack) + 1)
        /\ stack'[Len(stack) + 1] = l /\ \A i \in 1..Len(stack) : stack'[i] = stack[i]
    BY <1>1, <1>2, <1>3
  <2>2. \A i \in 1..Len(stack) : stack'[i] = trail[i].lit
    BY <2>1, <1>1
  <2> QED BY <2>1, <2>2, <1>1, <1>2, <1>3 DEF OnStack
<1>5. CASE l.tr \notin informed
  <2>1. UNCHANGED <<informed, th_deductions, deductions_next, deductions_marks, polarity, has_explanation, given>>
    BY <1>5 DEF assertLit, tsolverVars
  <2>2. Mirrored(stack', given', informed')
    BY <2>1, <1>1, <1>2, <1>3, <1>5, MirrorAdd
  <2>3. TSolverTypeOK' /\ MarksOK'
    BY <2>1, <1>1 DEF TSolverTypeOK, MarksOK
  <2> QED BY <2>1, <2>2, <2>3, <1>1, <1>4 DEF TheoryPieces
<1>6. CASE l.tr \in informed
  <2>1. /\ given' = Append(given, l) /\ deductions_marks' = Append(deductions_marks, Mark)
        /\ UNCHANGED <<informed, deductions_next>>
        /\ has_explanation' = TRUE \/ has_explanation' = has_explanation
        /\ \/ UNCHANGED <<th_deductions, polarity>>
           \/ \E some \in SUBSET Deducible(Given \cup {l}) : StoreDeductions(SetToSeq(some))
    BY <1>6 DEF assertLit
  <2>2. Mirrored(stack', given', informed') /\ given' \in Seq(Literal) /\ Len(given') = Len(given) + 1
    BY <2>1, <1>1, <1>2, <1>3, <1>6, MirrorAdd
  <2>3. /\ th_deductions \in Seq(Literal) /\ deductions_next \in 0..Len(th_deductions)
        /\ deductions_marks \in Seq([lim : Nat, next : Nat]) /\ informed \subseteq Atoms /\ polarity \subseteq Atoms
        /\ has_explanation \in BOOLEAN /\ Len(th_deductions) \in Nat
    BY <1>1 DEF TSolverTypeOK
  <2>4. /\ th_deductions' \in Seq(Literal) /\ Len(th_deductions') >= Len(th_deductions)
        /\ Len(th_deductions') \in Nat /\ polarity' \subseteq Atoms
    <3>1. CASE UNCHANGED <<th_deductions, polarity>>
      BY <3>1, <2>3
    <3>2. ASSUME NEW some \in SUBSET Deducible(Given \cup {l}), StoreDeductions(SetToSeq(some))
          PROVE  /\ th_deductions' \in Seq(Literal) /\ Len(th_deductions') >= Len(th_deductions)
                 /\ Len(th_deductions') \in Nat /\ polarity' \subseteq Atoms
      <4>1. some \in SUBSET Literal
        BY DEF Deducible
      <4> DEFINE new == SetToSeq(some)
      <4>2. new \in Seq(some)
        BY <4>1, Listing
      <4>3. new \in Seq(Literal) /\ Len(new) \in Nat /\ DOMAIN new = 1..Len(new)
        BY <4>1, <4>2, SeqMonotonic
      <4>4. \A i \in DOMAIN new : new[i].tr \in Atoms
        BY <4>3, ElementOfSeq, Negation
      <4> HIDE DEF new
      <4>5. th_deductions' = th_deductions \o new /\ polarity' = polarity \cup {new[i].tr : i \in DOMAIN new}
        BY <3>2 DEF StoreDeductions, new
      <4> QED BY <4>3, <4>4, <4>5, <2>3, ConcatProperties
    <3> QED BY <2>1, <3>1, <3>2
  <2> DEFINE M == [lim : Nat, next : Nat]
  <2>5. Mark \in M /\ Mark.next <= Mark.lim /\ Mark.lim = Len(th_deductions)
    BY <2>3 DEF Mark
  <2>6. deductions_marks \in Seq(M)
    BY <2>3
  <2>a. \A x \in M : x.lim \in Nat /\ x.next \in Nat
    OBVIOUS
  <2> HIDE DEF M
  <2>b. \A i \in DOMAIN deductions_marks : deductions_marks[i] \in M
    BY <2>6, ElementOfSeq, LenProperties
  <2>7. \A i \in DOMAIN deductions_marks : deductions_marks[i].lim \in Nat /\ deductions_marks[i].next \in Nat
    BY <2>a, <2>b
  <2>8. /\ deductions_marks' \in Seq(M) /\ Len(deductions_marks') = Len(given) + 1
        /\ DOMAIN deductions_marks' = 1..(Len(given) + 1) /\ deductions_marks'[Len(given) + 1] = Mark
        /\ \A i \in 1..Len(given) : deductions_marks'[i] = deductions_marks[i] /\ i \in DOMAIN deductions_marks
    BY <2>1, <2>5, <2>6, <1>1, AppendProperties, LenProperties
  <2>9. \A i \in 1..Len(given) : /\ deductions_marks[i].next <= deductions_marks[i].lim
                                 /\ deductions_marks[i].lim <= Len(th_deductions)
    BY <2>8, <1>1 DEF MarksOK
  <2>10. \A i, j \in 1..Len(given) : i <= j => deductions_marks[i].lim <= deductions_marks[j].lim
    BY <2>8, <1>1 DEF MarksOK
  <2>11. MarksOK'
    <3>1. \A i \in DOMAIN deductions_marks' : i \in 1..Len(given) \/ i = Len(given) + 1
      BY <2>8, <1>1
    <3>2. ASSUME NEW i \in DOMAIN deductions_marks'
          PROVE  /\ deductions_marks'[i].next <= deductions_marks'[i].lim
                 /\ deductions_marks'[i].lim <= Len(th_deductions) /\ deductions_marks'[i].lim \in Nat
      <4>1. CASE i \in 1..Len(given)
        BY <4>1, <2>7, <2>8, <2>9
      <4>2. CASE i = Len(given) + 1
        BY <4>2, <2>3, <2>5, <2>8
      <4> QED BY <3>1, <4>1, <4>2
    <3>3. ASSUME NEW i \in DOMAIN deductions_marks', NEW j \in DOMAIN deductions_marks', i <= j
          PROVE  deductions_marks'[i].lim <= deductions_marks'[j].lim
      <4>1. CASE j = Len(given) + 1
        <5>1. deductions_marks'[j].lim = Len(th_deductions)
          BY <4>1, <2>5, <2>8
        <5> QED BY <5>1, <3>2
      <4>2. CASE j \in 1..Len(given)
        <5>1. i \in 1..Len(given)
          BY <3>1, <3>3, <4>2, <1>1
        <5> QED BY <5>1, <4>2, <3>3, <2>8, <2>10
      <4> QED BY <3>1, <4>1, <4>2
    <3>4. \A i \in DOMAIN deductions_marks' : deductions_marks'[i].lim <= Len(th_deductions')
      BY <3>2, <2>3, <2>4
    <3> QED BY <3>2, <3>3, <3>4 DEF MarksOK
  <2>12. TSolverTypeOK'
    <3>1. deductions_next' \in 0..Len(th_deductions')
      <4>1. deductions_next' = deductions_next
        BY <2>1
      <4> QED BY <4>1, <2>3, <2>4
    <3>a. has_explanation' \in BOOLEAN
      BY <2>1, <2>3
    <3>b. informed' \subseteq Atoms
      BY <2>1, <2>3
    <3>2. deductions_marks' \in Seq([lim : Nat, next : Nat])
      BY <2>8 DEF M
    <3> QED BY <3>1, <3>2, <3>a, <3>b, <2>4 DEF TSolverTypeOK
  <2> QED BY <2>2, <2>8, <2>11, <2>12, <1>4 DEF TheoryPieces
<1> QED BY <1>5, <1>6

\* The theory solver is told atoms that are not on the trail, and what it deduced is dropped.
LEMMA MoreTold ==
    ASSUME StepInv, handleNewSplitClauses
    PROVE  TheoryPieces'
<1>1. TheoryPieces /\ Declared /\ pc = "complete"
  BY Pieces DEF StepInv, handleNewSplitClauses
<1>2. PICK more \in SUBSET problem.theory : informed' = informed \cup more
  BY DEF handleNewSplitClauses
<1>3. /\ deductions_next' = Len(th_deductions)
      /\ UNCHANGED <<trail, th_deductions, deductions_marks, polarity, has_explanation, stack, given>>
  BY DEF handleNewSplitClauses, trailVars
<1>4. problem.theory \in SUBSET Atoms
  BY Asked DEF StepInv
<1>5. OnStack'
  BY <1>1, <1>3 DEF TheoryPieces, OnStack
<1>6. stack \in Seq(Literal) /\ given \in Seq(Literal) /\ Mirrored(stack, given, informed)
  BY <1>1 DEF TheoryPieces, OnStack
<1>7. \A i \in DOMAIN stack : stack[i].tr \in informed' => stack[i].tr \in informed
  <2> SUFFICES ASSUME NEW i \in DOMAIN stack, stack[i].tr \in problem.theory PROVE stack[i].tr \in informed
    BY <1>2
  <2>1. stack[i].tr \in Assigned
    <3>1. Len(stack) \in Nat /\ Len(trail) \in Nat /\ Len(stack) <= Len(trail) /\ stack[i] = trail[i].lit
      BY <1>1, Typed, Places DEF TheoryPieces, OnStack
    <3>2. i \in DOMAIN trail
      BY <1>6, <3>1, Typed, Places
    <3> QED BY <3>1, <3>2 DEF Assigned
  <2> QED BY <2>1, <1>1 DEF Declared, Loading
<1>8. Mirrored(stack, given, informed')
  BY <1>2, <1>6, <1>7, MirrorMore
<1>9. TSolverTypeOK'
  BY <1>1, <1>2, <1>3, <1>4 DEF TheoryPieces, TSolverTypeOK
<1> QED BY <1>1, <1>3, <1>5, <1>8, <1>9 DEF TheoryPieces, MarksOK

\* Whatever the search does, the theory handler and its solver stay in step with the trail.
LEMMA TheoryStep ==
    ASSUME StepInv, [Next]_vars
    PROVE  TheoryPieces'
<1>1. TypedTrail(trail, trail_lim) /\ Len(trail') \in Nat /\ decisionLevel \in Nat
  BY Typed, TrailTyped, Places DEF TypedTrail
<1>2. ASSUME UNCHANGED <<trail, theoryVars>> PROVE TheoryPieces'
  BY <1>1, <1>2, KeepsAll, TheorySame
<1>3. ASSUME UNCHANGED theoryVars, NEW l, NEW from, Adds(decisionLevel, l, from) PROVE TheoryPieces'
  <2>1. Keeps(KeptAt(decisionLevel)) /\ KeptAt(decisionLevel) = Len(trail)
    BY <1>1, <1>3, KeepsCut DEF Adds, Addable, KeptAt
  <2> QED BY <1>1, <1>3, <2>1, TheorySame
<1>4. ASSUME UNCHANGED theoryVars, NEW l, Decides(l) PROVE TheoryPieces'
  <2>1. Keeps(Len(trail))
    BY <1>1, <1>4, KeepsAll DEF Decides, Reasons
  <2> QED BY <1>1, <1>4, <2>1, TheorySame
<1>5. ASSUME NEW k, cancelUntil(k), Cuts(k) PROVE TheoryPieces'
  BY <1>1, <1>5, TheoryCancel DEF Cuts
<1>6. ASSUME NEW k, NEW l, NEW from, cancelUntil(k), Adds(k, l, from) PROVE TheoryPieces'
  BY <1>1, <1>6, TheoryCancel DEF Adds, Addable
<1>7. CASE addOriginalClause_
  <2>1. UNCHANGED theoryVars
    BY <1>7 DEF addOriginalClause_
  <2>2. CASE trail' # trail
    BY <2>1, <2>2, <1>3, <1>7, LoadStep
  <2> QED BY <2>1, <2>2, <1>2
<1>8. CASE solve_
  <2>1. /\ informed' \subseteq problem.theory /\ th_deductions' = <<>> /\ deductions_next' = 0
        /\ deductions_marks' = <<>> /\ has_explanation' = FALSE /\ given' = <<>>
        /\ UNCHANGED <<polarity, stack, trail>> /\ Loading
    BY <1>8 DEF solve_, Loading, trailVars
  <2>2. stack = <<>> /\ problem.theory \in SUBSET Atoms /\ polarity \subseteq Atoms
    BY <2>1, Asked DEF StepInv, Phases, TypeOK, TSolverTypeOK
  <2>3. OnStack'
    BY <2>1, <2>2, <1>1 DEF OnStack
  <2>4. Mirrored(stack', given', informed')
    BY <2>1, <2>2, MirrorNone
  <2>5. TSolverTypeOK'
    <3>1. <<>> \in Seq(Literal) /\ <<>> \in Seq([lim : Nat, next : Nat]) /\ 0 \in 0..Len(<<>>)
      OBVIOUS
    <3> QED BY <2>1, <2>2, <3>1 DEF TSolverTypeOK
  <2> QED BY <2>1, <2>3, <2>4, <2>5 DEF TheoryPieces, MarksOK
<1>9. CASE propagateUnit
  <2>1. UNCHANGED theoryVars
    BY <1>9 DEF propagateUnit, visit
  <2> QED BY <2>1, <1>3, <1>9, PropagateStep
<1>10. CASE learn
  BY <1>6, <1>10, LearnStep
<1>11. CASE stop \/ restart
  BY <1>5, <1>11, ZeroStep DEF stop, restart
<1>12. CASE clearSearch
  <2>1. backtrack(0) /\ Keeps(0)
    BY <1>1, <1>12 DEF clearSearch, Keeps
  <2>2. 0 \in 0..Len(trail)
    BY <1>1, Places
  <2> QED BY <1>1, <2>1, <2>2, TheoryBack
<1>13. CASE assertLit
  BY <1>13, AssertLitTheory
<1>14. CASE handleUnsat
  <2>1. CASE /\ has_explanation' = TRUE
             /\ UNCHANGED <<trail, informed, th_deductions, deductions_next, deductions_marks, polarity, stack, given>>
    BY <2>1, Pieces DEF TheoryPieces, TSolverTypeOK, OnStack, MarksOK
  <2> QED BY <2>1, <1>5, <1>14, UnsatStep DEF trailVars
<1>15. CASE deduceTheory
  <2>1. /\ UNCHANGED <<informed, th_deductions, deductions_marks, polarity, has_explanation, stack, given>>
        /\ \/ deductions_next' = deductions_next
           \/ deductions_next < Len(th_deductions) /\ deductions_next' = deductions_next + 1
    BY <1>15 DEF deduceTheory
  <2>2. Keeps(Len(trail))
    <3>1. CASE trail' = trail
      BY <3>1, KeepsAll
    <3>2. CASE trail' # trail
      <4>1. PICK l, from : Adds(decisionLevel, l, from)
        BY <3>2, <1>15, DeduceStep
      <4> QED BY <4>1, <1>1, KeepsCut DEF Adds, Addable, KeptAt
    <3> QED BY <3>1, <3>2
  <2>3. TheoryPieces
    BY Pieces
  <2>4. TSolverTypeOK'
    BY <2>1, <2>3 DEF TheoryPieces, TSolverTypeOK
  <2>5. OnStack'
    <3>1. Len(stack) \in Nat /\ Len(stack) <= Len(trail) /\ Len(trail) \in Nat /\ stack \in Seq(Literal)
      BY <2>3, <1>1, Places DEF TheoryPieces, OnStack
    <3>2. DOMAIN stack = 1..Len(stack) /\ \A i \in 1..Len(stack) : i \in 1..Len(trail)
      BY <3>1
    <3> QED BY <2>1, <2>2, <2>3, <3>1, <3>2, <1>1 DEF TheoryPieces, OnStack, Keeps
  <2> QED BY <2>1, <2>3, <2>4, <2>5 DEF TheoryPieces, MarksOK
<1>16. CASE handleNewSplitClauses
  BY <1>16, MoreTold
<1>17. CASE addUnitSplit
  BY <1>5, <1>6, <1>17, UnitSplitStep
<1>18. CASE enqueueSplits
  <2>1. UNCHANGED theoryVars
    BY <1>18 DEF enqueueSplits
  <2>2. CASE trail' # trail
    BY <2>1, <2>2, <1>3, <1>18, EnqueueSplitStep
  <2> QED BY <2>1, <2>2, <1>2
<1>19. CASE assume \/ pickBranchLit
  <2>1. UNCHANGED theoryVars /\ \E l : Decides(l)
    BY <1>19, DecideStep DEF assume, pickBranchLit
  <2> QED BY <2>1, <1>4
<1>20. CASE takeLiteral \/ keepWatch \/ moveWatch \/ falsified \/ propagated
  BY <1>2, <1>20 DEF takeLiteral, keepWatch, moveWatch, visit, falsified, propagated, trailVars
<1>21. CASE resolve \/ simplify \/ removeSatisfied \/ handleSat
  BY <1>2, <1>21 DEF resolve, simplify, removeSatisfied, handleSat, trailVars
<1>22. CASE addSplit \/ skipAssumption \/ analyzeFinal \/ complete
  BY <1>2, <1>22 DEF addSplit, skipAssumption, analyzeFinal, complete, trailVars
<1>23. CASE UNCHANGED vars
  BY <1>2, <1>23 DEF vars, trailVars
<1> QED
  BY <1>7, <1>8, <1>9, <1>10, <1>11, <1>12, <1>13, <1>14, <1>15, <1>16, <1>17, <1>18, <1>19, <1>20, <1>21, <1>22, <1>23
     DEF Next

-----------------------------------------------------------------------------
(* What an action does to the clauses: it stores one, reorders the         *)
(* literals of one that is visited, or removes a learnt one.               *)

Stores(S, learnt) ==
    \E lits \in Seq(Literal) :
        Len(lits) > 1 /\ LitsIn(lits) = S /\ db' = Append(db, [lits |-> lits, learnt |-> learnt])

Reorders(i) ==
    \E lits \in Seq(Literal) :
        /\ Len(lits) = Len(db[i].lits) /\ LitsIn(lits) = LitsOf(db[i])
        /\ db' = [db EXCEPT ![i].lits = lits]

\* A clause listed in some order has its literals and no other.
LEMMA Listed ==
    ASSUME NEW S \in SUBSET Literal
    PROVE  /\ SetToSeq(S) \in Seq(Literal) /\ LitsIn(SetToSeq(S)) = S
           /\ Len(SetToSeq(S)) = Cardinality(S) /\ Cardinality(S) \in Nat
           /\ DOMAIN SetToSeq(S) = 1..Cardinality(S)
<1> DEFINE s == SetToSeq(S)
<1>1. /\ s \in Seq(S) /\ Len(s) = Cardinality(S) /\ Cardinality(S) \in Nat
      /\ \A x \in S : \E i \in DOMAIN s : s[i] = x
  BY Listing
<1> HIDE DEF s
<1>2. s \in Seq(Literal) /\ DOMAIN s = 1..Len(s) /\ \A i \in DOMAIN s : s[i] \in S
  BY <1>1, SeqMonotonic, ElementOfSeq, LenProperties
<1>3. LitsIn(s) = S
  BY <1>1, <1>2 DEF LitsIn
<1> QED BY <1>1, <1>2, <1>3 DEF s

\* Literals in front of a list of others.
LEMMA InFront ==
    ASSUME NEW a \in Seq(Literal), NEW b \in Seq(Literal)
    PROVE  a \o b \in Seq(Literal) /\ LitsIn(a \o b) = LitsIn(a) \cup LitsIn(b) /\ Len(a \o b) = Len(a) + Len(b)
<1> DEFINE c == a \o b
<1>1. /\ c \in Seq(Literal) /\ Len(c) = Len(a) + Len(b) /\ Len(a) \in Nat /\ Len(b) \in Nat
      /\ \A i \in 1..(Len(a) + Len(b)) : c[i] = IF i <= Len(a) THEN a[i] ELSE b[i - Len(a)]
  BY ConcatProperties, LenProperties
<1>2. DOMAIN a = 1..Len(a) /\ DOMAIN b = 1..Len(b)
  OBVIOUS
<1> HIDE DEF c
<1>3. DOMAIN c = 1..(Len(a) + Len(b))
  BY <1>1
<1>4. ASSUME NEW x, x \in LitsIn(c) PROVE x \in LitsIn(a) \cup LitsIn(b)
  <2>1. PICK i \in 1..(Len(a) + Len(b)) : x = c[i]
    BY <1>3, <1>4 DEF LitsIn
  <2>2. CASE i <= Len(a)
    BY <2>1, <2>2, <1>1, <1>2 DEF LitsIn
  <2>3. CASE ~ (i <= Len(a))
    <3>1. i - Len(a) \in 1..Len(b) /\ x = b[i - Len(a)]
      BY <2>1, <2>3, <1>1
    <3> QED BY <3>1, <1>2 DEF LitsIn
  <2> QED BY <2>2, <2>3
<1>5. ASSUME NEW x, x \in LitsIn(a) \cup LitsIn(b) PROVE x \in LitsIn(c)
  <2>1. CASE x \in LitsIn(a)
    <3>1. PICK i \in 1..Len(a) : x = a[i]
      BY <2>1, <1>2 DEF LitsIn
    <3>2. i \in DOMAIN c /\ c[i] = x
      BY <3>1, <1>1, <1>3
    <3> QED BY <3>2 DEF LitsIn
  <2>2. CASE x \in LitsIn(b)
    <3>1. PICK i \in 1..Len(b) : x = b[i]
      BY <2>2, <1>2 DEF LitsIn
    <3>2. i + Len(a) \in 1..(Len(a) + Len(b)) /\ ~ (i + Len(a) <= Len(a)) /\ i + Len(a) - Len(a) = i
      BY <3>1, <1>1
    <3>3. i + Len(a) \in DOMAIN c /\ c[i + Len(a)] = x
      BY <3>1, <3>2, <1>1, <1>3
    <3> QED BY <3>3 DEF LitsIn
  <2> QED BY <1>5, <2>1, <2>2
<1> QED BY <1>1, <1>4, <1>5 DEF c

\* A visit of propagate() reorders a clause, whatever its outcome.
LEMMA VisitStep ==
    ASSUME StepInv, keepWatch \/ moveWatch \/ propagateUnit \/ falsified
    PROVE  \E i \in watchers :
              /\ Reorders(i) /\ pc \in {"watch", "unit"} /\ watchers' \in {watchers \ {i}, {}}
              /\ UNCHANGED <<inputVars, order_heap, decision, trail_lim, splitVars, theoryVars>>
<1>1. ASSUME NEW i \in watchers, visit(i, Visited(i)) PROVE Reorders(i)
  BY <1>1, Visit DEF visit, Reorders
<1>2. CASE keepWatch
  <2>1. PICK i \in watchers : /\ visit(i, Visited(i)) \/ visit(i, db[i].lits)
                              /\ watchers' = watchers \ {i}
    BY <1>2 DEF keepWatch
  <2>2. CASE visit(i, db[i].lits)
    <3>1. db[i].lits \in Seq(Literal) /\ LitsIn(db[i].lits) = LitsOf(db[i])
      BY Clauses DEF StepInv, LitsIn, LitsOf
    <3>2. Reorders(i)
      BY <3>1, <2>2 DEF visit, Reorders
    <3> QED BY <3>2, <2>1, <2>2 DEF visit
  <2> QED BY <2>1, <2>2, <1>1 DEF visit
<1>3. CASE moveWatch
  <2>1. PICK i \in watchers :
            /\ Free(Visited(i)) # {} /\ watchers' = watchers \ {i}
            /\ visit(i, Swapped(Visited(i), 2, Min(Free(Visited(i)))))
    BY <1>3 DEF moveWatch, Swapped
  <2> DEFINE c == Visited(i)
             m == Min(Free(c))
  <2>2. c \in Seq(Literal) /\ Len(c) = Len(db[i].lits) /\ Len(c) > 1 /\ Len(c) \in Nat /\ DOMAIN c = 1..Len(c)
    BY Visit
  <2>3. LitsIn(c) = LitsOf(db[i])
    BY Visit
  <2>4. Free(c) \in SUBSET Nat
    BY <2>2 DEF Free
  <2>5. m \in Free(c)
    BY <2>1, <2>4, Smallest
  <2>6. 2 \in DOMAIN c /\ m \in DOMAIN c
    BY <2>2, <2>5 DEF Free
  <2> HIDE DEF c, m
  <2>7. /\ Swapped(c, 2, m) \in Seq(Literal) /\ Len(Swapped(c, 2, m)) = Len(c)
        /\ LitsIn(Swapped(c, 2, m)) = LitsIn(c)
    BY <2>2, <2>6, Swap
  <2>8. visit(i, Swapped(c, 2, m))
    BY <2>1 DEF c, m
  <2>9. Reorders(i)
    BY <2>2, <2>3, <2>7, <2>8 DEF visit, Reorders
  <2> QED BY <2>1, <2>8, <2>9 DEF visit
<1>4. CASE propagateUnit
  BY <1>1, <1>4 DEF propagateUnit, visit
<1>5. CASE falsified
  BY <1>1, <1>5 DEF falsified, visit
<1> QED BY <1>2, <1>3, <1>4, <1>5

\* addOriginalSMTClause() stores a clause without its false literals.
LEMMA LoadClause ==
    ASSUME StepInv, addOriginalClause_
    PROVE  /\ Round.clauses[loaded + 1] \in SUBSET Literal /\ loaded + 1 \in 1..Len(Round.clauses)
           /\ db' = db \/ \E S \in SUBSET Round.clauses[loaded + 1] :
                             /\ Stores(S, FALSE) /\ trail' = trail
                             /\ \A l \in Round.clauses[loaded + 1] \ S : FalseNow(l)
<1>1. Round.clauses[loaded + 1] \in SUBSET Literal /\ loaded + 1 \in 1..Len(Round.clauses)
  <2>1. Round.clauses \in Seq(SUBSET Literal) /\ loaded < Len(Round.clauses) /\ loaded \in 0..Len(Round.clauses)
    BY Asked DEF StepInv, TypeOK, addOriginalClause_
  <2>2. loaded + 1 \in 1..Len(Round.clauses)
    BY <2>1
  <2> QED BY <2>1, <2>2, ElementOfSeq
<1> DEFINE free == {l \in Round.clauses[loaded + 1] : ~ FalseNow(l)}
<1>2. \/ db' = db
      \/ /\ Cardinality(free) > 1 /\ db' = Append(db, [lits |-> SetToSeq(free), learnt |-> FALSE])
         /\ trail' = trail
  BY DEF addOriginalClause_
<1>3. free \in SUBSET Round.clauses[loaded + 1] /\ \A l \in Round.clauses[loaded + 1] \ free : FalseNow(l)
  OBVIOUS
<1> HIDE DEF free
<1>4. SetToSeq(free) \in Seq(Literal) /\ LitsIn(SetToSeq(free)) = free /\ Len(SetToSeq(free)) = Cardinality(free)
  BY <1>1, <1>3, Listed
<1> QED BY <1>1, <1>2, <1>3, <1>4 DEF Stores

\* A learnt clause consists of the literal it asserts and of the others.
LEMMA LearnClause ==
    ASSUME StepInv, NEW asserting \in Open, db' = Stored(asserting, Rest)
    PROVE  db' = db \/ (Stores({asserting} \cup Rest, TRUE) /\ Rest # {})
<1> DEFINE second == CHOOSE l \in Rest : LevelOf(l) = backtrackLevel(Rest)
           others == Rest \ {second}
<1>1. CASE Rest = {}
  BY <1>1 DEF Stored
<1>2. CASE Rest # {}
  <2>1. Rest \in SUBSET Literal /\ backtrackLevel(Rest) > 0 /\ asserting \in Literal
    BY <1>2, RestPlaces, SeenPlaces DEF Open
  <2>2. \E l \in Rest : LevelOf(l) = backtrackLevel(Rest)
    BY <2>1, RestPlaces
  <2>3. second \in Rest
    BY <2>2
  <2>4. db' = Append(db, [lits |-> <<asserting, second>> \o SetToSeq(others), learnt |-> TRUE])
    BY <1>2 DEF Stored
  <2>5. others \in SUBSET Literal /\ Rest = {second} \cup others /\ second \in Literal
    BY <2>1, <2>3
  <2> HIDE DEF second, others
  <2> DEFINE a == <<asserting, second>>
             b == SetToSeq(others)
  <2>6. a \in Seq(Literal) /\ Len(a) = 2 /\ LitsIn(a) = {asserting, second}
    BY <2>1, <2>5 DEF LitsIn
  <2>7. b \in Seq(Literal) /\ Len(b) \in Nat /\ LitsIn(b) = others
    BY <2>5, Listed
  <2>8. db' = Append(db, [lits |-> a \o b, learnt |-> TRUE])
    BY <2>4
  <2> HIDE DEF a, b
  <2>9. a \o b \in Seq(Literal) /\ LitsIn(a \o b) = LitsIn(a) \cup LitsIn(b) /\ Len(a \o b) = Len(a) + Len(b)
    BY <2>6, <2>7, InFront
  <2>10. LitsIn(a \o b) = {asserting} \cup Rest /\ Len(a \o b) > 1
    BY <2>5, <2>6, <2>7, <2>9
  <2> QED BY <1>2, <2>8, <2>9, <2>10 DEF Stores
<1> QED BY <1>1, <1>2

\* The split clauses to come are split clauses of the theory; their unit ones are stored unless at level 0.
LEMMA SplitClause ==
    ASSUME StepInv, new_splits # <<>>
    PROVE  /\ Head(new_splits) \in SUBSET Literal /\ Head(new_splits) \in problem.splits
           /\ Cardinality(Head(new_splits)) > 1
<1>1. Head(new_splits) = new_splits[1] /\ 1 \in DOMAIN new_splits /\ Head(new_splits) \in SUBSET Literal
  BY SplitTyped DEF StepInv
<1>2. Head(new_splits) \in problem.splits
  BY <1>1 DEF StepInv, Declared
<1> QED BY <1>1, <1>2, Asked DEF StepInv

\* A clause of the theory solver with one literal not false is stored with all of its literals.
LEMMA UnitSplitClause ==
    ASSUME StepInv, new_splits # <<>>, NEW implied \in Head(new_splits),
           LET rest == Head(new_splits) \ {implied}
           IN  /\ \A l \in rest : FalseNow(l)
               /\ backtrackLevel(rest) # 0
               /\ db' = Append(db, [lits |-> <<implied>> \o SetToSeq(rest), learnt |-> FALSE])
    PROVE  Stores(Head(new_splits), FALSE)
<1> DEFINE rest == Head(new_splits) \ {implied}
           a == <<implied>>
           b == SetToSeq(rest)
<1>1. TypedTrail(trail, trail_lim) /\ Head(new_splits) \in SUBSET Literal
  BY Typed, SplitClause
<1>2. rest \in SUBSET Literal /\ implied \in Literal /\ Head(new_splits) = {implied} \cup rest
  BY <1>1
<1>3. \A l \in rest : l.tr \in Assigned
  BY <1>1, <1>2, Places
<1>4. rest # {}
  BY <1>1, <1>2, <1>3, Lowest
<1>5. db' = Append(db, [lits |-> a \o b, learnt |-> FALSE])
  OBVIOUS
<1>6. a \in Seq(Literal) /\ Len(a) = 1 /\ LitsIn(a) = {implied}
  BY <1>2 DEF LitsIn
<1> HIDE DEF rest
<1>7. b \in Seq(Literal) /\ LitsIn(b) = rest /\ Len(b) \in Nat /\ Len(b) > 0
  <2>1. b \in Seq(Literal) /\ LitsIn(b) = rest /\ Len(b) = Cardinality(rest) /\ Cardinality(rest) \in Nat
    BY <1>2, Listed
  <2>2. IsFiniteSet(rest)
    BY <1>2, FiniteClauses
  <2>3. Cardinality(rest) # 0
    BY <2>2, <1>4, FS_EmptySet
  <2> QED BY <2>1, <2>3
<1> HIDE DEF a, b
<1>8. a \o b \in Seq(Literal) /\ LitsIn(a \o b) = LitsIn(a) \cup LitsIn(b) /\ Len(a \o b) = Len(a) + Len(b)
  BY <1>6, <1>7, InFront
<1>9. Len(a \o b) > 1 /\ LitsIn(a \o b) = Head(new_splits)
  BY <1>2, <1>6, <1>7, <1>8
<1> QED BY <1>5, <1>8, <1>9 DEF Stores

\* So is one with several, however its watches are chosen.
LEMMA OtherSplitClause ==
    ASSUME StepInv, addSplit
    PROVE  Stores(Head(new_splits), FALSE)
<1> DEFINE clause == Head(new_splits)
           lits == SetToSeq(clause)
           G == {i \in DOMAIN lits : ~ FalseNow(lits[i])}
           good == Max(G)
           attached == IF FalseNow(lits[1]) THEN [lits EXCEPT ![1] = lits[good], ![good] = lits[1]] ELSE lits
<1>1. /\ new_splits # <<>>
      /\ \/ \E l \in clause : TrueNow(l)
         \/ \E l, m \in clause : l # m /\ Undefined(l) /\ Undefined(m)
      /\ db' = Append(db, [lits |-> attached, learnt |-> FALSE])
  BY DEF addSplit
<1>2. clause \in SUBSET Literal /\ Cardinality(clause) > 1
  BY <1>1, SplitClause
<1>3. PICK x \in clause : ~ FalseNow(x)
  <2>1. \A l \in clause : TrueNow(l) \/ Undefined(l) => ~ FalseNow(l)
    BY <1>2, Typed, Places DEF Undefined
  <2> QED BY <2>1, <1>1
<1>4. /\ lits \in Seq(Literal) /\ LitsIn(lits) = clause /\ Len(lits) = Cardinality(clause)
      /\ Cardinality(clause) \in Nat /\ DOMAIN lits = 1..Cardinality(clause)
  BY <1>2, Listed
<1> HIDE DEF clause, lits
<1>5. G \in SUBSET Nat /\ \A i \in G : i <= Len(lits)
  BY <1>4
<1>6. G # {}
  <2>1. PICK i \in DOMAIN lits : lits[i] = x
    BY <1>3, <1>4 DEF LitsIn
  <2> QED BY <2>1, <1>3
<1> HIDE DEF G
<1>7. good \in G
  BY <1>4, <1>5, <1>6, Largest
<1>8. good \in DOMAIN lits /\ 1 \in DOMAIN lits
  BY <1>2, <1>4, <1>7 DEF G
<1> HIDE DEF good
<1>9. attached = lits \/ attached = Swapped(lits, 1, good)
  BY DEF Swapped
<1>10. /\ Swapped(lits, 1, good) \in Seq(Literal) /\ Len(Swapped(lits, 1, good)) = Len(lits)
       /\ LitsIn(Swapped(lits, 1, good)) = LitsIn(lits)
  BY <1>4, <1>8, Swap
<1> HIDE DEF attached
<1>11. attached \in Seq(Literal) /\ Len(attached) > 1 /\ LitsIn(attached) = clause
  BY <1>2, <1>4, <1>9, <1>10
<1> QED BY <1>1, <1>11 DEF Stores, clause

\* The clauses have at least two literals, which can be watched.
Watchable == db \in Seq(Clause) /\ \A i \in DOMAIN db : Len(db[i].lits) > 1

\* Storing a clause adds it and changes no other.
LEMMA StoresEffect ==
    ASSUME StepInv, NEW S, NEW b \in BOOLEAN, Stores(S, b)
    PROVE  /\ Watchable' /\ DOMAIN db' = 1..(Len(db) + 1)
           /\ \A j \in DOMAIN db : j \in DOMAIN db' /\ db'[j] = db[j]
           /\ LitsOf(db'[Len(db) + 1]) = S /\ db'[Len(db) + 1].learnt = b
<1>1. db \in Seq(Clause) /\ Len(db) \in Nat /\ DOMAIN db = 1..Len(db) /\ \A j \in DOMAIN db : Len(db[j].lits) > 1
  BY Clauses DEF StepInv, TypeOK, Watched
<1>2. PICK lits \in Seq(Literal) :
          Len(lits) > 1 /\ LitsIn(lits) = S /\ db' = Append(db, [lits |-> lits, learnt |-> b])
  BY DEF Stores
<1> DEFINE c == [lits |-> lits, learnt |-> b]
<1>3. c \in Clause /\ c.lits = lits /\ c.learnt = b
  BY DEF Clause
<1>4. LitsOf(c) = S
  BY <1>2, <1>3 DEF LitsOf, LitsIn
<1>a. db' = Append(db, c)
  BY <1>2
<1> HIDE DEF c
<1>5. /\ db' \in Seq(Clause) /\ Len(db') = Len(db) + 1 /\ DOMAIN db' = 1..(Len(db) + 1)
      /\ \A j \in 1..Len(db) : db'[j] = db[j]
      /\ db'[Len(db) + 1] = c
  BY <1>1, <1>3, <1>a, AppendProperties, LenProperties
<1>6. \A j \in DOMAIN db' : Len(db'[j].lits) > 1
  <2> SUFFICES ASSUME NEW j \in 1..(Len(db) + 1) PROVE Len(db'[j].lits) > 1
    BY <1>5
  <2>1. CASE j \in 1..Len(db)
    BY <2>1, <1>1, <1>5
  <2>2. CASE j = Len(db) + 1
    BY <2>2, <1>2, <1>3, <1>5
  <2> QED BY <2>1, <2>2, <1>1
<1> QED BY <1>1, <1>3, <1>4, <1>5, <1>6 DEF Watchable

\* Choosing a new watch changes the order of one clause and the literals of none.
LEMMA ReordersEffect ==
    ASSUME StepInv, NEW i \in watchers, Reorders(i)
    PROVE  /\ Watchable' /\ DOMAIN db' = DOMAIN db
           /\ \A j \in DOMAIN db : LitsOf(db'[j]) = LitsOf(db[j]) /\ db'[j].learnt = db[j].learnt
           /\ \A j \in DOMAIN db : j # i => db'[j] = db[j]
<1>1. db \in Seq(Clause) /\ Len(db) \in Nat /\ DOMAIN db = 1..Len(db) /\ \A j \in DOMAIN db : Len(db[j].lits) > 1
  BY Clauses DEF StepInv, TypeOK, Watched
<1>2. i \in DOMAIN db /\ \A j \in DOMAIN db : db[j] \in Clause
  BY Clauses DEF StepInv
<1>3. PICK lits \in Seq(Literal) : /\ Len(lits) = Len(db[i].lits) /\ LitsIn(lits) = LitsOf(db[i])
                                   /\ db' = [db EXCEPT ![i].lits = lits]
  BY DEF Reorders
<1>4. db'[i] = [db[i] EXCEPT !.lits = lits] /\ DOMAIN db' = DOMAIN db /\ \A j \in DOMAIN db : j # i => db'[j] = db[j]
  BY <1>1, <1>2, <1>3
<1>5. db'[i] \in Clause /\ db'[i].lits = lits /\ db'[i].learnt = db[i].learnt
  BY <1>2, <1>4 DEF Clause
<1>6. LitsOf(db'[i]) = LitsOf(db[i])
  BY <1>3, <1>5 DEF LitsOf, LitsIn
<1>7. db' \in [1..Len(db) -> Clause]
  <2>1. db' = [j \in 1..Len(db) |-> db'[j]]
    BY <1>1, <1>3
  <2>2. \A j \in 1..Len(db) : db'[j] \in Clause
    BY <1>1, <1>2, <1>4, <1>5
  <2> QED BY <2>1, <2>2
<1>8. db' \in Seq(Clause)
  BY <1>1, <1>7, SeqDef
<1>9. \A j \in DOMAIN db : /\ Len(db'[j].lits) > 1 /\ LitsOf(db'[j]) = LitsOf(db[j])
                           /\ db'[j].learnt = db[j].learnt
  BY <1>1, <1>2, <1>3, <1>4, <1>5, <1>6
<1> QED BY <1>4, <1>8, <1>9 DEF Watchable

\* Removing a clause loses that one only.
LEMMA RemovesEffect ==
    ASSUME StepInv, NEW i \in DOMAIN db, db' = RemoveAt(db, i)
    PROVE  /\ Watchable'
           /\ \A j \in DOMAIN db' : \E k \in DOMAIN db : db'[j] = db[k]
           /\ \A k \in DOMAIN db : k # i => \E j \in DOMAIN db' : db'[j] = db[k]
<1>1. db \in Seq(Clause) /\ Len(db) \in Nat /\ DOMAIN db = 1..Len(db) /\ \A j \in DOMAIN db : Len(db[j].lits) > 1
  BY Clauses DEF StepInv, TypeOK, Watched
<1> DEFINE n == Len(db)
           a == SubSeq(db, 1, i - 1)
           b == SubSeq(db, i + 1, n)
<1>2. i \in 1..n /\ i \in Nat /\ n \in Nat
  BY <1>1
<1>b. \A j \in 1..n : db[j] \in Clause
  BY <1>1, ElementOfSeq
<1>3. /\ a \in Seq(Clause) /\ Len(a) = i - 1 /\ \A j \in 1..(i - 1) : a[j] = db[j]
  <2>1. \A j \in 1..(i - 1) : db[j] \in Clause
    BY <1>2, <1>b
  <2>2. a \in Seq(Clause) /\ Len(a) = IF 1 <= i - 1 THEN i - 1 - 1 + 1 ELSE 0
    BY <2>1, <1>2, SubSeqProperties
  <2>3. \A j \in 1..(i - 1 - 1 + 1) : a[j] = db[1 + j - 1]
    BY <2>1, <1>2, SubSeqProperties
  <2> HIDE DEF a
  <2>4. Len(a) = i - 1
    BY <2>2, <1>2
  <2>5. ASSUME NEW j \in 1..(i - 1) PROVE a[j] = db[j]
    <3>1. j \in 1..(i - 1 - 1 + 1) /\ 1 + j - 1 = j
      BY <1>2
    <3> QED BY <3>1, <2>3
  <2> QED BY <2>2, <2>4, <2>5
<1>4. /\ b \in Seq(Clause) /\ Len(b) = n - i /\ \A j \in 1..(n - i) : b[j] = db[i + j]
  <2>1. \A j \in (i + 1)..n : db[j] \in Clause
    BY <1>2, <1>b
  <2>2. b \in Seq(Clause) /\ Len(b) = IF i + 1 <= n THEN n - (i + 1) + 1 ELSE 0
    BY <2>1, <1>2, SubSeqProperties
  <2>3. \A j \in 1..(n - (i + 1) + 1) : b[j] = db[i + 1 + j - 1]
    BY <2>1, <1>2, SubSeqProperties
  <2> HIDE DEF b
  <2>4. Len(b) = n - i
    BY <2>2, <1>2
  <2>5. ASSUME NEW j \in 1..(n - i) PROVE b[j] = db[i + j]
    <3>1. j \in 1..(n - (i + 1) + 1) /\ i + 1 + j - 1 = i + j
      BY <1>2
    <3> QED BY <3>1, <2>3
  <2> QED BY <2>2, <2>4, <2>5
<1>5. db' = a \o b
  BY DEF RemoveAt
<1> HIDE DEF a, b
<1>6. /\ db' \in Seq(Clause) /\ Len(db') = n - 1 /\ DOMAIN db' = 1..(n - 1)
      /\ \A j \in 1..(n - 1) : db'[j] = IF j <= i - 1 THEN a[j] ELSE b[j - (i - 1)]
  <2>a. a \in Seq(Clause) /\ b \in Seq(Clause)
    BY <1>3, <1>4
  <2>b. a \o b \in Seq(Clause) /\ Len(a \o b) = Len(a) + Len(b)
    BY <2>a, ConcatProperties
  <2>1. db' \in Seq(Clause) /\ Len(db') = Len(a) + Len(b)
    BY <2>b, <1>5
  <2>2. \A j \in 1..(Len(a) + Len(b)) : db'[j] = IF j <= Len(a) THEN a[j] ELSE b[j - Len(a)]
    <3>1. \A j \in 1..(Len(a) + Len(b)) : (a \o b)[j] = IF j <= Len(a) THEN a[j] ELSE b[j - Len(a)]
      BY <2>a, ConcatProperties
    <3> QED BY <3>1, <1>5
  <2>3. Len(a) + Len(b) = n - 1 /\ Len(a) = i - 1
    BY <1>2, <1>3, <1>4
  <2>4. DOMAIN db' = 1..(n - 1)
    BY <2>1, <2>3, LenProperties
  <2>5. \A j \in 1..(n - 1) : db'[j] = IF j <= i - 1 THEN a[j] ELSE b[j - (i - 1)]
    BY <2>2, <2>3
  <2> QED BY <2>1, <2>3, <2>4, <2>5
<1>7. ASSUME NEW j \in DOMAIN db' PROVE \E k \in DOMAIN db : db'[j] = db[k]
  <2>1. j \in 1..(n - 1)
    BY <1>6
  <2>2. CASE j <= i - 1
    BY <2>1, <2>2, <1>1, <1>2, <1>3, <1>6
  <2>3. CASE ~ (j <= i - 1)
    <3>1. j - (i - 1) \in 1..(n - i) /\ i + (j - (i - 1)) = j + 1 /\ j + 1 \in 1..n
      BY <2>1, <2>3, <1>2
    <3>2. db'[j] = db[j + 1]
      BY <2>1, <2>3, <3>1, <1>4, <1>6
    <3> QED BY <3>1, <3>2, <1>1
  <2> QED BY <2>2, <2>3
<1>8. ASSUME NEW k \in DOMAIN db, k # i PROVE \E j \in DOMAIN db' : db'[j] = db[k]
  <2>1. CASE k < i
    <3>1. k \in 1..(n - 1) /\ k <= i - 1 /\ k \in 1..(i - 1)
      BY <2>1, <1>1, <1>2
    <3>2. db'[k] = db[k]
      BY <3>1, <1>3, <1>6
    <3> QED BY <3>1, <3>2, <1>6
  <2>2. CASE k > i
    <3>1. k - 1 \in 1..(n - 1) /\ ~ (k - 1 <= i - 1) /\ k - 1 - (i - 1) \in 1..(n - i) /\ i + (k - 1 - (i - 1)) = k
      BY <2>2, <1>1, <1>2
    <3>2. db'[k - 1] = db[k]
      BY <3>1, <1>4, <1>6
    <3> QED BY <3>1, <3>2, <1>6
  <2> QED BY <2>1, <2>2, <1>1, <1>2, <1>8
<1>9. \A j \in DOMAIN db' : Len(db'[j].lits) > 1
  BY <1>1, <1>7
<1> QED BY <1>6, <1>7, <1>8, <1>9 DEF Watchable

\* A learnt clause that holds is removed.
LEMMA SatisfiedOne ==
    ASSUME StepInv, removeSatisfied
    PROVE  db' = db \/ \E i \in DOMAIN db : db[i].learnt /\ db' = RemoveAt(db, i)
<1>1. Satisfied \in SUBSET Nat
  BY Clauses DEF StepInv, Satisfied
<1>2. CASE Satisfied # {} /\ db' = RemoveAt(db, Min(Satisfied))
  <2>1. Min(Satisfied) \in Satisfied
    BY <1>1, <1>2, Smallest
  <2> QED BY <2>1, <1>2 DEF Satisfied
<1> QED BY <1>2 DEF removeSatisfied

\* The clauses after any step; a clause that is stored was added, is a split, or was learnt.
DbMoves ==
    \/ db' = db
    \/ \E i \in watchers : Reorders(i)
    \/ \E i \in DOMAIN db : db[i].learnt /\ db' = RemoveAt(db, i)
    \/ addOriginalClause_ /\ \E S \in SUBSET Literal : Stores(S, FALSE)
    \/ new_splits # <<>> /\ Head(new_splits) \in SUBSET Literal /\ Stores(Head(new_splits), FALSE)
    \/ \E S \in SUBSET seen : Stores(S, TRUE)

\* No step changes the clauses in another way than keeping them, storing, reordering or removing one.
LEMMA DbStep == ASSUME StepInv, [Next]_vars PROVE DbMoves
<1>1. CASE addOriginalClause_
  <2>1. CASE db' = db
    BY <2>1 DEF DbMoves
  <2>2. CASE db' # db
    <3>1. PICK S \in SUBSET Round.clauses[loaded + 1] : Stores(S, FALSE)
      BY <2>2, <1>1, LoadClause
    <3>2. S \in SUBSET Literal
      BY <1>1, LoadClause
    <3> QED BY <3>1, <3>2, <1>1 DEF DbMoves
  <2> QED BY <2>1, <2>2
<1>2. ASSUME new_splits # <<>>, Stores(Head(new_splits), FALSE) PROVE DbMoves
  BY <1>2, SplitClause DEF DbMoves
<1>3. CASE keepWatch \/ moveWatch \/ propagateUnit \/ falsified
  BY <1>3, VisitStep DEF DbMoves
<1>4. CASE learn
  <2>1. PICK asserting \in Open : db' = Stored(asserting, Rest)
    BY <1>4, LearnStep
  <2>2. {asserting} \cup Rest \in SUBSET seen
    BY RestPlaces DEF Open
  <2>3. CASE db' = db
    BY <2>3 DEF DbMoves
  <2>4. CASE Stores({asserting} \cup Rest, TRUE)
    BY <2>2, <2>4 DEF DbMoves
  <2> QED BY <2>1, <2>3, <2>4, LearnClause
<1>5. CASE addUnitSplit
  <2>1. CASE db' = db
    BY <2>1 DEF DbMoves
  <2>2. CASE db' # db
    <3>1. new_splits # <<>>
      BY <1>5 DEF addUnitSplit
    <3>2. Stores(Head(new_splits), FALSE)
      BY <2>2, <3>1, <1>5, UnitSplitStep, UnitSplitClause
    <3> QED BY <3>1, <3>2, <1>2
  <2> QED BY <2>1, <2>2
<1>6. CASE addSplit
  <2>1. new_splits # <<>>
    BY <1>6 DEF addSplit
  <2> QED BY <2>1, <1>2, <1>6, OtherSplitClause
<1>7. CASE removeSatisfied
  BY <1>7, SatisfiedOne DEF DbMoves
<1>8. CASE solve_ \/ takeLiteral \/ propagated \/ resolve \/ stop \/ restart \/ simplify
  BY <1>8 DEF solve_, takeLiteral, propagated, resolve, stop, restart, simplify, clauseVars, DbMoves
<1>9. CASE assertLit \/ handleUnsat \/ handleSat \/ deduceTheory \/ handleNewSplitClauses \/ enqueueSplits
  BY <1>9
     DEF assertLit, handleUnsat, handleSat, deduceTheory, handleNewSplitClauses, enqueueSplits, clauseVars, DbMoves
<1>10. CASE skipAssumption \/ assume \/ analyzeFinal \/ pickBranchLit \/ complete \/ clearSearch
  BY <1>10 DEF skipAssumption, assume, analyzeFinal, pickBranchLit, complete, clearSearch, clauseVars, DbMoves
<1>11. CASE UNCHANGED vars
  BY <1>11 DEF vars, clauseVars, DbMoves
<1> QED BY <1>1, <1>3, <1>4, <1>5, <1>6, <1>7, <1>8, <1>9, <1>10, <1>11 DEF Next

\* In short: nothing happens, or a clause is stored, reordered, or removed.
LEMMA DbKinds ==
    ASSUME DbMoves, seen \in SUBSET Literal
    PROVE  \/ db' = db
           \/ \E S \in SUBSET Literal, b \in BOOLEAN : Stores(S, b)
           \/ \E i \in watchers : Reorders(i)
           \/ \E i \in DOMAIN db : db[i].learnt /\ db' = RemoveAt(db, i)
<1>1. ASSUME NEW S \in SUBSET seen, Stores(S, TRUE)
      PROVE  \E T \in SUBSET Literal, b \in BOOLEAN : Stores(T, b)
  BY <1>1
<1> QED BY <1>1 DEF DbMoves

\* Every clause keeps two literals to watch.
LEMMA DbTyped == ASSUME StepInv, [Next]_vars PROVE Watchable'
<1>1. CASE db' = db
  BY <1>1 DEF StepInv, TypeOK, Watched, Watchable
<1>2. seen \in SUBSET Literal /\ DbMoves
  BY DbStep DEF StepInv, TypeOK
<1> QED BY <1>1, <1>2, DbKinds, StoresEffect, ReordersEffect, RemovesEffect

-----------------------------------------------------------------------------
(* What stays of the trail, and the small parts of the state.              *)

\* The actions that cut the trail back.
Cancels(k) ==
    /\ k \in 0..decisionLevel
    /\ Cuts(k) \/ \E l \in Literal, from \in Reasons : Adds(k, l, from)
    /\ order_heap' = Reinserted(k)
    /\ qhead' = IF decisionLevel > k THEN KeptAt(k) ELSE qhead

\* Every step that goes back does so with cancelUntil().
LEMMA CancelStep ==
    ASSUME StepInv, learn \/ stop \/ restart \/ handleUnsat \/ addUnitSplit \/ clearSearch
    PROVE  UNCHANGED <<order_heap, trailVars>> \/ \E k \in 0..decisionLevel : Cancels(k)
<1>1. ASSUME NEW k, cancelLevels(k), Cuts(k) PROVE \E n \in 0..decisionLevel : Cancels(n)
  BY <1>1 DEF Cancels, Cuts, cancelLevels
<1>2. ASSUME NEW k, NEW l, NEW from, cancelLevels(k), Adds(k, l, from) PROVE \E n \in 0..decisionLevel : Cancels(n)
  BY <1>2 DEF Cancels, Adds, Addable, cancelLevels
<1>3. CASE learn
  BY <1>2, <1>3, LearnStep DEF cancelUntil
<1>4. CASE stop \/ restart
  BY <1>1, <1>4, ZeroStep DEF stop, restart, cancelUntil
<1>5. CASE clearSearch
  BY <1>1, <1>5, ZeroStep DEF clearSearch
<1>6. CASE handleUnsat
  <2>1. UNCHANGED <<order_heap, trailVars>> \/ \E k : Cuts(k) /\ cancelLevels(k)
    BY <1>6, UnsatStep DEF cancelUntil
  <2> QED BY <2>1, <1>1
<1>7. CASE addUnitSplit
  <2>1. (\E k : Cuts(k) /\ cancelLevels(k)) \/ \E k, l, from : Adds(k, l, from) /\ cancelLevels(k)
    BY <1>7, UnitSplitStep DEF cancelUntil
  <2> QED BY <2>1, <1>1, <1>2
<1> QED BY <1>3, <1>4, <1>5, <1>6, <1>7

\* All others only add to the trail.
LEMMA TrailGrows ==
    ASSUME StepInv, [Next]_vars
    PROVE  Keeps(Len(trail)) \/ learn \/ stop \/ restart \/ handleUnsat \/ addUnitSplit \/ clearSearch
<1>1. TypedTrail(trail, trail_lim) /\ Len(trail) \in Nat /\ decisionLevel \in Nat
  BY Typed, Places
<1>2. CASE trail' = trail
  BY <1>2, KeepsAll
<1>3. ASSUME NEW l, NEW from, Adds(decisionLevel, l, from) PROVE Keeps(Len(trail))
  <2>1. Keeps(KeptAt(decisionLevel)) /\ KeptAt(decisionLevel) = Len(trail)
    BY <1>1, <1>3, KeepsCut DEF Adds, Addable, KeptAt
  <2> QED BY <2>1
<1>4. ASSUME NEW l, Decides(l) PROVE Keeps(Len(trail))
  BY <1>1, <1>4, KeepsAll DEF Decides, Reasons
<1>5. CASE addOriginalClause_
  BY <1>2, <1>3, <1>5, LoadStep
<1>6. CASE propagateUnit
  BY <1>3, <1>6, PropagateStep
<1>7. CASE deduceTheory
  BY <1>2, <1>3, <1>7, DeduceStep
<1>8. CASE enqueueSplits
  BY <1>2, <1>3, <1>8, EnqueueSplitStep
<1>9. CASE assume \/ pickBranchLit
  BY <1>4, <1>9, DecideStep
<1>10. CASE solve_ \/ takeLiteral \/ keepWatch \/ moveWatch \/ falsified \/ propagated \/ resolve \/ simplify
  BY <1>2, <1>10
     DEF solve_, takeLiteral, keepWatch, moveWatch, visit, falsified, propagated, resolve, simplify, trailVars
<1>11. CASE removeSatisfied \/ assertLit \/ handleSat \/ handleNewSplitClauses \/ addSplit
  BY <1>2, <1>11 DEF removeSatisfied, assertLit, handleSat, handleNewSplitClauses, addSplit, trailVars
<1>12. CASE skipAssumption \/ analyzeFinal \/ complete
  BY <1>2, <1>12 DEF skipAssumption, analyzeFinal, complete, trailVars
<1>13. CASE UNCHANGED vars
  BY <1>2, <1>13 DEF vars, trailVars
<1> QED BY <1>5, <1>6, <1>7, <1>8, <1>9, <1>10, <1>11, <1>12, <1>13 DEF Next

\* A literal stays false, and at its level, as long as its entry stays on the trail.
LEMMA StillFalse ==
    ASSUME StepInv, [Next]_vars, NEW n \in 0..Len(trail), Keeps(n),
           NEW l \in Literal, FalseNow(l), EntryOf(l.tr) <= n
    PROVE  FalseNow(l)' /\ LevelOf(l)' = LevelOf(l)
<1> DEFINE i == EntryOf(l.tr)
<1>1. TypedTrail(trail, trail_lim)
  BY Typed
<1>2. i \in DOMAIN trail /\ trail[i].lit = Negated(l) /\ i \in 1..n
  <2>1. l.tr \in Assigned /\ trail[i].lit = Negated(l)
    BY <1>1, Places
  <2>2. i \in DOMAIN trail /\ DOMAIN trail = 1..Len(trail) /\ Len(trail) \in Nat
    BY <1>1, <2>1, Places
  <2> QED BY <2>1, <2>2
<1>3. trail' \in Seq(Entry) /\ Levelled(trail', trail_lim')
  BY TrailTyped DEF TypedTrail
<1> HIDE DEF i
<1>4. trail'[i] = trail[i] /\ i \in DOMAIN trail'
  <2>1. Len(trail') \in Nat /\ DOMAIN trail' = 1..Len(trail') /\ n <= Len(trail') /\ n \in Nat
    BY <1>3 DEF Keeps
  <2> QED BY <2>1, <1>2 DEF Keeps
<1>5. FalseNow(l)'
  BY <1>2, <1>4 DEF FalseNow, OnTrail
<1>6. trail'[i].lit.tr = l.tr
  BY <1>2, <1>4, Negation
<1>7. EntryOf(l.tr)' = i
  <2>1. \A j \in DOMAIN trail' : trail'[j].lit.tr = l.tr => j = i
    BY <1>3, <1>4, <1>6 DEF Levelled
  <2> QED BY <2>1, <1>4, <1>6 DEF EntryOf
<1> QED BY <1>4, <1>5, <1>7 DEF LevelOf, i

\* A literal that is false at a level that is kept stays false, at that level.
LEMMA FalseBelow ==
    ASSUME StepInv, [Next]_vars, NEW k \in 0..decisionLevel, Cancels(k),
           NEW l \in Literal, FalseNow(l), LevelOf(l) <= k
    PROVE  FalseNow(l)' /\ LevelOf(l)' = LevelOf(l)
<1>1. TypedTrail(trail, trail_lim)
  BY Typed
<1>2. Keeps(KeptAt(k)) /\ KeptAt(k) \in 0..Len(trail)
  BY KeepsCut DEF Cancels
<1>3. EntryOf(l.tr) \in DOMAIN trail
  BY <1>1, Places
<1>4. EntryOf(l.tr) <= KeptAt(k)
  BY <1>1, <1>3, KeptPart DEF LevelOf
<1> QED BY <1>2, <1>4, StillFalse

\* A literal that is false stays so, at its level, while the trail only grows.
LEMMA FalseStill ==
    ASSUME StepInv, [Next]_vars, Keeps(Len(trail)), NEW l \in Literal, FalseNow(l)
    PROVE  FalseNow(l)' /\ LevelOf(l)' = LevelOf(l)
<1>1. TypedTrail(trail, trail_lim) /\ Len(trail) \in 0..Len(trail)
  BY Typed, Places
<1>2. EntryOf(l.tr) <= Len(trail)
  <2>1. EntryOf(l.tr) \in DOMAIN trail /\ DOMAIN trail = 1..Len(trail) /\ Len(trail) \in Nat
    BY <1>1, Places
  <2> QED BY <2>1
<1> QED BY <1>1, <1>2, StillFalse

RoundOK == problem \in Problems /\ round \in DOMAIN problem.rounds /\ loaded \in 0..Len(Round.clauses)

\* The round being solved, its problem and its assumptions stay legal.
LEMMA RoundStep == ASSUME StepInv, [Next]_vars PROVE RoundOK'
<1>1. RoundOK /\ problem.rounds \in Seq([clauses : Seq(SUBSET Literal), assumptions : Seq(Literal)])
  BY CoreSMTSolverAssumption DEF StepInv, TypeOK, RoundOK, Problem
<1>2. CASE UNCHANGED inputVars
  BY <1>1, <1>2 DEF inputVars, RoundOK, Round
<1>3. CASE addOriginalClause_
  <2>1. UNCHANGED <<problem, round>> /\ loaded < Len(Round.clauses) /\ loaded' = loaded + 1
    BY <1>3 DEF addOriginalClause_
  <2>2. Len(Round.clauses) \in Nat
    BY Asked DEF StepInv
  <2> QED BY <1>1, <2>1, <2>2 DEF RoundOK, Round
<1>4. CASE clearSearch
  <2>1. problem' = problem /\ round < Len(problem.rounds) /\ round' = round + 1 /\ loaded' = 0
    BY <1>4 DEF clearSearch
  <2> DEFINE R == [clauses : Seq(SUBSET Literal), assumptions : Seq(Literal)]
  <2>3. problem.rounds \in Seq(R) /\ \A r \in R : Len(r.clauses) \in Nat
    BY <1>1
  <2> HIDE DEF R
  <2>2. round' \in DOMAIN problem.rounds /\ round' \in 1..Len(problem.rounds)
    <3>1. DOMAIN problem.rounds = 1..Len(problem.rounds) /\ Len(problem.rounds) \in Nat
      BY <2>3
    <3> QED BY <3>1, <1>1, <2>1 DEF RoundOK
  <2>4. problem.rounds[round'] \in R
    BY <2>2, <2>3, ElementOfSeq
  <2>5. Round' = problem.rounds[round']
    BY <2>1 DEF Round
  <2>6. Len((Round').clauses) \in Nat
    BY <2>3, <2>4, <2>5
  <2> QED BY <1>1, <2>1, <2>2, <2>6 DEF RoundOK
<1>5. CASE keepWatch \/ moveWatch \/ propagateUnit \/ falsified
  BY <1>2, <1>5, VisitStep
<1>6. CASE solve_ \/ takeLiteral \/ propagated \/ resolve \/ learn \/ stop \/ restart \/ simplify
  BY <1>2, <1>6 DEF solve_, takeLiteral, propagated, resolve, learn, stop, restart, simplify
<1>7. CASE removeSatisfied \/ assertLit \/ handleUnsat \/ handleSat \/ deduceTheory \/ handleNewSplitClauses
  BY <1>2, <1>7 DEF removeSatisfied, assertLit, handleUnsat, handleSat, deduceTheory, handleNewSplitClauses
<1>8. CASE addUnitSplit \/ addSplit \/ enqueueSplits \/ skipAssumption \/ assume \/ analyzeFinal
  BY <1>2, <1>8 DEF addUnitSplit, addSplit, enqueueSplits, skipAssumption, assume, analyzeFinal
<1>9. CASE pickBranchLit \/ complete
  BY <1>2, <1>9 DEF pickBranchLit, complete
<1>10. CASE UNCHANGED vars
  BY <1>2, <1>10 DEF vars
<1> QED BY <1>3, <1>4, <1>5, <1>6, <1>7, <1>8, <1>9, <1>10 DEF Next

AtomsOK == decision \subseteq Atoms /\ order_heap \subseteq Atoms

\* The atoms that were declared stay within those of the problem.
LEMMA AtomsStep == ASSUME StepInv, [Next]_vars PROVE AtomsOK'
<1>1. AtomsOK
  BY DEF StepInv, TypeOK, AtomsOK
<1>2. CASE UNCHANGED <<decision, order_heap>>
  BY <1>1, <1>2 DEF AtomsOK
<1>3. ASSUME NEW S \in SUBSET Literal, addVars({l.tr : l \in S}) PROVE AtomsOK'
  <2>1. {l.tr : l \in S} \subseteq Atoms
    BY Negation
  <2> QED BY <1>1, <1>3, <2>1 DEF addVars, AtomsOK
<1>4. CASE addOriginalClause_
  <2>1. Round.clauses[loaded + 1] \in SUBSET Literal
    BY <1>4, LoadClause
  <2> QED BY <2>1, <1>3, <1>4 DEF addOriginalClause_
<1>5. CASE solve_
  <2> DEFINE added == {assumptions[j].tr : j \in DOMAIN assumptions}
  <2>1. added \subseteq Atoms
    BY Asked, Negation DEF StepInv
  <2>2. decision' \subseteq decision \cup added /\ order_heap' = order_heap \cup added
    BY <1>5 DEF solve_
  <2> QED BY <2>1, <2>2, <1>1 DEF AtomsOK
<1>6. CASE learn \/ stop \/ restart \/ handleUnsat \/ addUnitSplit \/ clearSearch
  <2>1. decision' = decision
    BY <1>6 DEF learn, stop, restart, handleUnsat, addUnitSplit, clearSearch
  <2>2. order_heap' \subseteq order_heap \cup decision
    BY <1>6, CancelStep DEF Cancels, Reinserted
  <2> QED BY <2>1, <2>2, <1>1 DEF AtomsOK
<1>7. CASE handleNewSplitClauses
  <2>1. PICK batch \in SUBSET Splits : addVars({l.tr : l \in UNION batch})
    BY <1>7 DEF handleNewSplitClauses
  <2>2. UNION batch \in SUBSET Literal
    BY Asked DEF StepInv, Splits
  <2> QED BY <2>1, <2>2, <1>3
<1>8. CASE pickBranchLit
  BY <1>1, <1>8 DEF pickBranchLit, AtomsOK
<1>9. CASE keepWatch \/ moveWatch \/ propagateUnit \/ falsified
  BY <1>2, <1>9, VisitStep
<1>10. CASE takeLiteral \/ propagated \/ resolve \/ simplify \/ removeSatisfied \/ assertLit \/ handleSat
  BY <1>2, <1>10
     DEF takeLiteral, propagated, resolve, simplify, removeSatisfied, assertLit, handleSat, clauseVars
<1>11. CASE deduceTheory \/ addSplit \/ enqueueSplits \/ skipAssumption \/ assume \/ analyzeFinal \/ complete
  BY <1>2, <1>11
     DEF deduceTheory, addSplit, enqueueSplits, skipAssumption, assume, analyzeFinal, complete, clauseVars
<1>12. CASE UNCHANGED vars
  BY <1>2, <1>12 DEF vars, clauseVars
<1> QED BY <1>4, <1>5, <1>6, <1>7, <1>8, <1>9, <1>10, <1>11, <1>12 DEF Next

QheadOK == qhead \in 0..Len(trail)

\* The clauses still to visit watch the literal that was taken last, and propagation stays within the trail.
LEMMA QheadStep == ASSUME StepInv, [Next]_vars PROVE QheadOK'
<1>1. QheadOK /\ Len(trail) \in Nat /\ Len(trail') \in Nat
  BY Typed, TrailTyped, Places DEF StepInv, TypeOK, QheadOK, TypedTrail
<1>2. CASE qhead' = qhead /\ Keeps(Len(trail))
  BY <1>1, <1>2 DEF QheadOK, Keeps
<1>3. CASE learn \/ stop \/ restart \/ handleUnsat \/ addUnitSplit \/ clearSearch
  <2>1. CASE UNCHANGED <<order_heap, trailVars>>
    BY <2>1, <1>1 DEF trailVars, QheadOK
  <2>2. ASSUME NEW k \in 0..decisionLevel, Cancels(k) PROVE QheadOK'
    <3>1. Keeps(KeptAt(k)) /\ KeptAt(k) \in 0..Len(trail)
      BY <2>2, KeepsCut DEF Cancels
    <3>2. KeptAt(k) <= Len(trail')
      BY <3>1 DEF Keeps
    <3>3. CASE decisionLevel > k
      BY <3>1, <3>2, <3>3, <2>2, <1>1 DEF Cancels, QheadOK
    <3>4. CASE ~ (decisionLevel > k)
      BY <3>1, <3>2, <3>4, <2>2, <1>1 DEF Cancels, QheadOK, KeptAt
    <3> QED BY <3>3, <3>4
  <2> QED BY <2>1, <2>2, <1>3, CancelStep
<1>4. CASE takeLiteral
  BY <1>1, <1>4 DEF takeLiteral, QheadOK
<1>5. CASE falsified
  BY <1>1, <1>5 DEF falsified, visit, QheadOK
<1>6. CASE qhead' # qhead /\ Keeps(Len(trail))
  <2>1. CASE addOriginalClause_ \/ solve_ \/ keepWatch \/ moveWatch \/ propagateUnit \/ propagated \/ resolve
    BY <2>1, <1>6 DEF addOriginalClause_, solve_, keepWatch, moveWatch, propagateUnit, propagated, resolve, trailVars
  <2>2. CASE simplify \/ removeSatisfied \/ assertLit \/ handleSat \/ deduceTheory \/ handleNewSplitClauses
    BY <2>2, <1>6 DEF simplify, removeSatisfied, assertLit, handleSat, deduceTheory, handleNewSplitClauses, trailVars
  <2>3. CASE addSplit \/ enqueueSplits \/ skipAssumption \/ assume \/ analyzeFinal \/ pickBranchLit \/ complete
    BY <2>3, <1>6
       DEF addSplit, enqueueSplits, skipAssumption, assume, analyzeFinal, pickBranchLit, complete, trailVars
  <2>4. CASE UNCHANGED vars
    BY <2>4, <1>6 DEF vars, trailVars
  <2> QED BY <2>1, <2>2, <2>3, <2>4, <1>3, <1>4, <1>5 DEF Next
<1> QED BY <1>2, <1>3, <1>6, TrailGrows

\* The clauses still to be visited go on watching the literal that is propagated.
LEMMA WatchedStep == ASSUME StepInv, [Next]_vars PROVE watchers' \subseteq DOMAIN db' /\ Watched'
<1>1. Watchable' /\ Watched /\ Phases /\ watchers \subseteq DOMAIN db /\ QheadOK
  BY DbTyped DEF StepInv, TypeOK, QheadOK
<1>2. CASE watchers' = {}
  BY <1>1, <1>2 DEF Watchable, Watched
<1>3. CASE takeLiteral
  <2>1. /\ qhead < Len(trail) /\ qhead' = qhead + 1 /\ UNCHANGED <<db, trail>>
        /\ watchers' = {i \in DOMAIN db : Negated(trail[qhead'].lit) \in {db[i].lits[1], db[i].lits[2]}}
    BY <1>3 DEF takeLiteral, clauseVars
  <2>2. qhead' > 0
    BY <1>1, <2>1, Typed, Places DEF QheadOK
  <2> QED BY <1>1, <2>1, <2>2 DEF Watchable, Watched, FalseLit
<1>4. CASE watchers # {} /\ (keepWatch \/ moveWatch \/ propagateUnit \/ falsified)
  <2>1. PICK i \in watchers : Reorders(i) /\ watchers' \in {watchers \ {i}, {}}
    BY <1>4, VisitStep
  <2>2. CASE watchers' = watchers \ {i}
    <3>1. DOMAIN db' = DOMAIN db /\ \A j \in DOMAIN db : j # i => db'[j] = db[j]
      BY <2>1, ReordersEffect
    <3>2. qhead' = qhead \/ watchers' = {}
      BY <1>4 DEF keepWatch, moveWatch, propagateUnit, falsified
    <3>3. CASE qhead' = qhead
      <4>1. Keeps(Len(trail)) /\ qhead \in 1..Len(trail)
        <5>1. Keeps(Len(trail))
          <6>1. CASE trail' = trail
            BY <6>1, KeepsAll
          <6>2. CASE propagateUnit
            <7>1. PICK l, from : Adds(decisionLevel, l, from)
              BY <6>2, PropagateStep
            <7>2. Keeps(KeptAt(decisionLevel)) /\ KeptAt(decisionLevel) = Len(trail)
              BY <7>1, Typed, Places, KeepsCut DEF Adds, Addable, KeptAt
            <7> QED BY <7>2
          <6> QED BY <6>1, <6>2, <1>4 DEF keepWatch, moveWatch, falsified
        <5> QED BY <5>1, <1>1, <1>4, Typed, Places DEF QheadOK, Watched
      <4>2. FalseLit' = FalseLit
        BY <3>3, <4>1 DEF FalseLit, Keeps
      <4> QED BY <1>1, <2>2, <3>1, <3>3, <4>2 DEF Watched, Watchable
    <3> QED BY <3>2, <3>3, <1>2
  <2> QED BY <2>1, <2>2, <1>2
<1>5. CASE watchers' = watchers
  <2>1. CASE watchers # {}
    <3>1. pc \in {"watch", "unit"}
      BY <2>1, <1>1 DEF Phases
    <3>2. UNCHANGED <<db, trail, qhead>>
      <4>1. CASE addOriginalClause_ \/ solve_ \/ resolve \/ learn \/ stop \/ restart \/ simplify \/ removeSatisfied
        BY <4>1, <3>1 DEF addOriginalClause_, solve_, resolve, learn, stop, restart, simplify, removeSatisfied
      <4>2. CASE assertLit \/ handleUnsat \/ handleSat \/ deduceTheory \/ handleNewSplitClauses \/ addUnitSplit
        BY <4>2, <3>1
           DEF assertLit, handleUnsat, handleSat, deduceTheory, handleNewSplitClauses, addUnitSplit, Accepted,
               Asserted, InCheck
      <4>3. CASE addSplit \/ enqueueSplits \/ skipAssumption \/ assume \/ analyzeFinal \/ pickBranchLit \/ complete
        BY <4>3, <3>1
           DEF addSplit, enqueueSplits, skipAssumption, assume, analyzeFinal, pickBranchLit, complete, Deciding
      <4>4. CASE clearSearch \/ propagated \/ takeLiteral
        BY <4>4, <3>1, <2>1 DEF clearSearch, propagated, takeLiteral
      <4>5. CASE keepWatch \/ moveWatch \/ propagateUnit \/ falsified
        BY <4>5, <1>5, <2>1 DEF keepWatch, moveWatch, propagateUnit, falsified
      <4>6. CASE UNCHANGED vars
        BY <4>6 DEF vars, clauseVars, trailVars
      <4> QED BY <4>1, <4>2, <4>3, <4>4, <4>5, <4>6 DEF Next
    <3> QED BY <3>2, <1>1, <1>5 DEF Watched, FalseLit
  <2> QED BY <2>1, <1>2, <1>5
<1>6. CASE watchers' # watchers
  <2>1. CASE addOriginalClause_ \/ solve_ \/ resolve \/ learn \/ stop \/ restart \/ simplify \/ removeSatisfied
    BY <2>1, <1>6 DEF addOriginalClause_, solve_, resolve, learn, stop, restart, simplify, removeSatisfied
  <2>2. CASE assertLit \/ handleUnsat \/ handleSat \/ deduceTheory \/ handleNewSplitClauses \/ addUnitSplit
    BY <2>2, <1>6 DEF assertLit, handleUnsat, handleSat, deduceTheory, handleNewSplitClauses, addUnitSplit
  <2>3. CASE addSplit \/ enqueueSplits \/ skipAssumption \/ assume \/ analyzeFinal \/ pickBranchLit \/ complete
    BY <2>3, <1>6 DEF addSplit, enqueueSplits, skipAssumption, assume, analyzeFinal, pickBranchLit, complete
  <2>4. CASE clearSearch \/ propagated
    BY <2>4, <1>6 DEF clearSearch, propagated
  <2>5. CASE keepWatch \/ moveWatch \/ propagateUnit \/ falsified
    BY <2>5, <1>4, VisitStep
  <2>6. CASE UNCHANGED vars
    BY <2>6, <1>6 DEF vars
  <2> QED BY <2>1, <2>2, <2>3, <2>4, <2>5, <2>6, <1>3 DEF Next
<1> QED BY <1>5, <1>6

-----------------------------------------------------------------------------
(* What is resolved, and what the splits imply, stays false.               *)

SeenOK == seen \subseteq Literal /\ \A l \in seen : FalseNow(l) /\ LevelOf(l) > 0

\* A contradiction that the theory explains is all true, and so is its reason for a literal.
LEMMA ExplainedFalse ==
    ASSUME StepInv, NEW i \in DOMAIN trail, trail[i].reason # CRef_Undef, NEW reason \in ReasonsOf(i)
    PROVE  reason \in SUBSET Literal /\ \A l \in reason : FalseNow(l)
<1>1. TypedTrail(trail, trail_lim) /\ ReasonsFalse(trail) /\ trail[i] \in Entry
  BY Typed, Places DEF TypedTrail
<1>2. CASE trail[i].reason = CRef_Fake
  <2> DEFINE S == {trail[j].lit : j \in 1..Min({i - 1, Len(stack)})} \cap Given
             p == trail[i].lit
  <2>1. PICK why \in ReasonsFor(p, S) : reason = {Negated(l) : l \in why}
    BY <1>2 DEF ReasonsOf
  <2> HIDE DEF S, p
  <2>2. PICK k \in Conflicts(S \cup {Negated(p)}) : why = k \ {Negated(p)}
    BY <2>1 DEF ReasonsFor
  <2>3. why \subseteq S
    BY <2>2 DEF Conflicts
  <2>4. \A l \in why : l \in Literal /\ TrueNow(l)
    BY <2>3, GivenTrue DEF S
  <2>5. \A l \in why : Negated(l) \in Literal /\ FalseNow(Negated(l))
    BY <2>4, Negation DEF TrueNow, FalseNow
  <2> QED BY <2>1, <2>5
<1>3. CASE trail[i].reason # CRef_Fake
  <2>1. reason = trail[i].reason
    BY <1>3 DEF ReasonsOf
  <2>2. trail[i].reason \in SUBSET Literal
    BY <1>1, <1>3 DEF Entry, Reasons
  <2>3. \A l \in trail[i].reason : \E j \in 1..(i - 1) : trail[j].lit = Negated(l)
    BY <1>1, <1>3 DEF ReasonsFalse
  <2>4. 1..(i - 1) \subseteq DOMAIN trail
    BY <1>1, Places
  <2> QED BY <2>1, <2>2, <2>3, <2>4 DEF FalseNow, OnTrail
<1> QED BY <1>2, <1>3

\* The literals that analyze() still resolves on are false, and above level 0.
LEMMA SeenStep == ASSUME StepInv, [Next]_vars PROVE SeenOK'
<1>1. SeenOK /\ Phases /\ TypedTrail(trail, trail_lim)
  BY Typed DEF StepInv, TypeOK, Resolvents, SeenOK
<1>2. CASE seen' = {}
  BY <1>2 DEF SeenOK
<1>3. CASE seen' = seen /\ Keeps(Len(trail))
  BY <1>1, <1>3, FalseStill DEF SeenOK
<1>4. CASE seen' = seen /\ pc # "analyze"
  BY <1>1, <1>2, <1>4 DEF Phases
<1>5. ASSUME trail' = trail, NEW S \in SUBSET Literal, seen' \subseteq {l \in S : LevelOf(l) > 0},
             \A l \in S : FalseNow(l)
      PROVE  SeenOK'
  <2>1. Keeps(Len(trail))
    BY <1>5, KeepsAll
  <2> QED BY <2>1, <1>5, FalseStill DEF SeenOK
<1>6. CASE falsified
  <2>1. PICK i \in watchers : /\ FalseNow(Visited(i)[1]) /\ Free(Visited(i)) = {}
                              /\ seen' = seen \/ analyze(LitsOf(db[i]))
                              /\ pc \in {"watch", "unit"} /\ trail' = trail
    BY <1>6 DEF falsified, visit
  <2>2. LitsOf(db[i]) \in SUBSET Literal /\ \A l \in LitsOf(db[i]) : FalseNow(l)
    BY <2>1, NoneFree, Clauses DEF StepInv
  <2>3. CASE analyze(LitsOf(db[i]))
    BY <2>1, <2>2, <2>3, <1>5 DEF analyze
  <2> QED BY <2>1, <2>3, <1>4
<1>7. CASE resolve
  <2>1. PICK one \in Open : Open # {one}
    BY <1>7 DEF resolve
  <2>2. PICK reason \in ReasonsOf(LastOpen) :
            seen' = (seen \ {Negated(trail[LastOpen].lit)}) \cup {l \in reason : LevelOf(l) > 0}
    BY <1>7 DEF resolve
  <2>3. reason \in SUBSET Literal /\ \A l \in reason : FalseNow(l)
    <3>1. LastOpen \in DOMAIN trail /\ trail[LastOpen].reason # CRef_Undef
      BY <2>1, Latest
    <3> QED BY <3>1, ExplainedFalse
  <2>4. seen \cup reason \in SUBSET Literal /\ \A l \in seen \cup reason : FalseNow(l)
    BY <2>3, <1>1 DEF SeenOK
  <2>5. seen' \subseteq {l \in seen \cup reason : LevelOf(l) > 0}
    BY <2>2, <1>1 DEF SeenOK
  <2>6. trail' = trail
    BY <1>7 DEF resolve, trailVars
  <2> QED BY <2>4, <2>5, <2>6, <1>5
<1>8. CASE handleUnsat
  <2>1. pc # "analyze"
    BY <1>8 DEF handleUnsat, Asserted, InCheck
  <2>2. CASE seen' = seen
    BY <2>1, <2>2, <1>4
  <2>3. CASE seen' # seen
    <3>1. PICK k \in Conflicts(Given) :
              /\ Cuts(backtrackLevel(k)) /\ cancelUntil(backtrackLevel(k))
              /\ \A l \in k : LevelOf(l) <= backtrackLevel(k)
              /\ analyze({Negated(l) : l \in k})
      BY <2>3, <1>8, UnsatStep
    <3>2. Cancels(backtrackLevel(k)) /\ backtrackLevel(k) \in 0..decisionLevel
      BY <3>1 DEF Cancels, Cuts, cancelUntil, cancelLevels
    <3>3. seen' = {m \in {Negated(l) : l \in k} : LevelOf(m) > 0}
      BY <3>1 DEF analyze
    <3>4. ASSUME NEW m \in seen' PROVE m \in Literal /\ FalseNow(m)' /\ LevelOf(m)' > 0
      <4>1. PICK l \in k : m = Negated(l)
        BY <3>3
      <4>2. l \in Literal /\ TrueNow(l)
        BY GivenTrue
      <4>3. m \in Literal /\ FalseNow(m) /\ m.tr = l.tr
        BY <4>1, <4>2, Negation DEF TrueNow, FalseNow
      <4>4. LevelOf(m) <= backtrackLevel(k) /\ LevelOf(m) > 0
        BY <4>3, <3>1, <3>3 DEF LevelOf
      <4> QED BY <4>3, <4>4, <3>2, FalseBelow
    <3> QED BY <3>4 DEF SeenOK
  <2> QED BY <2>2, <2>3
<1>9. CASE learn
  BY <1>2, <1>9 DEF learn
<1>10. CASE stop \/ restart \/ addUnitSplit \/ clearSearch
  BY <1>4, <1>10 DEF stop, restart, addUnitSplit, clearSearch
<1>11. CASE Keeps(Len(trail)) /\ seen' # seen
  <2>1. CASE addOriginalClause_ \/ solve_ \/ takeLiteral \/ keepWatch \/ moveWatch \/ propagateUnit \/ propagated
    BY <2>1, <1>11 DEF addOriginalClause_, solve_, takeLiteral, keepWatch, moveWatch, propagateUnit, propagated
  <2>2. CASE simplify \/ removeSatisfied \/ assertLit \/ handleSat \/ deduceTheory \/ handleNewSplitClauses
    BY <2>2, <1>11 DEF simplify, removeSatisfied, assertLit, handleSat, deduceTheory, handleNewSplitClauses
  <2>3. CASE addSplit \/ enqueueSplits \/ skipAssumption \/ assume \/ analyzeFinal \/ pickBranchLit \/ complete
    BY <2>3, <1>11 DEF addSplit, enqueueSplits, skipAssumption, assume, analyzeFinal, pickBranchLit, complete
  <2>4. CASE UNCHANGED vars
    BY <2>4, <1>11 DEF vars
  <2> QED BY <2>1, <2>2, <2>3, <2>4, <1>6, <1>7, <1>8, <1>9, <1>10 DEF Next
<1> QED BY <1>3, <1>8, <1>9, <1>10, <1>11, TrailGrows

\* What is to be solved stays the same.
LEMMA SameProblem == ASSUME [Next]_vars PROVE problem' = problem
<1>1. CASE Next
  BY <1>1 DEF Next, addOriginalClause_, solve_, takeLiteral, keepWatch, moveWatch, propagateUnit, falsified, visit,
              propagated, resolve, learn, stop, restart, simplify, removeSatisfied, assertLit, handleUnsat,
              handleSat, deduceTheory, handleNewSplitClauses, addUnitSplit, addSplit, enqueueSplits,
              skipAssumption, assume, analyzeFinal, pickBranchLit, complete, clearSearch, inputVars
<1> QED BY SMTT(30), <1>1 DEF vars, inputVars

SplitsOK ==
    /\ new_splits \in Seq(SUBSET Literal) /\ \A k \in DOMAIN new_splits : new_splits[k] \in problem.splits
    /\ propData \in Seq([lit : Literal, reason : SUBSET Literal])
    /\ \A k \in DOMAIN propData : \A l \in propData[k].reason : FalseNow(l)

\* The first element of a list goes, the others move up.
LEMMA OneLess ==
    ASSUME NEW S, NEW s \in Seq(S), s # <<>>
    PROVE  /\ Tail(s) \in Seq(S) /\ \A k \in DOMAIN Tail(s) : k + 1 \in DOMAIN s /\ Tail(s)[k] = s[k + 1]
           /\ \A k \in DOMAIN s : s[k] = Head(s) \/ \E j \in DOMAIN Tail(s) : Tail(s)[j] = s[k]
<1>1. Tail(s) \in Seq(S) /\ Len(Tail(s)) = Len(s) - 1 /\ \A k \in 1..Len(Tail(s)) : Tail(s)[k] = s[k + 1]
  BY HeadTailProperties
<1>2. Head(s) = s[1] /\ Len(s) \in Nat /\ DOMAIN s = 1..Len(s) /\ DOMAIN Tail(s) = 1..(Len(s) - 1)
  BY <1>1, LenProperties
<1>3. \A k \in 1..(Len(s) - 1) : k + 1 \in 1..Len(s)
  BY <1>2
<1>4. ASSUME NEW k \in 1..Len(s), k # 1 PROVE k - 1 \in 1..(Len(s) - 1) /\ Tail(s)[k - 1] = s[k]
  <2>1. k - 1 \in 1..(Len(s) - 1) /\ k - 1 + 1 = k
    BY <1>2, <1>4
  <2> QED BY <2>1, <1>1
<1> QED BY <1>1, <1>2, <1>3, <1>4

\* The split clauses that are fetched are all listed, in some order.
LEMMA Fetched ==
    ASSUME NEW batch \in SUBSET SUBSET Literal, NEW order \in ByLevel(batch)
    PROVE  /\ order \in Seq(batch) /\ \A c \in batch : \E k \in DOMAIN order : order[k] = c
           /\ \A k \in DOMAIN order : order[k] \in batch
<1> DEFINE n == Cardinality(batch)
<1>1. IsFiniteSet(batch) /\ n \in Nat
  <2>1. IsFiniteSet(Literal)
    BY FiniteClauses
  <2>2. IsFiniteSet(SUBSET Literal)
    BY <2>1, FS_SUBSET
  <2> QED BY <2>2, FS_Subset, FS_CardinalityType
<1>2. order \in [1..n -> batch] /\ IsInjective(order)
  BY DEF ByLevel
<1>3. IsFiniteSet(1..n) /\ Cardinality(1..n) = n
  BY <1>1, FS_Interval
<1>4. order \in Injection(1..n, batch)
  BY <1>2 DEF Injection, IsInjective
<1>5. order \in Surjection(1..n, batch)
  BY <1>1, <1>3, <1>4, FS_Injection
<1> QED BY <1>1, <1>2, <1>5 DEF Surjection

\* What the unit splits imply: as before if the search stays at its level, and the new literal.
LEMMA PropAfter ==
    ASSUME StepInv, addUnitSplit
    PROVE  \E implied \in Head(new_splits) :
              LET rest == Head(new_splits) \ {implied}
                  level == backtrackLevel(rest)
              IN  /\ level \in 0..decisionLevel /\ Cancels(level)
                  /\ \A l \in rest : FalseNow(l) /\ LevelOf(l) <= level
                  /\ propData' \in Seq([lit : Literal, reason : SUBSET Literal])
                  /\ \A k \in DOMAIN propData' :
                        \/ level = decisionLevel /\ \E j \in DOMAIN propData : propData'[k] = propData[j]
                        \/ propData'[k].lit = implied /\ propData'[k].reason = rest
<1>1. new_splits # <<>> /\ TypeOK
  BY DEF addUnitSplit, StepInv
<1>2. PICK implied \in Head(new_splits) :
          LET rest == Head(new_splits) \ {implied}
              level == backtrackLevel(rest)
          IN  /\ \A l \in rest : FalseNow(l) /\ LevelOf(l) <= level
              /\ level \in 0..decisionLevel /\ cancelUntil(level)
              /\ Adds(0, implied, CRef_Undef) \/ level # 0
              /\ Cuts(level) \/ level = 0
              /\ propData' = (IF level < decisionLevel THEN <<>> ELSE propData)
                                \o (IF level = 0 THEN <<>> ELSE <<[lit |-> implied, reason |-> rest]>>)
  BY <1>1, UnitSplitStep
<1> DEFINE rest == Head(new_splits) \ {implied}
           level == backtrackLevel(rest)
           P == [lit : Literal, reason : SUBSET Literal]
           e == [lit |-> implied, reason |-> rest]
           a == IF level < decisionLevel THEN <<>> ELSE propData
           b == IF level = 0 THEN <<>> ELSE <<e>>
<1>3. rest \in SUBSET Literal /\ implied \in Literal
  BY <1>1, SplitClause
<1>4. e \in P /\ e.lit = implied /\ e.reason = rest
  BY <1>3
<1>5. propData \in Seq(P)
  BY <1>1 DEF TypeOK
<1>6. propData' = a \o b /\ decisionLevel \in Nat /\ level \in 0..decisionLevel
  BY <1>2, Typed, Places
<1>7. Cancels(level)
  BY <1>2, <1>3 DEF Cancels, cancelUntil, cancelLevels, Adds, Addable
<1> HIDE DEF e, P, level
<1>8. a \in Seq(P) /\ (a = <<>> \/ (a = propData /\ level = decisionLevel))
  BY <1>5, <1>6
<1>9. b \in Seq(P) /\ Len(b) \in Nat /\ \A k \in 1..Len(b) : b[k] = e
  BY <1>4
<1> HIDE DEF a, b
<1>10. propData' \in Seq(P) /\ Len(propData') = Len(a) + Len(b) /\ DOMAIN propData' = 1..(Len(a) + Len(b))
  BY <1>6, <1>8, <1>9, ConcatProperties, LenProperties
<1>11. \A k \in 1..(Len(a) + Len(b)) : propData'[k] = IF k <= Len(a) THEN a[k] ELSE b[k - Len(a)]
  <2>1. a \in Seq(P) /\ b \in Seq(P)
    BY <1>8, <1>9
  <2>2. \A k \in 1..(Len(a) + Len(b)) : (a \o b)[k] = IF k <= Len(a) THEN a[k] ELSE b[k - Len(a)]
    BY <2>1, ConcatProperties
  <2> QED BY <2>2, <1>6
<1>12. ASSUME NEW k \in DOMAIN propData'
       PROVE  \/ level = decisionLevel /\ \E j \in DOMAIN propData : propData'[k] = propData[j]
              \/ propData'[k].lit = implied /\ propData'[k].reason = rest
  <2>1. k \in 1..(Len(a) + Len(b)) /\ Len(a) \in Nat /\ Len(b) \in Nat /\ DOMAIN propData = 1..Len(propData)
    BY <1>5, <1>8, <1>9, <1>10
  <2>2. CASE k <= Len(a)
    <3>1. a # <<>>
      BY <2>1, <2>2
    <3> QED BY <3>1, <2>1, <2>2, <1>8, <1>11
  <2>3. CASE ~ (k <= Len(a))
    <3>1. k - Len(a) \in 1..Len(b)
      BY <2>1, <2>3
    <3> QED BY <3>1, <2>1, <2>3, <1>4, <1>9, <1>11
  <2> QED BY <2>2, <2>3
<1> QED BY <1>2, <1>7, <1>10, <1>12 DEF P, level

\* What is left of the clauses that the theory solver asked for stays legal.
LEMMA SplitsStep == ASSUME StepInv, [Next]_vars PROVE SplitsOK'
<1>1. SplitsOK /\ Phases /\ TypedTrail(trail, trail_lim)
  BY Typed DEF StepInv, TypeOK, Resolvents, Declared, SplitsOK
<1>a. problem' = problem
  BY SameProblem
<1> DEFINE P == [lit : Literal, reason : SUBSET Literal]
<1>2. CASE UNCHANGED <<new_splits, propData>> /\ Keeps(Len(trail))
  <2> SUFFICES ASSUME NEW k \in DOMAIN propData, NEW l \in propData[k].reason PROVE FalseNow(l)'
    BY <1>1, <1>2, <1>a DEF SplitsOK
  <2>b. propData \in Seq(P) /\ \A p \in P : p.reason \in SUBSET Literal
    BY <1>1 DEF SplitsOK
  <2> HIDE DEF P
  <2>1. l \in Literal /\ FalseNow(l)
    BY <2>b, <1>1, ElementOfSeq, LenProperties DEF SplitsOK
  <2> QED BY <2>1, <1>2, FalseStill
<1>3. CASE UNCHANGED <<new_splits, propData>> /\ pc # "split"
  <2>1. new_splits = <<>> /\ propData = <<>>
    BY <1>1, <1>3 DEF Phases
  <2> QED BY <2>1, <1>1, <1>3 DEF SplitsOK
<1>4. CASE handleNewSplitClauses
  <2>1. PICK batch \in SUBSET Splits : new_splits' \in ByLevel(batch)
    BY <1>4 DEF handleNewSplitClauses
  <2>2. batch \in SUBSET problem.splits /\ batch \in SUBSET SUBSET Literal
    BY Asked DEF StepInv, Splits
  <2>3. new_splits' \in Seq(batch) /\ \A k \in DOMAIN new_splits' : new_splits'[k] \in batch
    BY <2>1, <2>2, Fetched
  <2>4. new_splits' \in Seq(SUBSET Literal)
    BY <2>2, <2>3, SeqMonotonic
  <2>5. propData' = <<>>
    BY <1>4 DEF handleNewSplitClauses
  <2>6. <<>> \in Seq(P) /\ DOMAIN <<>> = {}
    OBVIOUS
  <2> QED BY <2>2, <2>3, <2>4, <2>5, <2>6, <1>a DEF SplitsOK
<1>5. CASE addUnitSplit
  <2>1. new_splits # <<>> /\ new_splits' = Tail(new_splits)
    BY <1>5 DEF addUnitSplit
  <2>2. new_splits' \in Seq(SUBSET Literal) /\ \A k \in DOMAIN new_splits' : new_splits'[k] \in problem.splits
    BY <2>1, <1>1, OneLess DEF SplitsOK
  <2>3. PICK implied \in Head(new_splits) :
            LET rest == Head(new_splits) \ {implied}
                level == backtrackLevel(rest)
            IN  /\ level \in 0..decisionLevel /\ Cancels(level)
                /\ \A l \in rest : FalseNow(l) /\ LevelOf(l) <= level
                /\ propData' \in Seq(P)
                /\ \A k \in DOMAIN propData' :
                      \/ level = decisionLevel /\ \E j \in DOMAIN propData : propData'[k] = propData[j]
                      \/ propData'[k].lit = implied /\ propData'[k].reason = rest
    BY <1>5, PropAfter
  <2> DEFINE rest == Head(new_splits) \ {implied}
             level == backtrackLevel(rest)
  <2>4. rest \in SUBSET Literal
    BY <2>1, SplitClause
  <2>b. propData \in Seq(P) /\ \A p \in P : p.reason \in SUBSET Literal
    BY <1>1 DEF SplitsOK
  <2>5. ASSUME NEW l \in Literal, FalseNow(l), LevelOf(l) <= level PROVE FalseNow(l)'
    BY <2>3, <2>5, FalseBelow
  <2>6. ASSUME NEW k \in DOMAIN propData', NEW l \in propData'[k].reason PROVE FalseNow(l)'
    <3>1. CASE propData'[k].reason = rest
      BY <3>1, <2>3, <2>4, <2>5, <2>6
    <3>2. ASSUME level = decisionLevel, NEW j \in DOMAIN propData, propData'[k] = propData[j] PROVE FalseNow(l)'
      <4> HIDE DEF P
      <4>1. l \in Literal /\ FalseNow(l)
        BY <2>6, <2>b, <3>2, <1>1, ElementOfSeq, LenProperties DEF SplitsOK
      <4>2. LevelOf(l) <= level
        BY <4>1, <3>2, <1>1, Places
      <4> QED BY <4>1, <4>2, <2>5
    <3> QED BY <3>1, <3>2, <2>3, <2>6
  <2> QED BY <2>2, <2>3, <2>6, <1>a DEF SplitsOK
<1>6. CASE addSplit
  <2>1. new_splits # <<>> /\ new_splits' = Tail(new_splits) /\ UNCHANGED <<propData, trail>>
    BY <1>6 DEF addSplit, trailVars
  <2>2. new_splits' \in Seq(SUBSET Literal) /\ \A k \in DOMAIN new_splits' : new_splits'[k] \in problem.splits
    BY <2>1, <1>1, OneLess DEF SplitsOK
  <2> QED BY <2>1, <2>2, <1>1, <1>a DEF SplitsOK, FalseNow, OnTrail
<1>7. CASE enqueueSplits
  <2>1. CASE UNCHANGED <<new_splits, propData>>
    <3>1. Keeps(Len(trail))
      BY <1>7, TrailGrows DEF enqueueSplits, learn, stop, restart, handleUnsat, addUnitSplit, clearSearch, Asserted,
                              InCheck
    <3> QED BY <2>1, <3>1, <1>2
  <2>2. CASE propData # <<>> /\ propData' = Tail(propData)
    <3>1. Keeps(Len(trail))
      BY <1>7, TrailGrows DEF enqueueSplits, learn, stop, restart, handleUnsat, addUnitSplit, clearSearch, Asserted,
                              InCheck
    <3>b. propData \in Seq(P) /\ \A p \in P : p.reason \in SUBSET Literal
      BY <1>1 DEF SplitsOK
    <3>2. /\ propData' \in Seq(P)
          /\ \A k \in DOMAIN propData' : k + 1 \in DOMAIN propData /\ propData'[k] = propData[k + 1]
      <4> HIDE DEF P
      <4> QED BY <2>2, <3>b, OneLess
    <3>3. ASSUME NEW k \in DOMAIN propData', NEW l \in propData'[k].reason PROVE FalseNow(l)'
      <4> HIDE DEF P
      <4>1. l \in Literal /\ FalseNow(l)
        BY <3>b, <3>2, <3>3, <1>1, ElementOfSeq, LenProperties DEF SplitsOK
      <4> QED BY <4>1, <3>1, FalseStill
    <3>4. new_splits' = new_splits
      BY <1>7 DEF enqueueSplits
    <3> QED BY <3>2, <3>3, <3>4, <1>1, <1>a DEF SplitsOK
  <2> QED BY <2>1, <2>2, <1>7 DEF enqueueSplits
<1>8. CASE learn \/ stop \/ restart \/ handleUnsat \/ clearSearch
  BY <1>3, <1>8 DEF learn, stop, restart, handleUnsat, clearSearch, splitVars, Asserted, InCheck
<1>9. CASE Keeps(Len(trail)) /\ ~ UNCHANGED <<new_splits, propData>>
  <2>1. CASE addOriginalClause_ \/ solve_ \/ takeLiteral \/ propagated \/ resolve \/ simplify \/ removeSatisfied
    BY <2>1, <1>9 DEF addOriginalClause_, solve_, takeLiteral, propagated, resolve, simplify, removeSatisfied, splitVars
  <2>2. CASE keepWatch \/ moveWatch \/ propagateUnit \/ falsified
    BY <2>2, <1>9, VisitStep DEF splitVars
  <2>3. CASE assertLit \/ handleSat \/ deduceTheory \/ skipAssumption \/ assume \/ analyzeFinal
    BY <2>3, <1>9 DEF assertLit, handleSat, deduceTheory, skipAssumption, assume, analyzeFinal, splitVars
  <2>4. CASE pickBranchLit \/ complete
    BY <2>4, <1>9 DEF pickBranchLit, complete, splitVars
  <2>5. CASE UNCHANGED vars
    BY <2>5, <1>9 DEF vars, splitVars
  <2> QED BY <2>1, <2>2, <2>3, <2>4, <2>5, <1>4, <1>5, <1>6, <1>7, <1>8 DEF Next
<1> QED BY <1>2, <1>5, <1>8, <1>9, TrailGrows

-----------------------------------------------------------------------------
(* Where the solver is.                                                    *)

\* The place of an assumption that enables a frame among the others.
LEMMA OrderBound ==
    ASSUME TypeOK, NEW i \in DOMAIN assumptions, ~ assumptions[i].sgn
    PROVE  Order(assumptions[i].tr) \in 0..Len(assumptions)
<1> DEFINE n == Len(assumptions)
           A == {j \in 1..n : ~ assumptions[j].sgn}
           at == CHOOSE j \in A : assumptions[j].tr = assumptions[i].tr
           before == {j \in 1..(at - 1) : ~ assumptions[j].sgn}
<1>1. n \in Nat /\ DOMAIN assumptions = 1..n
  BY Asked
<1>2. at \in A
  <2>1. i \in A
    BY <1>1
  <2> QED BY <2>1
<1>3. at - 1 \in Nat /\ at - 1 <= n
  BY <1>1, <1>2
<1>4. Order(assumptions[i].tr) = Cardinality(before)
  BY DEF Order
<1> HIDE DEF at
<1>5. IsFiniteSet(1..(at - 1)) /\ Cardinality(1..(at - 1)) = at - 1
  BY <1>3, FS_Interval
<1>6. before \subseteq 1..(at - 1)
  OBVIOUS
<1> HIDE DEF before
<1>7. IsFiniteSet(before) /\ Cardinality(before) <= Cardinality(1..(at - 1))
  BY <1>5, <1>6, FS_Subset
<1>8. Cardinality(before) \in Nat
  BY <1>7, FS_CardinalityType
<1> QED BY <1>1, <1>3, <1>4, <1>5, <1>7, <1>8

\* The frames whose literals led to the false assumption, as their negations.
FramesInWay(why) == {k \in FinalConflict(Negated(assumptions[decisionLevel + 1]), why) : k.sgn}
FrameAfter(why) == 1 + Max({0} \cup {Order(l.tr) : l \in FramesInWay(why)})

\* analyzeFinal(): one more than the place of the last frame that is in the way.
LEMMA FrameBound ==
    ASSUME StepInv, analyzeFinal, NEW why, conflict_frame' = FrameAfter(why)
    PROVE  /\ conflict_frame' \in Nat /\ conflict_frame' > 0
           /\ \A l \in FramesInWay(why) : Order(l.tr) < conflict_frame'
<1> DEFINE p == assumptions[decisionLevel + 1]
<1>1. pc = "decide" /\ decisionLevel < Len(assumptions)
  BY DEF analyzeFinal
<1>3. TypeOK /\ Len(assumptions) \in Nat /\ DOMAIN assumptions = 1..Len(assumptions) /\ decisionLevel \in Nat
  BY Asked, Typed, Places DEF StepInv
<1>4. decisionLevel + 1 \in DOMAIN assumptions
  BY <1>1, <1>3
<1> DEFINE last == FramesInWay(why)
           O == {Order(l.tr) : l \in last}
<1>5. ASSUME NEW l \in last PROVE Order(l.tr) \in 0..Len(assumptions)
  <2>1. l \in FinalConflict(Negated(p), why) /\ l.sgn
    BY DEF FramesInWay
  <2>2. l = Negated(p) \/ \E j \in DOMAIN assumptions : ~ assumptions[j].sgn /\ assumptions[j].tr = l.tr
    <3>1. CASE l # Negated(p)
      <4>1. PICK i \in DOMAIN trail :
                /\ l = Negated(trail[i].lit)
                /\ trail[i].lit.tr \in {assumptions[j].tr : j \in {h \in DOMAIN assumptions : ~ assumptions[h].sgn}}
        BY <2>1, <3>1 DEF FinalConflict
      <4>2. l.tr = trail[i].lit.tr
        BY <4>1, Typed, Places, Negation
      <4> QED BY <4>1, <4>2
    <3> QED BY <3>1
  <2>3. CASE l = Negated(p)
    <3>1. p \in Literal
      BY <1>3, <1>4, Asked
    <3>2. l.tr = p.tr /\ ~ p.sgn
      BY <2>1, <2>3 DEF Negated
    <3> QED BY <3>2, <1>3, <1>4, OrderBound
  <2>4. ASSUME NEW j \in DOMAIN assumptions, ~ assumptions[j].sgn, assumptions[j].tr = l.tr
        PROVE  Order(l.tr) \in 0..Len(assumptions)
    <3>1. Order(assumptions[j].tr) \in 0..Len(assumptions)
      BY <2>4, <1>3, OrderBound
    <3> QED BY <2>4, <3>1
  <2> QED BY <2>2, <2>3, <2>4
<1>6. {0} \cup O \in SUBSET Nat /\ \A x \in {0} \cup O : x <= Len(assumptions)
  BY <1>3, <1>5
<1> HIDE DEF O
<1> DEFINE top == Max({0} \cup O)
<1>7. top \in {0} \cup O /\ \A x \in {0} \cup O : x <= top
  BY <1>3, <1>6, Largest
<1>8. conflict_frame' = 1 + top
  BY DEF O, FrameAfter
<1>9. \A l \in last : Order(l.tr) \in O
  BY DEF O
<1> HIDE DEF top, last
<1>10. conflict_frame' \in Nat /\ conflict_frame' > 0
  BY <1>6, <1>7, <1>8
<1>11. \A x \in O : x < conflict_frame'
  BY <1>6, <1>7, <1>8
<1> QED BY <1>9, <1>10, <1>11 DEF last

\* So it is a number.
LEMMA FrameStep ==
    ASSUME StepInv, analyzeFinal
    PROVE  conflict_frame' \in Nat
<1>1. \E why : conflict_frame' = FrameAfter(why)
  BY DEF analyzeFinal, FrameAfter, FramesInWay
<1> QED BY <1>1, FrameBound

PlaceOK ==
    /\ pc \in {"load", "unit", "entry", "propagate", "watch", "analyze", "stable", "simplify", "early", "decide",
               "complete", "deduce", "split", "last", "done"}
    /\ res \in {"none", "propagate", "decide", "last"}
    /\ conflictC \in Nat /\ ok \in BOOLEAN /\ conflict_frame \in Nat
    /\ status \in {"l_True", "l_False", "l_Undef"}
    /\ Phases

\* The solver is where its records say, and only there.
LEMMA PlaceStep == ASSUME StepInv, [Next]_vars PROVE PlaceOK'
<1>1. PlaceOK /\ loaded \in 0..Len(Round.clauses) /\ RestartAfter \in Nat
  BY CoreSMTSolverAssumption DEF StepInv, TypeOK, PlaceOK
<1>2. UNCHANGED inputVars => Round' = Round /\ loaded' = loaded
  BY DEF inputVars, Round
<1>3. CASE addOriginalClause_
  <2>1. /\ pc = "load"
        /\ UNCHANGED <<trail_lim, watchers, seen, splitVars, conflictC, conflict_frame, status, stack>>
    BY <1>3 DEF addOriginalClause_, theoryVars
  <2>2. (pc' = pc /\ (ok' = ok \/ ok' = FALSE)) \/ (pc' = "unit" /\ ok' = ok /\ ok)
    BY <1>3 DEF addOriginalClause_
  <2>3. CASE pc' = pc
    BY <2>1, <2>2, <2>3, <1>1 DEF PlaceOK, Phases, Loading, splitVars
  <2>4. CASE pc' = "unit"
    BY <2>1, <2>2, <2>4, <1>1 DEF PlaceOK, Phases, Loading, splitVars
  <2> QED BY <2>2, <2>3, <2>4
<1>4. CASE solve_
  <2>1. /\ pc = "load" /\ loaded = Len(Round.clauses) /\ conflictC' = 0
        /\ UNCHANGED <<inputVars, trail_lim, watchers, seen, splitVars, ok, conflict_frame, stack>>
    BY <1>4 DEF solve_, trailVars
  <2>2. \/ ok /\ pc' = "entry" /\ status' = "l_Undef"
        \/ ~ ok /\ pc' = "done" /\ status' = "l_False"
    BY <1>4 DEF solve_, Answer
  <2>3. CASE ok
    BY <2>1, <2>2, <2>3, <1>1, <1>2 DEF PlaceOK, Phases, Loading, splitVars
  <2>4. CASE ~ ok
    BY <2>1, <2>2, <2>4, <1>1, <1>2 DEF PlaceOK, Phases, Loading, splitVars
  <2> QED BY <2>3, <2>4
<1>5. CASE takeLiteral
  BY <1>1, <1>2, <1>5 DEF takeLiteral, PlaceOK, Phases, Loading, Propagating, splitVars, answerVars, theoryVars
<1>6. CASE keepWatch \/ moveWatch \/ propagateUnit
  BY <1>1, <1>2, <1>6
     DEF keepWatch, moveWatch, propagateUnit, visit, PlaceOK, Phases, Loading, splitVars, answerVars, theoryVars
<1>7. CASE falsified
  <2>1. watchers' = {} /\ watchers # {} /\ UNCHANGED <<inputVars, trail_lim, splitVars, stack>>
    BY <1>7 DEF falsified, visit, theoryVars
  <2>2. \/ /\ pc = "unit" /\ ok' = FALSE /\ pc' = "load" /\ UNCHANGED <<seen, conflictC, conflict_frame, status>>
        \/ /\ pc = "watch" /\ ok' = FALSE /\ status' = "l_False" /\ pc' = "done"
           /\ UNCHANGED <<seen, conflictC, conflict_frame>>
        \/ /\ pc = "watch" /\ conflictC' = conflictC + 1 /\ pc' = "analyze"
           /\ UNCHANGED <<ok, conflict_frame, status>>
    BY <1>7 DEF falsified, visit, analyze, zeroLevelConflictHandler, Answer, answerVars
  <2>3. CASE pc = "unit"
    BY <2>1, <2>2, <2>3, <1>1, <1>2 DEF PlaceOK, Phases, Loading, splitVars
  <2>4. CASE pc = "watch" /\ pc' = "done"
    BY <2>1, <2>2, <2>4, <1>1, <1>2 DEF PlaceOK, Phases, Loading, splitVars
  <2>5. CASE pc = "watch" /\ pc' = "analyze"
    BY <2>1, <2>2, <2>5, <1>1, <1>2 DEF PlaceOK, Phases, Loading, splitVars
  <2> QED BY <2>2, <2>3, <2>4, <2>5
<1>8. CASE propagated
  BY <1>1, <1>2, <1>8
     DEF propagated, Propagating, PlaceOK, Phases, Loading, trailVars, splitVars, answerVars, theoryVars
<1>9. CASE resolve
  BY <1>1, <1>2, <1>9 DEF resolve, PlaceOK, Phases, Loading, trailVars, splitVars, answerVars, theoryVars
<1>10. CASE learn
  BY <1>1, <1>2, <1>10 DEF learn, PlaceOK, Phases, Loading, splitVars, answerVars
<1>11. CASE stop
  BY <1>1, <1>2, <1>11 DEF stop, Answer, PlaceOK, Phases, Loading, splitVars
<1>12. CASE restart
  BY <1>1, <1>2, <1>12 DEF restart, PlaceOK, Phases, Loading, splitVars, answerVars
<1>13. CASE simplify \/ removeSatisfied
  BY <1>1, <1>2, <1>13 DEF simplify, removeSatisfied, PlaceOK, Phases, Loading, splitVars, answerVars
<1>14. CASE assertLit
  BY <1>1, <1>2, <1>14 DEF assertLit, InCheck, PlaceOK, Phases, Loading, splitVars, answerVars
<1>15. CASE handleUnsat
  <2>1. InCheck /\ UNCHANGED <<inputVars, watchers, splitVars, conflict_frame>>
    BY <1>15 DEF handleUnsat, Asserted
  <2>2. \/ ok' = FALSE /\ status' = "l_False" /\ pc' = "done" /\ UNCHANGED <<seen, conflictC>>
        \/ conflictC' = conflictC + 1 /\ pc' = "analyze" /\ UNCHANGED <<ok, status>>
    BY <1>15, UnsatStep DEF analyze, zeroLevelConflictHandler, Answer
  <2>3. CASE pc' = "done"
    BY <2>1, <2>2, <2>3, <1>1, <1>2 DEF InCheck, PlaceOK, Phases, Loading, splitVars
  <2>4. CASE pc' = "analyze"
    BY <2>1, <2>2, <2>4, <1>1, <1>2 DEF InCheck, PlaceOK, Phases, Loading, splitVars
  <2> QED BY <2>2, <2>3, <2>4
<1>16. CASE handleSat
  BY <1>1, <1>2, <1>16 DEF handleSat, Accepted, Asserted, InCheck, PlaceOK, Phases, Loading, answerVars
<1>17. CASE deduceTheory
  BY <1>1, <1>2, <1>17 DEF deduceTheory, PlaceOK, Phases, Loading, answerVars
<1>18. CASE handleNewSplitClauses
  BY <1>1, <1>2, <1>18 DEF handleNewSplitClauses, Accepted, PlaceOK, Phases, Loading, answerVars
<1>19. CASE addUnitSplit \/ addSplit
  BY <1>1, <1>2, <1>19 DEF addUnitSplit, addSplit, PlaceOK, Phases, Loading, answerVars
<1>20. CASE enqueueSplits
  BY <1>1, <1>2, <1>20 DEF enqueueSplits, PlaceOK, Phases, Loading, answerVars
<1>21. CASE skipAssumption \/ assume
  BY <1>1, <1>2, <1>21 DEF skipAssumption, assume, NewLevel, PlaceOK, Phases, Loading, splitVars, answerVars
<1>22. CASE analyzeFinal
  <2>1. conflict_frame' \in Nat
    BY <1>22, FrameStep
  <2>2. /\ pc = "decide" /\ ok' = FALSE /\ status' = "l_False" /\ pc' = "done"
        /\ UNCHANGED <<inputVars, watchers, seen, splitVars, conflictC>>
    BY <1>22 DEF analyzeFinal, zeroLevelConflictHandler, Answer
  <2> QED BY <2>1, <2>2, <1>1, <1>2 DEF PlaceOK, Phases, Loading, splitVars
<1>23. CASE pickBranchLit
  BY <1>1, <1>2, <1>23 DEF pickBranchLit, Deciding, NewLevel, PlaceOK, Phases, Loading, splitVars, answerVars
<1>24. CASE complete
  BY <1>1, <1>2, <1>24 DEF complete, Deciding, Answer, PlaceOK, Phases, Loading, splitVars
<1>25. CASE clearSearch
  <2>1. Cuts(0)
    BY <1>25, ZeroStep
  <2>2. trail_lim' = <<>>
    <3>1. trail_lim \in Seq(0..Len(trail))
      BY Typed DEF TypedTrail
    <3> QED BY <2>1, <3>1, SubSeqEmpty DEF Cuts
  <2>3. stack' = <<>>
    <3>1. backtrack(0) /\ 0 \in 0..Len(trail)
      BY <1>25, Typed, Places DEF clearSearch
    <3>2. PICK k \in 0..Len(stack) : k <= 0 /\ stack' = SubSeq(stack, 1, k)
      BY <3>1, BacktrackStep
    <3>3. k = 0
      BY <3>2
    <3> QED BY <3>2, <3>3, SubSeqEmpty
  <2> QED BY <2>2, <2>3, <1>1, <1>25 DEF clearSearch, PlaceOK, Phases, Loading, splitVars
<1>26. CASE UNCHANGED vars
  BY <1>1, <1>2, <1>26
     DEF vars, PlaceOK, Phases, Loading, trailVars, splitVars, answerVars, theoryVars
<1> QED
  BY <1>3, <1>4, <1>5, <1>6, <1>7, <1>8, <1>9, <1>10, <1>11, <1>12, <1>13, <1>14, <1>15, <1>16, <1>17, <1>18, <1>19,
     <1>20, <1>21, <1>22, <1>23, <1>24, <1>25, <1>26 DEF Next

-----------------------------------------------------------------------------
(* The atoms of which the theory was told.                                 *)

OriginalAtom(v) == \E i \in DOMAIN db : ~ db[i].learnt /\ \E l \in LitsOf(db[i]) : l.tr = v
BottomAtom(v) == \E i \in DOMAIN trail : trail[i].level = 0 /\ trail[i].lit.tr = v
SplitAtom(v) == \E k \in DOMAIN new_splits : \E l \in new_splits[k] : l.tr = v

\* Where a known atom occurs.
LEMMA KnownParts ==
    ASSUME NEW v
    PROVE  /\ v \in Known <=> OriginalAtom(v) \/ BottomAtom(v) \/ SplitAtom(v)
           /\ v \in Known' <=> OriginalAtom(v)' \/ BottomAtom(v)' \/ SplitAtom(v)'
BY DEF Known, OriginalAtom, BottomAtom, SplitAtom

\* Storing a clause that is not learnt makes the atoms of that clause original.
LEMMA OriginalsMore ==
    ASSUME StepInv, NEW S \in SUBSET Literal, Stores(S, FALSE), NEW v
    PROVE  OriginalAtom(v)' <=> OriginalAtom(v) \/ \E l \in S : l.tr = v
<1> DEFINE n == Len(db)
<1>1. /\ DOMAIN db' = 1..(n + 1) /\ \A j \in DOMAIN db : j \in DOMAIN db' /\ db'[j] = db[j]
      /\ LitsOf(db'[n + 1]) = S /\ db'[n + 1].learnt = FALSE
  BY StoresEffect
<1>2. n \in Nat /\ DOMAIN db = 1..n
  BY Clauses DEF StepInv
<1>3. \A j \in DOMAIN db' : j \in DOMAIN db \/ j = n + 1
  BY <1>1, <1>2
<1>4. n + 1 \in DOMAIN db'
  BY <1>1, <1>2
<1> HIDE DEF n
<1>5. ASSUME OriginalAtom(v)' PROVE OriginalAtom(v) \/ \E l \in S : l.tr = v
  <2>1. PICK i \in DOMAIN db' : ~ db'[i].learnt /\ \E l \in LitsOf(db'[i]) : l.tr = v
    BY <1>5 DEF OriginalAtom, LitsOf
  <2>2. CASE i \in DOMAIN db
    BY <2>1, <2>2, <1>1 DEF OriginalAtom
  <2>3. CASE i = n + 1
    BY <2>1, <2>3, <1>1
  <2> QED BY <2>2, <2>3, <1>3
<1>6. ASSUME OriginalAtom(v) PROVE OriginalAtom(v)'
  <2>1. PICK i \in DOMAIN db : ~ db[i].learnt /\ \E l \in LitsOf(db[i]) : l.tr = v
    BY <1>6 DEF OriginalAtom
  <2>2. i \in DOMAIN db' /\ ~ db'[i].learnt /\ \E l \in LitsOf(db'[i]) : l.tr = v
    BY <2>1, <1>1
  <2> QED BY <2>2 DEF OriginalAtom, LitsOf
<1>7. ASSUME NEW l \in S, l.tr = v PROVE OriginalAtom(v)'
  <2>1. n + 1 \in DOMAIN db' /\ ~ db'[n + 1].learnt /\ \E m \in LitsOf(db'[n + 1]) : m.tr = v
    BY <1>1, <1>4, <1>7
  <2> QED BY <2>1 DEF OriginalAtom, LitsOf
<1> QED BY <1>5, <1>6, <1>7

\* Learning, reordering and removing learnt clauses make no atom original.
LEMMA OriginalsSame ==
    ASSUME StepInv, NEW v,
           \/ db' = db
           \/ \E S \in SUBSET Literal : Stores(S, TRUE)
           \/ \E i \in watchers : Reorders(i)
           \/ \E i \in DOMAIN db : db[i].learnt /\ db' = RemoveAt(db, i)
    PROVE  OriginalAtom(v)' <=> OriginalAtom(v)
<1>1. CASE db' = db
  BY <1>1 DEF OriginalAtom, LitsOf
<1>2. ASSUME NEW S \in SUBSET Literal, Stores(S, TRUE) PROVE OriginalAtom(v)' <=> OriginalAtom(v)
  <2>1. /\ DOMAIN db' = 1..(Len(db) + 1) /\ \A j \in DOMAIN db : j \in DOMAIN db' /\ db'[j] = db[j]
        /\ db'[Len(db) + 1].learnt = TRUE
    BY <1>2, StoresEffect
  <2>2. \A j \in DOMAIN db' : j \in DOMAIN db \/ j = Len(db) + 1
    BY <2>1, Clauses DEF StepInv
  <2> QED BY <2>1, <2>2 DEF OriginalAtom, LitsOf
<1>3. ASSUME NEW i \in watchers, Reorders(i) PROVE OriginalAtom(v)' <=> OriginalAtom(v)
  <2>1. DOMAIN db' = DOMAIN db /\ \A j \in DOMAIN db : LitsOf(db'[j]) = LitsOf(db[j]) /\ db'[j].learnt = db[j].learnt
    BY <1>3, ReordersEffect
  <2>2. OriginalAtom(v)' <=> \E j \in DOMAIN db' : ~ db'[j].learnt /\ \E l \in LitsOf(db'[j]) : l.tr = v
    BY DEF OriginalAtom, LitsOf
  <2> QED BY <2>1, <2>2 DEF OriginalAtom
<1>4. ASSUME NEW i \in DOMAIN db, db[i].learnt, db' = RemoveAt(db, i) PROVE OriginalAtom(v)' <=> OriginalAtom(v)
  <2>1. /\ \A j \in DOMAIN db' : \E k \in DOMAIN db : db'[j] = db[k]
        /\ \A k \in DOMAIN db : k # i => \E j \in DOMAIN db' : db'[j] = db[k]
    BY <1>4, RemovesEffect
  <2>2. OriginalAtom(v)' <=> \E j \in DOMAIN db' : ~ db'[j].learnt /\ \E l \in LitsOf(db'[j]) : l.tr = v
    BY DEF OriginalAtom, LitsOf
  <2>3. ASSUME OriginalAtom(v)' PROVE OriginalAtom(v)
    <3>1. PICK j \in DOMAIN db' : ~ db'[j].learnt /\ \E l \in LitsOf(db'[j]) : l.tr = v
      BY <2>2, <2>3
    <3>2. PICK k \in DOMAIN db : db'[j] = db[k]
      BY <2>1
    <3> QED BY <3>1, <3>2 DEF OriginalAtom
  <2>4. ASSUME OriginalAtom(v) PROVE OriginalAtom(v)'
    <3>1. PICK k \in DOMAIN db : ~ db[k].learnt /\ \E l \in LitsOf(db[k]) : l.tr = v
      BY <2>4 DEF OriginalAtom
    <3>2. k # i
      BY <3>1, <1>4
    <3>3. PICK j \in DOMAIN db' : db'[j] = db[k]
      BY <3>2, <2>1
    <3> QED BY <3>1, <3>3, <2>2
  <2> QED BY <2>3, <2>4
<1> QED BY <1>1, <1>2, <1>3, <1>4

\* No atom of an original clause, and none that is assigned at level 0, is ever lost.
LEMMA AtomsStay ==
    ASSUME StepInv, [Next]_vars, NEW v
    PROVE  (OriginalAtom(v) => OriginalAtom(v)') /\ (BottomAtom(v) => BottomAtom(v)')
<1>1. ASSUME OriginalAtom(v) PROVE OriginalAtom(v)'
  <2>1. CASE \E S \in SUBSET Literal, b \in BOOLEAN : Stores(S, b)
    <3>1. PICK S \in SUBSET Literal, b \in BOOLEAN : Stores(S, b)
      BY <2>1
    <3>2. CASE b = TRUE
      BY <3>1, <3>2, <1>1, OriginalsSame
    <3>3. CASE b = FALSE
      BY <3>1, <3>3, <1>1, OriginalsMore
    <3> QED BY <3>2, <3>3
  <2>2. seen \in SUBSET Literal /\ DbMoves
    BY DbStep DEF StepInv, TypeOK
  <2> QED BY <2>1, <2>2, <1>1, DbKinds, OriginalsSame
<1>2. ASSUME BottomAtom(v) PROVE BottomAtom(v)'
  <2>1. PICK i \in DOMAIN trail : trail[i].level = 0 /\ trail[i].lit.tr = v
    BY <1>2 DEF BottomAtom
  <2>2. TypedTrail(trail, trail_lim) /\ Len(trail) \in Nat /\ DOMAIN trail = 1..Len(trail)
    BY Typed, Places
  <2>3. ASSUME NEW n \in Nat, Keeps(n), i <= n PROVE BottomAtom(v)'
    <3>1. trail' \in Seq(Entry)
      BY TrailTyped DEF TypedTrail
    <3>2. i \in DOMAIN trail' /\ trail'[i] = trail[i]
      BY <3>1, <2>2, <2>3 DEF Keeps
    <3> QED BY <3>2, <2>1 DEF BottomAtom
  <2>4. CASE Keeps(Len(trail))
    BY <2>2, <2>3, <2>4
  <2>5. ASSUME NEW k \in 0..decisionLevel, Cancels(k) PROVE BottomAtom(v)'
    <3>1. Keeps(KeptAt(k)) /\ KeptAt(k) \in Nat
      BY <2>2, <2>5, KeepsCut DEF Cancels
    <3>2. i <= KeptAt(k)
      <4>1. k \in Nat /\ trail[i].level <= k
        BY <2>1, <2>2, Places
      <4>2. \A j \in DOMAIN trail : j <= KeptAt(k) <=> trail[j].level <= k
        BY <2>2, KeptPart
      <4> QED BY <2>1, <4>1, <4>2
    <3> QED BY <3>1, <3>2, <2>3
  <2>6. CASE UNCHANGED <<order_heap, trailVars>>
    BY <2>6, <1>2 DEF trailVars, BottomAtom
  <2> QED BY <2>4, <2>5, <2>6, TrailGrows, CancelStep
<1> QED BY <1>1, <1>2

\* A cut takes atoms from the trail, the other steps bring one atom to it.
LEMMA AtomsCut ==
    ASSUME StepInv, (trail' = trail) \/ (\E k \in 0..decisionLevel : Cuts(k)), NEW v
    PROVE  (v \in Assigned' => v \in Assigned) /\ (BottomAtom(v)' => BottomAtom(v))
<1>1. CASE trail' = trail
  BY <1>1 DEF Assigned, BottomAtom
<1>2. ASSUME NEW k \in 0..decisionLevel, Cuts(k)
      PROVE  (v \in Assigned' => v \in Assigned) /\ (BottomAtom(v)' => BottomAtom(v))
  <2>1. \A i \in DOMAIN trail' : i \in DOMAIN trail /\ trail'[i] = trail[i]
    BY <1>2, Typed, KeptEntries DEF Cuts
  <2> QED BY <2>1 DEF Assigned, BottomAtom
<1> QED BY <1>1, <1>2

\* Adding a literal assigns its atom and no other.
LEMMA AtomsAdd ==
    ASSUME StepInv, NEW k, NEW l, NEW from, Adds(k, l, from), NEW v
    PROVE  /\ v \in Assigned' => v \in Assigned \/ v = l.tr
           /\ BottomAtom(v)' => BottomAtom(v) \/ v = l.tr
           /\ k = 0 => BottomAtom(l.tr)'
<1>1. k \in 0..decisionLevel /\ l \in Literal /\ from \in Reasons /\ k \in Nat
  BY Typed, Places DEF Adds, Addable
<1>2. Kept(k) \in Seq(Entry) /\ \A i \in DOMAIN Kept(k) : i \in DOMAIN trail /\ Kept(k)[i] = trail[i]
  BY <1>1, Typed, KeptPart, KeptEntries
<1> DEFINE e == [lit |-> l, level |-> k, reason |-> from]
           n == Len(Kept(k))
<1>3. e \in Entry /\ e.lit = l /\ e.level = k
  BY <1>1 DEF Entry
<1>4. trail' = Append(Kept(k), e)
  BY DEF Adds, Enqueued
<1> HIDE DEF e
<1>5. /\ DOMAIN trail' = 1..(n + 1) /\ \A i \in 1..n : trail'[i] = Kept(k)[i]
      /\ trail'[n + 1] = e /\ n \in Nat /\ DOMAIN Kept(k) = 1..n
  BY <1>2, <1>3, <1>4, AppendProperties, LenProperties
<1>6. \A i \in DOMAIN trail' : i = n + 1 \/ i \in 1..n
  BY <1>5
<1>7. \A i \in DOMAIN trail' : trail'[i] = e \/ (i \in DOMAIN trail /\ trail'[i] = trail[i])
  BY <1>2, <1>5, <1>6
<1>8. n + 1 \in DOMAIN trail'
  BY <1>5
<1> HIDE DEF n
<1>9. v \in Assigned' => v \in Assigned \/ v = l.tr
  BY <1>3, <1>7 DEF Assigned
<1>10. BottomAtom(v)' => BottomAtom(v) \/ v = l.tr
  BY <1>3, <1>7 DEF BottomAtom
<1>11. k = 0 => BottomAtom(l.tr)'
  BY <1>3, <1>5, <1>8 DEF BottomAtom
<1> QED BY <1>9, <1>10, <1>11

\* So does deciding one, and it adds nothing to level 0.
LEMMA AtomsDecide ==
    ASSUME StepInv, NEW l, Decides(l), NEW v
    PROVE  (v \in Assigned' => v \in Assigned \/ v = l.tr) /\ (BottomAtom(v)' => BottomAtom(v))
<1>1. l \in Literal /\ trail \in Seq(Entry) /\ decisionLevel \in Nat /\ Len(trail) \in Nat
  BY Typed, Places DEF Decides, TypedTrail
<1> DEFINE e == [lit |-> l, level |-> decisionLevel + 1, reason |-> CRef_Undef]
<1>2. e \in Entry /\ e.lit = l /\ e.level # 0
  BY <1>1 DEF Entry, Reasons
<1>3. trail' = Append(trail, e)
  BY DEF Decides, Enqueued
<1> HIDE DEF e
<1>4. /\ DOMAIN trail' = 1..(Len(trail) + 1) /\ \A i \in 1..Len(trail) : trail'[i] = trail[i]
      /\ trail'[Len(trail) + 1] = e /\ DOMAIN trail = 1..Len(trail)
  BY <1>1, <1>2, <1>3, AppendProperties, LenProperties
<1>5. \A i \in DOMAIN trail' : i = Len(trail) + 1 \/ i \in 1..Len(trail)
  BY <1>1, <1>4
<1>6. \A i \in DOMAIN trail' : trail'[i] = e \/ (i \in DOMAIN trail /\ trail'[i] = trail[i])
  BY <1>4, <1>5
<1>7. v \in Assigned' => v \in Assigned \/ v = l.tr
  BY <1>2, <1>6 DEF Assigned
<1>8. BottomAtom(v)' => BottomAtom(v)
  BY <1>2, <1>6 DEF BottomAtom
<1> QED BY <1>7, <1>8

\* Where the lists of split clauses and of what they imply change.
LEMMA ListsChange ==
    ASSUME [Next]_vars
    PROVE  /\ new_splits' = new_splits \/ handleNewSplitClauses \/ addUnitSplit \/ addSplit
           /\ propData' = propData \/ handleNewSplitClauses \/ addUnitSplit \/ enqueueSplits
<1>1. CASE Next
  BY <1>1 DEF Next, addOriginalClause_, solve_, takeLiteral, keepWatch, moveWatch, propagateUnit, falsified, visit,
              propagated, resolve, learn, stop, restart, simplify, removeSatisfied, assertLit, handleUnsat,
              handleSat, deduceTheory, addSplit, enqueueSplits, skipAssumption, assume, analyzeFinal, pickBranchLit,
              complete, clearSearch, splitVars
<1> QED BY SMTT(30), <1>1 DEF vars, splitVars

\* The atoms of the split clauses to come: they are fetched, or they were there.
LEMMA SplitAtoms ==
    ASSUME StepInv, [Next]_vars, NEW v
    PROVE  /\ SplitAtom(v)' => SplitAtom(v) \/ handleNewSplitClauses
           /\ SplitAtom(v) => SplitAtom(v)' \/ (new_splits # <<>> /\ \E l \in Head(new_splits) : l.tr = v)
<1>1. new_splits \in Seq(SUBSET Literal) /\ Phases
  BY DEF StepInv, TypeOK
<1>2. CASE new_splits' = new_splits
  BY <1>2 DEF SplitAtom
<1>3. CASE handleNewSplitClauses
  <2>1. new_splits = <<>>
    BY <1>1, <1>3 DEF handleNewSplitClauses, Phases
  <2> QED BY <2>1, <1>3 DEF SplitAtom
<1>4. CASE addUnitSplit \/ addSplit
  <2>1. new_splits # <<>> /\ new_splits' = Tail(new_splits)
    BY <1>4 DEF addUnitSplit, addSplit
  <2>2. /\ \A k \in DOMAIN new_splits' : k + 1 \in DOMAIN new_splits /\ new_splits'[k] = new_splits[k + 1]
        /\ \A k \in DOMAIN new_splits :
              new_splits[k] = Head(new_splits) \/ \E j \in DOMAIN new_splits' : new_splits'[j] = new_splits[k]
    BY <2>1, <1>1, OneLess
  <2> QED BY <2>1, <2>2 DEF SplitAtom
<1> QED BY <1>2, <1>3, <1>4, ListsChange

\* The atoms of the next split clause are those of a split clause.
LEMMA HeadAtoms ==
    ASSUME StepInv, new_splits # <<>>, NEW l \in Head(new_splits)
    PROVE  SplitAtom(l.tr) /\ l.tr \in Known
<1>1. Head(new_splits) = new_splits[1] /\ 1 \in DOMAIN new_splits
  BY SplitTyped DEF StepInv
<1>2. SplitAtom(l.tr)
  BY <1>1 DEF SplitAtom
<1> QED BY <1>2, KnownParts

\* What the declarations would find, they find later as well: a split clause is stored, or its atoms are
\* assigned at level 0.
LEMMA KnownMore ==
    ASSUME StepInv, [Next]_vars, NEW v \in Known
    PROVE  v \in Known'
<1>1. CASE OriginalAtom(v) \/ BottomAtom(v)
  BY <1>1, AtomsStay, KnownParts
<1>2. CASE SplitAtom(v)'
  BY <1>2, KnownParts
<1>3. ASSUME new_splits # <<>>, NEW l \in Head(new_splits), l.tr = v, ~ SplitAtom(v)' PROVE v \in Known'
  <2>1. CASE new_splits' = new_splits
    <3>1. SplitAtom(v)
      BY <1>3, HeadAtoms
    <3> QED BY <2>1, <3>1, <1>3 DEF SplitAtom
  <2>2. CASE handleNewSplitClauses
    BY <2>2, <1>3 DEF handleNewSplitClauses, StepInv, Phases
  <2>3. CASE Stores(Head(new_splits), FALSE)
    <3>1. Head(new_splits) \in SUBSET Literal
      BY <1>3, SplitClause
    <3>2. OriginalAtom(v)'
      BY <2>3, <3>1, <1>3, OriginalsMore
    <3> QED BY <3>2, KnownParts
  <2>4. CASE addSplit
    BY <2>3, <2>4, OtherSplitClause
  <2>5. CASE addUnitSplit
    <3>1. PICK implied \in Head(new_splits) :
              LET rest == Head(new_splits) \ {implied}
                  level == backtrackLevel(rest)
              IN  /\ \A m \in rest : FalseNow(m) /\ LevelOf(m) <= level
                  /\ level = 0 => Adds(0, implied, CRef_Undef)
                  /\ level # 0 =>
                        db' = Append(db, [lits |-> <<implied>> \o SetToSeq(rest), learnt |-> FALSE])
      BY <2>5, UnitSplitStep
    <3> DEFINE rest == Head(new_splits) \ {implied}
    <3>2. CASE backtrackLevel(rest) # 0
      <4>1. Stores(Head(new_splits), FALSE)
        BY <3>1, <3>2, <1>3, UnitSplitClause
      <4> QED BY <4>1, <2>3
    <3>3. CASE backtrackLevel(rest) = 0
      <4>1. CASE l = implied
        <5>1. BottomAtom(implied.tr)'
          BY <3>1, <3>3, AtomsAdd
        <5> QED BY <5>1, <4>1, <1>3, KnownParts
      <4>2. CASE l # implied
        <5>1. FalseNow(l) /\ LevelOf(l) <= 0
          BY <3>1, <3>3, <4>2
        <5>2. l \in Literal
          BY <1>3, SplitClause
        <5>3. l.tr \in Assigned /\ LevelOf(l) \in 0..decisionLevel /\ decisionLevel \in Nat
          BY <5>1, <5>2, Typed, Places
        <5>4. EntryOf(l.tr) \in DOMAIN trail /\ trail[EntryOf(l.tr)].lit.tr = l.tr
          BY <5>3, Typed, Places
        <5>5. LevelOf(l) = 0
          BY <5>1, <5>3
        <5>6. BottomAtom(l.tr)
          BY <5>4, <5>5 DEF BottomAtom, LevelOf
        <5> QED BY <5>6, <1>1, <1>3
      <4> QED BY <4>1, <4>2
    <3> QED BY <3>2, <3>3
  <2> QED BY <2>1, <2>2, <2>4, <2>5, ListsChange
<1> QED BY <1>1, <1>2, <1>3, KnownParts, SplitAtoms

\* An atom of the theory that comes to the trail was found by the declarations, unless it is loaded.
LEMMA Comers ==
    ASSUME StepInv, [Next]_vars, ~ addOriginalClause_, NEW v \in problem.theory, v \in Assigned'
    PROVE  v \in Known
<1>1. Declared /\ Phases /\ seen \in SUBSET Literal
  BY DEF StepInv, TypeOK
<1>2. CASE v \in Assigned
  BY <1>1, <1>2 DEF Declared
<1>3. CASE (trail' = trail) \/ (\E k \in 0..decisionLevel : Cuts(k))
  BY <1>2, <1>3, AtomsCut
<1>4. ASSUME NEW k, NEW l, NEW from, Adds(k, l, from), l.tr \in problem.theory => l.tr \in Known PROVE v \in Known
  BY <1>2, <1>4, AtomsAdd
<1>5. ASSUME NEW l, Decides(l), l.tr \in problem.theory => l.tr \in Known PROVE v \in Known
  BY <1>2, <1>5, AtomsDecide
<1>6. CASE propagateUnit
  <2>1. PICK i \in watchers : Adds(decisionLevel, Visited(i)[1], LitsOf(db[i]) \ {Visited(i)[1]})
    BY <1>6, PropagateStep
  <2>2. Visited(i)[1] \in LitsOf(db[i]) /\ i \in DOMAIN db
    BY Visit DEF StepInv, TypeOK
  <2>3. Visited(i)[1].tr \in problem.theory => Visited(i)[1].tr \in Known
    BY <2>2, <1>1 DEF Declared
  <2> QED BY <2>1, <2>3, <1>4
<1>7. CASE learn
  <2>1. PICK asserting \in Open :
            Adds(backtrackLevel(Rest), asserting, IF Rest = {} THEN CRef_Undef ELSE Rest)
    BY <1>7, LearnStep
  <2>2. asserting.tr \in Assigned
    BY SeenPlaces DEF Open
  <2> QED BY <2>1, <2>2, <1>1, <1>4 DEF Declared
<1>8. CASE deduceTheory /\ trail' # trail
  <2>1. /\ deductions_next + 1 \in DOMAIN th_deductions
        /\ Adds(decisionLevel, th_deductions[deductions_next + 1], CRef_Fake)
    BY <1>8, DeduceStep
  <2> QED BY <2>1, <1>1, <1>4 DEF Declared
<1>9. CASE addUnitSplit
  <2>1. new_splits # <<>>
    BY <1>9 DEF addUnitSplit
  <2>2. PICK implied \in Head(new_splits) :
            \/ \E k \in 0..decisionLevel : Cuts(k)
            \/ Adds(0, implied, CRef_Undef)
    BY <1>9, UnitSplitStep
  <2>3. implied.tr \in Known
    BY <2>1, HeadAtoms
  <2> QED BY <2>2, <2>3, <1>3, <1>4
<1>10. CASE enqueueSplits /\ trail' # trail
  <2>1. propData # <<>> /\ Adds(decisionLevel, Head(propData).lit, Head(propData).reason)
    BY <1>10, EnqueueSplitStep
  <2>2. Head(propData) = propData[1] /\ 1 \in DOMAIN propData
    BY <2>1, PropTyped DEF StepInv
  <2> QED BY <2>1, <2>2, <1>1, <1>4 DEF Declared
<1>11. CASE assume
  <2>1. Decides(assumptions[decisionLevel + 1])
    BY <1>11, DecideStep
  <2>2. decisionLevel + 1 \in DOMAIN assumptions
    BY <1>11, Typed, Places, Asked DEF assume, StepInv
  <2>3. assumptions[decisionLevel + 1].tr \notin problem.theory
    BY <2>2, Asked DEF StepInv
  <2> QED BY <2>1, <2>3, <1>5
<1>12. CASE pickBranchLit
  <2>1. PICK w \in Candidates, sgn \in BOOLEAN : Decides([tr |-> w, sgn |-> sgn])
    BY <1>12, DecideStep
  <2>2. w \in decision /\ ~ Loading
    BY <1>12 DEF Candidates, pickBranchLit, Deciding, Loading
  <2>3. w \in problem.theory => w \in Known
    BY <2>2, <1>1 DEF Declared
  <2>4. [tr |-> w, sgn |-> sgn].tr = w
    OBVIOUS
  <2> QED BY <2>1, <2>3, <2>4, <1>5
<1>13. CASE stop \/ restart \/ clearSearch \/ handleUnsat
  <2>1. (trail' = trail) \/ \E k : Cuts(k)
    BY <1>13, ZeroStep, UnsatStep DEF trailVars
  <2> QED BY <2>1, <1>3 DEF Cuts
<1>14. CASE solve_ \/ takeLiteral \/ keepWatch \/ moveWatch \/ falsified \/ propagated \/ resolve \/ simplify
  BY <1>3, <1>14
     DEF solve_, takeLiteral, keepWatch, moveWatch, visit, falsified, propagated, resolve, simplify, trailVars
<1>15. CASE removeSatisfied \/ assertLit \/ handleSat \/ handleNewSplitClauses \/ addSplit
  BY <1>3, <1>15 DEF removeSatisfied, assertLit, handleSat, handleNewSplitClauses, addSplit, trailVars
<1>16. CASE skipAssumption \/ analyzeFinal \/ complete
  BY <1>3, <1>16 DEF skipAssumption, analyzeFinal, complete, trailVars
<1>17. CASE UNCHANGED vars
  BY <1>3, <1>17 DEF vars, trailVars
<1> QED
  BY <1>3, <1>6, <1>7, <1>8, <1>9, <1>10, <1>11, <1>12, <1>13, <1>14, <1>15, <1>16, <1>17 DEF Next

\* Nothing else becomes known.
LEMMA KnownLess ==
    ASSUME StepInv, [Next]_vars, ~ addOriginalClause_, NEW v \in problem.theory, v \in Known'
    PROVE  v \in Known \/ (handleNewSplitClauses /\ SplitAtom(v)')
<1>1. seen \in SUBSET Literal /\ DbMoves
  BY DbStep DEF StepInv, TypeOK
<1>2. CASE OriginalAtom(v)'
  <2>1. CASE new_splits # <<>> /\ Head(new_splits) \in SUBSET Literal /\ Stores(Head(new_splits), FALSE)
    <3>1. OriginalAtom(v) \/ \E l \in Head(new_splits) : l.tr = v
      BY <2>1, <1>2, OriginalsMore
    <3> QED BY <3>1, <2>1, HeadAtoms, KnownParts
  <2>2. ASSUME NEW S \in SUBSET seen, Stores(S, TRUE) PROVE v \in Known
    <3>1. S \in SUBSET Literal
      BY <1>1
    <3> QED BY <3>1, <2>2, <1>2, OriginalsSame, KnownParts
  <2> QED BY <2>1, <2>2, <1>1, <1>2, OriginalsSame, KnownParts DEF DbMoves
<1>3. CASE BottomAtom(v)'
  <2>1. v \in Assigned'
    BY <1>3 DEF BottomAtom, Assigned
  <2> QED BY <2>1, Comers
<1>4. CASE SplitAtom(v)'
  BY <1>4, SplitAtoms, KnownParts
<1> QED BY <1>2, <1>3, <1>4, KnownParts

\* Loading ends when the search begins.
LEMMA LoadingStep ==
    ASSUME [Next]_vars
    PROVE  /\ Loading => Loading' \/ solve_
           /\ addOriginalClause_ => Loading'
           /\ solve_ => Loading /\ pc # "split"
<1>1. addOriginalClause_ => Loading'
  BY DEF addOriginalClause_, Loading
<1>2. solve_ => Loading /\ pc # "split"
  BY DEF solve_, Loading
<1>3. CASE takeLiteral \/ keepWatch \/ moveWatch \/ propagateUnit \/ falsified \/ propagated
  BY <1>1, <1>2, <1>3
     DEF takeLiteral, keepWatch, moveWatch, propagateUnit, falsified, propagated, Propagating, Loading
<1>4. CASE resolve \/ learn \/ stop \/ restart \/ simplify \/ removeSatisfied \/ clearSearch
  BY <1>1, <1>2, <1>4 DEF resolve, learn, stop, restart, simplify, removeSatisfied, clearSearch, Loading
<1>5. CASE assertLit \/ handleUnsat \/ handleSat \/ deduceTheory \/ handleNewSplitClauses
  BY <1>1, <1>2, <1>5
     DEF assertLit, handleUnsat, handleSat, Accepted, Asserted, InCheck, deduceTheory, handleNewSplitClauses, Loading
<1>6. CASE addUnitSplit \/ addSplit \/ enqueueSplits \/ skipAssumption \/ assume \/ analyzeFinal
  BY <1>1, <1>2, <1>6 DEF addUnitSplit, addSplit, enqueueSplits, skipAssumption, assume, analyzeFinal, Loading
<1>7. CASE pickBranchLit \/ complete
  BY <1>1, <1>2, <1>7 DEF pickBranchLit, complete, Deciding, Loading
<1>8. CASE UNCHANGED vars
  BY <1>1, <1>2, <1>8 DEF vars, Loading
<1> QED BY <1>1, <1>2, <1>3, <1>4, <1>5, <1>6, <1>7, <1>8 DEF Next

\* The theory is told atoms when the search begins and when it splits.
LEMMA InformedStep ==
    ASSUME [Next]_vars
    PROVE  /\ informed' = informed \/ solve_ \/ handleNewSplitClauses
           /\ decision' = decision \/ solve_ \/ handleNewSplitClauses \/ addOriginalClause_
<1>1. ASSUME NEW n, backtrack(n) PROVE informed' = informed
  BY <1>1 DEF backtrack, tsolverVars
<1>2. ASSUME NEW k, cancelUntil(k) PROVE informed' = informed
  BY <1>1, <1>2 DEF cancelUntil, theoryVars, tsolverVars
<1>3. CASE addOriginalClause_ \/ takeLiteral \/ keepWatch \/ moveWatch \/ propagateUnit \/ falsified \/ propagated
  BY <1>3
     DEF addOriginalClause_, takeLiteral, keepWatch, moveWatch, propagateUnit, falsified, visit, propagated,
         clauseVars, theoryVars, tsolverVars
<1>4. CASE learn \/ stop \/ restart \/ clearSearch \/ addUnitSplit
  BY <1>1, <1>2, <1>4 DEF learn, stop, restart, clearSearch, addUnitSplit
<1>5. CASE resolve \/ simplify \/ removeSatisfied \/ assertLit \/ handleSat \/ deduceTheory
  BY <1>5
     DEF resolve, simplify, removeSatisfied, assertLit, handleSat, deduceTheory, clauseVars, theoryVars, tsolverVars
<1>6. CASE handleUnsat
  BY <1>2, <1>6 DEF handleUnsat
<1>7. CASE addSplit \/ enqueueSplits \/ skipAssumption \/ assume \/ analyzeFinal \/ pickBranchLit \/ complete
  BY <1>7
     DEF addSplit, enqueueSplits, skipAssumption, assume, analyzeFinal, pickBranchLit, complete, clauseVars,
         theoryVars, tsolverVars
<1>8. CASE UNCHANGED vars
  BY <1>8 DEF vars, clauseVars, theoryVars, tsolverVars
<1> QED BY <1>3, <1>4, <1>5, <1>6, <1>7, <1>8 DEF Next

\* Going back takes deductions away.
LEMMA DeductionsCut ==
    ASSUME StepInv, (UNCHANGED th_deductions) \/ (\E n \in 0..Len(trail) : backtrack(n)),
           NEW d \in DOMAIN th_deductions'
    PROVE  th_deductions'[d].tr \in informed
<1>1. \A e \in DOMAIN th_deductions : th_deductions[e].tr \in informed
  BY DEF StepInv, Declared
<1>2. CASE UNCHANGED th_deductions
  BY <1>1, <1>2
<1>3. ASSUME NEW n \in 0..Len(trail), backtrack(n) PROVE th_deductions'[d].tr \in informed
  <2>1. PICK m \in 0..Len(given) : TheoryCut(m)
    BY <1>3, BacktrackStep
  <2>2. CASE m = Len(given)
    BY <2>1, <2>2, <1>2 DEF TheoryCut
  <2>3. CASE m # Len(given)
    <3>1. /\ th_deductions \in Seq(Literal) /\ deductions_marks \in Seq([lim : Nat, next : Nat])
          /\ Len(deductions_marks) = Len(given) /\ given \in Seq(Literal)
          /\ \A i \in DOMAIN deductions_marks : deductions_marks[i].lim <= Len(th_deductions)
      BY DEF StepInv, TypeOK, TSolverTypeOK, TheoryMirrorsTrail, Marks
    <3>2. m + 1 \in DOMAIN deductions_marks /\ m + 1 \in 1..Len(deductions_marks)
      BY <3>1, <2>3
    <3> DEFINE n2 == deductions_marks[m + 1].lim
               M == [lim : Nat, next : Nat]
    <3>3. n2 \in 0..Len(th_deductions)
      <4>1. deductions_marks \in Seq(M) /\ \A x \in M : x.lim \in Nat
        BY <3>1
      <4> HIDE DEF M
      <4>2. n2 \in Nat
        BY <4>1, <3>2, ElementOfSeq
      <4> QED BY <4>2, <3>1, <3>2
    <3>4. th_deductions' = SubSeq(th_deductions, 1, n2)
      BY <2>1, <2>3 DEF TheoryCut
    <3> HIDE DEF n2
    <3>5. d \in DOMAIN th_deductions /\ th_deductions'[d] = th_deductions[d]
      BY <3>1, <3>3, <3>4
    <3> QED BY <3>5, <1>1
  <2> QED BY <2>2, <2>3
<1> QED BY <1>2, <1>3

\* What the theory deduces is about atoms it was told.
LEMMA DeductionsStep ==
    ASSUME StepInv, [Next]_vars, NEW d \in DOMAIN th_deductions', ~ solve_
    PROVE  th_deductions'[d].tr \in informed
<1>1. CASE UNCHANGED th_deductions
  BY <1>1, DeductionsCut
<1>2. ASSUME NEW k, cancelUntil(k), k \in 0..decisionLevel PROVE th_deductions'[d].tr \in informed
  <2>1. KeptAt(k) \in 0..Len(trail)
    BY <1>2, Typed, KeptPart
  <2>2. CASE decisionLevel > k
    BY <2>1, <2>2, <1>2, DeductionsCut DEF cancelUntil
  <2>3. CASE ~ (decisionLevel > k)
    BY <2>3, <1>1, <1>2 DEF cancelUntil, theoryVars, tsolverVars
  <2> QED BY <2>2, <2>3
<1>3. CASE assertLit
  <2>1. CASE UNCHANGED th_deductions
    BY <2>1, <1>1
  <2>2. CASE ~ UNCHANGED th_deductions
    <3>1. PICK some \in SUBSET Deducible(Given \cup {trail[Len(stack) + 1].lit}) : StoreDeductions(SetToSeq(some))
      BY <2>2, <1>3 DEF assertLit, tsolverVars
    <3>2. some \in SUBSET Literal /\ \A l \in some : l.tr \in informed
      BY DEF Deducible
    <3> DEFINE s == SetToSeq(some)
    <3>3. s \in Seq(Literal) /\ LitsIn(s) = some /\ Len(s) \in Nat
      BY <3>2, Listed
    <3>4. th_deductions' = th_deductions \o s
      BY <3>1 DEF StoreDeductions
    <3> HIDE DEF s
    <3>5. th_deductions \in Seq(Literal) /\ Len(th_deductions) \in Nat /\ DOMAIN th_deductions = 1..Len(th_deductions)
      BY DEF StepInv, TypeOK, TSolverTypeOK
    <3>6. DOMAIN th_deductions' = 1..(Len(th_deductions) + Len(s))
      BY <3>3, <3>4, <3>5
    <3>7. \A k \in 1..(Len(th_deductions) + Len(s)) :
              (th_deductions \o s)[k] = IF k <= Len(th_deductions) THEN th_deductions[k]
                                         ELSE s[k - Len(th_deductions)]
      BY <3>3, <3>5, ConcatProperties
    <3>8. CASE d <= Len(th_deductions)
      <4>1. d \in DOMAIN th_deductions /\ th_deductions'[d] = th_deductions[d]
        BY <3>4, <3>5, <3>6, <3>7, <3>8
      <4> QED BY <4>1 DEF StepInv, Declared
    <3>9. CASE ~ (d <= Len(th_deductions))
      <4>1. d - Len(th_deductions) \in DOMAIN s /\ th_deductions'[d] = s[d - Len(th_deductions)]
        BY <3>3, <3>4, <3>5, <3>6, <3>7, <3>9
      <4>2. th_deductions'[d] \in some
        BY <4>1, <3>3 DEF LitsIn
      <4> QED BY <4>2, <3>2
    <3> QED BY <3>8, <3>9
  <2> QED BY <2>1, <2>2
<1>4. CASE learn
  <2>1. PICK asserting \in Open : cancelUntil(backtrackLevel(Rest))
    BY <1>4, LearnStep
  <2>2. backtrackLevel(Rest) \in 0..decisionLevel
    BY RestPlaces
  <2> QED BY <2>1, <2>2, <1>2
<1>5. CASE stop \/ restart
  BY <1>2, <1>5, ZeroStep DEF stop, restart
<1>6. CASE clearSearch
  <2>1. 0 \in 0..Len(trail)
    BY Typed, Places
  <2> QED BY <2>1, <1>6, DeductionsCut DEF clearSearch
<1>7. CASE handleUnsat
  BY <1>1, <1>2, <1>7, UnsatStep DEF Cuts
<1>8. CASE addUnitSplit
  BY <1>2, <1>8, UnitSplitStep
<1>9. CASE addOriginalClause_ \/ takeLiteral \/ keepWatch \/ moveWatch \/ propagateUnit \/ falsified \/ propagated
  BY <1>1, <1>9
     DEF addOriginalClause_, takeLiteral, keepWatch, moveWatch, propagateUnit, falsified, visit, propagated,
         theoryVars, tsolverVars
<1>10. CASE resolve \/ simplify \/ removeSatisfied \/ handleSat \/ deduceTheory \/ handleNewSplitClauses
  BY <1>1, <1>10
     DEF resolve, simplify, removeSatisfied, handleSat, deduceTheory, handleNewSplitClauses, theoryVars, tsolverVars
<1>11. CASE addSplit \/ enqueueSplits \/ skipAssumption \/ assume \/ analyzeFinal \/ pickBranchLit \/ complete
  BY <1>1, <1>11
     DEF addSplit, enqueueSplits, skipAssumption, assume, analyzeFinal, pickBranchLit, complete, theoryVars,
         tsolverVars
<1>12. CASE UNCHANGED vars
  BY <1>1, <1>12 DEF vars, theoryVars, tsolverVars
<1> QED BY <1>3, <1>4, <1>5, <1>6, <1>7, <1>8, <1>9, <1>10, <1>11, <1>12 DEF Next

\* The search begins: what the declarations find is what they would find before and after.
LEMMA SolveKnown ==
    ASSUME StepInv, solve_
    PROVE  /\ \A v : v \in Known' <=> v \in Known
           /\ \A v : v \in informed' <=> v \in Known /\ v \in problem.theory
           /\ \A v \in decision' : v \in Known
           /\ th_deductions' = <<>>
<1> DEFINE original == UNION {LitsOf(db[i]) : i \in {j \in DOMAIN db : ~ db[j].learnt}}
           var_seen == Assigned \cup {l.tr : l \in original}
<1>1. UNCHANGED <<db, trail, new_splits>> /\ pc = "load" /\ th_deductions' = <<>>
  BY DEF solve_, trailVars, splitVars
<1>2. \A v : v \in Known' <=> v \in Known
  BY <1>1 DEF Known, LitsOf
<1>3. trail_lim = <<>> /\ new_splits = <<>>
  BY <1>1 DEF StepInv, Phases, Loading
<1>4. \A i \in DOMAIN trail : trail[i].level = 0
  <2>1. decisionLevel = 0
    BY <1>3 DEF decisionLevel
  <2> QED BY <2>1, Typed, Places
<1>5. \A v : v \in Known <=> v \in var_seen
  <2>1. \A v : v \in Assigned <=> BottomAtom(v)
    BY <1>4 DEF Assigned, BottomAtom
  <2>2. \A v : v \in {l.tr : l \in original} <=> OriginalAtom(v)
    BY DEF OriginalAtom
  <2>3. \A v : ~ SplitAtom(v)
    BY <1>3 DEF SplitAtom
  <2> QED BY <2>1, <2>2, <2>3, KnownParts
<1>6. informed' = var_seen \cap problem.theory /\ decision' \subseteq var_seen
  BY DEF solve_
<1> HIDE DEF var_seen
<1> QED BY <1>1, <1>2, <1>5, <1>6

\* The atoms of the split clauses that are fetched.
LEMMA SplitKnown ==
    ASSUME StepInv, handleNewSplitClauses
    PROVE  /\ \A v : v \in informed' <=> v \in informed \/ (SplitAtom(v)' /\ v \in problem.theory)
           /\ \A v \in decision' : v \in decision \/ SplitAtom(v)'
<1>1. PICK batch \in SUBSET Splits :
          /\ new_splits' \in ByLevel(batch) /\ addVars({l.tr : l \in UNION batch})
          /\ informed' = informed \cup ({l.tr : l \in UNION batch} \cap problem.theory)
  BY DEF handleNewSplitClauses
<1>2. batch \in SUBSET SUBSET Literal
  BY Asked DEF StepInv, Splits
<1>3. /\ \A c \in batch : \E k \in DOMAIN new_splits' : new_splits'[k] = c
      /\ \A k \in DOMAIN new_splits' : new_splits'[k] \in batch
  BY <1>1, <1>2, Fetched
<1>4. \A v : SplitAtom(v)' <=> v \in {l.tr : l \in UNION batch}
  BY <1>3 DEF SplitAtom
<1>5. decision' = decision \cup {l.tr : l \in UNION batch}
  BY <1>1 DEF addVars
<1> QED BY <1>1, <1>4, <1>5

\* An atom of a clause is known, whether the clause was added, learnt or split.
LEMMA DbKnown ==
    ASSUME StepInv, [Next]_vars, NEW i \in DOMAIN db', NEW l \in LitsOf(db'[i]), l.tr \in problem.theory
    PROVE  l.tr \in Known'
<1>1. seen \in SUBSET Literal /\ DbMoves /\ Declared
  BY DbStep DEF StepInv, TypeOK
<1>2. ASSUME NEW j \in DOMAIN db, l \in LitsOf(db[j]) PROVE l.tr \in Known'
  <2>1. l.tr \in Known
    BY <1>1, <1>2 DEF Declared
  <2> QED BY <2>1, KnownMore
<1>3. ASSUME NEW S \in SUBSET Literal, NEW b \in BOOLEAN, Stores(S, b) PROVE l.tr \in Known' \/ l \in S
  <2>1. /\ DOMAIN db' = 1..(Len(db) + 1) /\ \A j \in DOMAIN db : j \in DOMAIN db' /\ db'[j] = db[j]
        /\ LitsOf(db'[Len(db) + 1]) = S
    BY <1>3, StoresEffect
  <2>2. i \in DOMAIN db \/ i = Len(db) + 1
    BY <2>1, Clauses DEF StepInv
  <2> QED BY <2>1, <2>2, <1>2
<1>4. CASE db' = db
  BY <1>4, <1>2
<1>5. ASSUME NEW j \in watchers, Reorders(j) PROVE l.tr \in Known'
  <2>1. DOMAIN db' = DOMAIN db /\ \A k \in DOMAIN db : LitsOf(db'[k]) = LitsOf(db[k])
    BY <1>5, ReordersEffect
  <2> QED BY <2>1, <1>2
<1>6. ASSUME NEW j \in DOMAIN db, db[j].learnt, db' = RemoveAt(db, j) PROVE l.tr \in Known'
  <2>1. \E k \in DOMAIN db : db'[i] = db[k]
    BY <1>6, RemovesEffect
  <2> QED BY <2>1, <1>2
<1>7. ASSUME NEW S \in SUBSET Literal, Stores(S, FALSE) PROVE l.tr \in Known'
  <2>1. CASE l \in S
    <3>1. OriginalAtom(l.tr)'
      BY <1>7, <2>1, OriginalsMore
    <3> QED BY <3>1, KnownParts
  <2> QED BY <2>1, <1>3, <1>7
<1>8. ASSUME NEW S \in SUBSET seen, Stores(S, TRUE) PROVE l.tr \in Known'
  <2>1. CASE l \in S
    <3>1. l.tr \in Assigned
      BY <2>1, SeenPlaces
    <3>2. l.tr \in Known
      BY <3>1, <1>1 DEF Declared
    <3> QED BY <3>2, KnownMore
  <2>2. S \in SUBSET Literal
    BY <1>1
  <2> QED BY <2>1, <2>2, <1>3, <1>8
<1> QED BY <1>1, <1>4, <1>5, <1>6, <1>7, <1>8 DEF DbMoves

\* What a split implies is about an atom of it.
LEMMA PropKnown ==
    ASSUME StepInv, [Next]_vars, NEW k \in DOMAIN propData'
    PROVE  propData'[k].lit.tr \in Known'
<1>1. Declared /\ Phases /\ propData \in Seq([lit : Literal, reason : SUBSET Literal])
  BY DEF StepInv, TypeOK
<1>2. ASSUME NEW j \in DOMAIN propData, propData'[k] = propData[j] PROVE propData'[k].lit.tr \in Known'
  BY <1>1, <1>2, KnownMore DEF Declared
<1>3. CASE propData' = propData
  BY <1>2, <1>3
<1>4. CASE handleNewSplitClauses
  BY <1>4 DEF handleNewSplitClauses
<1>5. CASE addUnitSplit
  <2>1. new_splits # <<>>
    BY <1>5 DEF addUnitSplit
  <2>2. PICK implied \in Head(new_splits) :
            \A n \in DOMAIN propData' :
                (\E j \in DOMAIN propData : propData'[n] = propData[j]) \/ propData'[n].lit = implied
    BY <1>5, PropAfter
  <2>3. implied.tr \in Known'
    BY <2>1, HeadAtoms, KnownMore
  <2> QED BY <2>2, <2>3, <1>2
<1>6. CASE enqueueSplits
  <2>1. CASE propData' = propData
    BY <2>1, <1>3
  <2>2. CASE propData # <<>> /\ propData' = Tail(propData)
    <3>1. k + 1 \in DOMAIN propData /\ propData'[k] = propData[k + 1]
      BY <2>2, <1>1, OneLess
    <3> QED BY <3>1, <1>2
  <2> QED BY <2>1, <2>2, <1>6 DEF enqueueSplits
<1> QED BY <1>3, <1>4, <1>5, <1>6, ListsChange

\* The theory goes on knowing every atom of it that may come to the trail, and no other.
LEMMA DeclaredStep == ASSUME StepInv, [Next]_vars PROVE Declared'
<1>1. Declared /\ Phases /\ problem' = problem
  BY SameProblem DEF StepInv
<1>2. informed' \subseteq Known' \cap problem.theory
  <2>1. informed \subseteq Known' \cap problem.theory
    BY <1>1, KnownMore DEF Declared
  <2>2. CASE solve_
    BY <2>2, SolveKnown
  <2>3. CASE handleNewSplitClauses
    BY <2>1, <2>3, SplitKnown, KnownParts
  <2> QED BY <2>1, <2>2, <2>3, InformedStep
<1>3. ASSUME ~ Loading', NEW v \in problem.theory, v \in Known' PROVE v \in informed'
  <2>1. ~ addOriginalClause_ /\ (solve_ \/ ~ Loading)
    BY <1>3, LoadingStep
  <2>2. CASE solve_
    BY <2>2, <1>3, SolveKnown
  <2>3. CASE ~ solve_
    <3>1. v \in Known \/ (handleNewSplitClauses /\ SplitAtom(v)')
      BY <2>1, <1>3, KnownLess
    <3>2. v \in Known => v \in informed
      BY <2>1, <2>3, <1>1 DEF Declared
    <3>3. CASE handleNewSplitClauses
      BY <3>1, <3>2, <3>3, SplitKnown
    <3> QED BY <3>1, <3>2, <3>3, <2>3, InformedStep
  <2> QED BY <2>2, <2>3
<1>4. \A i \in DOMAIN db' : \A l \in LitsOf(db'[i]) : l.tr \in problem.theory => l.tr \in Known'
  BY DbKnown
<1>5. ASSUME NEW v \in problem.theory, v \in Assigned' PROVE v \in Known'
  <2>1. CASE ~ addOriginalClause_
    BY <2>1, <1>5, Comers, KnownMore
  <2>2. CASE addOriginalClause_
    <3>1. v \in Assigned => v \in Known'
      BY <1>1, KnownMore DEF Declared
    <3>2. CASE trail' = trail
      BY <3>1, <3>2, <1>5, AtomsCut
    <3>3. CASE trail' # trail
      <4>1. PICK l : Adds(0, l, CRef_Undef)
        BY <2>2, <3>3, LoadStep
      <4>2. BottomAtom(l.tr)' /\ (v \in Assigned \/ v = l.tr)
        BY <4>1, <1>5, AtomsAdd
      <4> QED BY <3>1, <4>2, KnownParts
    <3> QED BY <3>2, <3>3
  <2> QED BY <2>1, <2>2
<1>6. ASSUME ~ Loading', NEW v \in decision', v \in problem.theory PROVE v \in Known'
  <2>1. ~ addOriginalClause_ /\ (solve_ \/ ~ Loading)
    BY <1>6, LoadingStep
  <2>2. CASE solve_
    BY <2>2, <1>6, SolveKnown
  <2>3. CASE ~ solve_
    <3>1. v \in decision => v \in Known'
      BY <2>1, <2>3, <1>1, <1>6, KnownMore DEF Declared
    <3>2. CASE handleNewSplitClauses
      BY <3>1, <3>2, <1>6, SplitKnown, KnownParts
    <3> QED BY <2>1, <2>3, <3>1, <3>2, <1>6, InformedStep
  <2> QED BY <2>2, <2>3
<1>7. ASSUME NEW d \in DOMAIN th_deductions' PROVE th_deductions'[d].tr \in informed'
  <2>1. CASE solve_
    BY <2>1, <1>7, SolveKnown
  <2>2. CASE ~ solve_
    <3>1. th_deductions'[d].tr \in informed
      BY <2>2, <1>7, DeductionsStep
    <3>2. CASE handleNewSplitClauses
      BY <3>1, <3>2, SplitKnown
    <3> QED BY <2>2, <3>1, <3>2, InformedStep
  <2> QED BY <2>1, <2>2
<1>8. \A k \in DOMAIN new_splits' : new_splits'[k] \in problem.splits
  BY <1>1, SplitsStep DEF SplitsOK
<1>9. \A k \in DOMAIN propData' : propData'[k].lit.tr \in Known'
  BY PropKnown
<1>10. \A i \in DOMAIN db' : \A l \in LitsOf(db[i])' : l.tr \in problem.theory => l.tr \in Known'
  BY <1>4 DEF LitsOf
<1> QED BY <1>1, <1>2, <1>3, <1>5, <1>6, <1>7, <1>8, <1>9, <1>10 DEF Declared

-----------------------------------------------------------------------------
(* The records of the search are in step from the beginning to the end.    *)

\* Every step keeps all of them.
LEMMA StepInvNext == ASSUME StepInv, [Next]_vars PROVE StepInv'
<1>1. RoundOK' /\ AtomsOK' /\ QheadOK' /\ PlaceOK'
  BY RoundStep, AtomsStep, QheadStep, PlaceStep
<1>2. Watchable' /\ watchers' \subseteq DOMAIN db' /\ Watched'
  BY DbTyped, WatchedStep
<1>3. SeenOK' /\ SplitsOK' /\ Declared'
  BY SeenStep, SplitsStep, DeclaredStep
<1>4. trail' \in Seq(Entry) /\ trail_lim' \in Seq(0..Len(trail')) /\ Levelled(trail', trail_lim') /\ ReasonsFalse(trail')
  BY TrailTyped DEF TypedTrail
<1>5. TheoryOK'
  BY TheoryStep, PiecesNext
<1>6. TypeOK'
  BY <1>1, <1>2, <1>3, <1>4, <1>5 DEF TypeOK, RoundOK, AtomsOK, QheadOK, PlaceOK, Watchable, SeenOK, SplitsOK, TheoryOK
<1>7. Phases'
  BY <1>1 DEF PlaceOK
<1>8. Resolvents'
  BY <1>3 DEF Resolvents, SeenOK, SplitsOK
<1>9. TheoryMirrorsTrail' /\ Marks'
  BY <1>5 DEF TheoryOK
<1> QED BY <1>2, <1>3, <1>4, <1>6, <1>7, <1>8, <1>9 DEF StepInv

\* A solver that was just created has nothing to keep in step.
LEMMA StepInvInit == ASSUME Init PROVE StepInv
<1>1. /\ problem \in Problems /\ round = 1 /\ loaded = 0 /\ pc = "load"
      /\ db = <<>> /\ order_heap = {} /\ decision = {}
      /\ trail = <<>> /\ trail_lim = <<>> /\ qhead = 0
      /\ watchers = {} /\ seen = {} /\ new_splits = <<>> /\ propData = <<>> /\ res = "none"
      /\ conflictC = 0 /\ ok = TRUE /\ conflict_frame = 0 /\ status = "l_Undef"
      /\ stack = <<>> /\ given = <<>>
  BY DEF Init
<1>2. /\ informed = {} /\ th_deductions = <<>> /\ deductions_next = 0 /\ deductions_marks = <<>>
      /\ polarity = {} /\ has_explanation = FALSE
  BY DEF Init, TSolverInit
<1>3. round \in DOMAIN problem.rounds /\ loaded \in 0..Len(Round.clauses)
  <2> DEFINE R == [clauses : Seq(SUBSET Literal), assumptions : Seq(Literal)]
  <2>a. problem \in Problem
    BY <1>1, CoreSMTSolverAssumption
  <2>b. problem.rounds \in Seq(R) /\ problem.rounds # <<>>
    BY <2>a DEF Problem
  <2>c. \A r \in R : r.clauses \in Seq(SUBSET Literal)
    OBVIOUS
  <2>1. problem.rounds \in Seq(R) /\ problem.rounds # <<>> /\ \A r \in R : Len(r.clauses) \in Nat
    BY <2>b, <2>c, LenProperties
  <2> HIDE DEF R
  <2>2. Len(problem.rounds) \in Nat /\ Len(problem.rounds) > 0
    BY <2>1, EmptySeq, LenProperties
  <2>3. 1 \in DOMAIN problem.rounds /\ 1 \in 1..Len(problem.rounds)
    BY <2>1, <2>2
  <2>4. problem.rounds[1] \in R
    BY <2>1, <2>3, ElementOfSeq
  <2> QED BY <2>1, <2>3, <2>4, <1>1 DEF Round
<1>4. TSolverTypeOK
  <2>1. <<>> \in Seq(Literal) /\ <<>> \in Seq([lim : Nat, next : Nat]) /\ 0 \in 0..Len(<<>>)
    OBVIOUS
  <2> QED BY <1>2, <2>1 DEF TSolverTypeOK
<1>5. TypeOK
  BY <1>1, <1>3, <1>4 DEF TypeOK
<1>6. Phases /\ Watched /\ Resolvents
  BY <1>1 DEF Phases, Loading, Watched, Resolvents
<1>7. Levelled(trail, trail_lim) /\ ReasonsFalse(trail)
  BY <1>1 DEF Levelled, ReasonsFalse
<1>8. TheoryMirrorsTrail /\ Marks
  <2>1. \A n : n = 0 => {i \in 1..n : stack[i].tr \in informed} = {}
    BY <1>2
  <2>2. Cardinality({}) = 0 /\ Len(<<>>) = 0
    BY FS_EmptySet
  <2>3. TheoryMirrorsTrail
    BY <1>1, <1>2, <2>1, <2>2 DEF TheoryMirrorsTrail
  <2>4. Marks
    BY <1>1, <1>2 DEF Marks
  <2> QED BY <2>3, <2>4
<1>9. Declared
  <2>1. \A v : v \notin Known
    BY <1>1, KnownParts DEF OriginalAtom, BottomAtom, SplitAtom
  <2> QED BY <1>1, <1>2, <2>1 DEF Declared, Assigned, Loading
<1> QED BY <1>5, <1>6, <1>7, <1>8, <1>9 DEF StepInv

\* Every record of the search keeps its type and its order in every state, whatever the theory solver
\* answers and whenever the search restarts, is stopped or begins another round: StepInv is inductive.
THEOREM StepsInOrder == Spec => []StepInv
<1>1. Init => StepInv
  BY StepInvInit
<1>2. StepInv /\ [Next]_vars => StepInv'
  BY StepInvNext
<1> QED BY <1>1, <1>2, PTL DEF Spec

\* Every variable of the search keeps its type: no index runs out of the trail, no watcher out of the
\* clauses (search, propagate, analyze).
THEOREM TypeCorrect == Spec => []TypeOK
<1>1. StepInv => TypeOK
  BY DEF StepInv
<1> QED BY <1>1, StepsInOrder, PTL

\* The theory handler and its solver never have another literal than the trail, whatever is decided,
\* learnt, undone, split or restarted (assertLits, backtrack, declareVarsToTheories).
THEOREM TheoryAlwaysMirrorsTrail == Spec => []TheoryMirrorsTrail
<1>1. StepInv => TheoryMirrorsTrail
  BY DEF StepInv
<1> QED BY <1>1, StepsInOrder, PTL

\* The reason of a literal is false before it, so analyze() goes down the trail and comes to an end.
THEOREM ReasonsAlwaysBefore == Spec => []ReasonsBefore
<1>1. StepInv => ReasonsBefore
  BY DEF StepInv, ReasonsFalse, ReasonsBefore
<1> QED BY <1>1, StepsInOrder, PTL

=============================================================================
