--------------------------- MODULE ResolutionProof ---------------------------
(***************************************************************************)
(* The derivations the SAT solver logs while it searches                   *)
(* (ResolutionProof, and the places of CoreSMTSolver that call it).  A     *)
(* literal is an integer other than 0; a clause reference is a natural     *)
(* number, 0 being the reference of the empty clause.  A derivation is a   *)
(* chain of clauses, the variables resolved on, the clause's type and the  *)
(* number of uses of the clause.  Assertion frames are variables: a clause *)
(* of frame f holds f's literal, whose negation is assumed while the frame *)
(* is on the stack.                                                        *)
(***************************************************************************)
EXTENDS Integers, Sequences, FiniteSets, SequencesExt

CONSTANT
  Problems  \* scripts: the commands, the atoms, the theory's worlds, whether it deduces, its splits

VARIABLES
  problem,     \* the script that is run
  at,          \* the commands done
  frames,      \* the frames ever made, each TRUE while on the stack
  clauses,     \* the literals of every clause reference ever allocated and not freed
  mask,        \* the assertion an original clause comes from
  proof,       \* clause_to_proof_der
  attached,    \* the clauses that propagate
  learnts,     \* those that were learnt
  assumed,     \* assumed_literals: the unit clause of an assumption
  trail,       \* literals with reason and decision level
  level,       \* decisionLevel()
  simplified,  \* simpDB_assigns
  failed,      \* the frame the last refutation blames, 0 for the base: no search runs while it is on the stack
  status       \* "idle" between commands, "search", "sat", "unsat"

logVars == <<problem, at, frames, clauses, mask, proof, attached, learnts, assumed, trail, level, simplified, failed,
             status>>

CRef_Undef == 0
Decided == -1
CRef_Fake == -2

Var(l) == IF l < 0 THEN -l ELSE l
NegationOf(c) == {-l : l \in c}
FrameLit(f) == 100 + f
InOrder(S) == [i \in 1..Cardinality(S) |-> CHOOSE x \in S : Cardinality({y \in S : y < x}) = i - 1]
MinOf(S) == CHOOSE x \in S : \A y \in S : x <= y
MaxOr(S, d) == IF S = {} THEN d ELSE CHOOSE x \in S : \A y \in S : y <= x
Extend(f, k, v) == [x \in DOMAIN f \cup {k} |-> IF x = k THEN v ELSE f[x]]
Without(f, K) == [x \in DOMAIN f \ K |-> f[x]]

OnTrail == {trail[i].lit : i \in 1..Len(trail)}
EntryOf(v) == trail[CHOOSE i \in 1..Len(trail) : Var(trail[i].lit) = v]
LevelOf(v) == EntryOf(v).level
Assigned(v) == v \in OnTrail \/ -v \in OnTrail
\* A reference no clause has had: references of freed clauses are not used again here.
NextRef == MaxOr(DOMAIN clauses, 0) + 1
cancelUntil(k, t) == SelectSeq(t, LAMBDA e : e.level <= k)
Entry(l, reason, k) == [lit |-> l, reason |-> reason, level |-> k]

---------------------------------------------------------------------------
\* The log.

Leaf(type) == [cla |-> << >>, var |-> << >>, type |-> type, ref |-> 0]
newLeafClause(p, c, type) == Extend(p, c, Leaf(type))
\* A chain that begins with clause first: steps are pairs of a clause and a variable.
UsesIn(cla, c) == Cardinality({i \in 1..Len(cla) : cla[i] = c})
endChain(p, cla, vars, conclusion) ==
  LET used == [c \in DOMAIN p |-> [p[c] EXCEPT !.ref = @ + UsesIn(cla, c)]]
  IN IF Len(cla) = 1
     THEN IF cla[1] = conclusion THEN used ELSE newLeafClause(used, conclusion, "theory")
     ELSE IF conclusion \in DOMAIN p THEN used
     ELSE Extend(used, conclusion, [cla |-> cla, var |-> vars, type |-> "learnt", ref |-> 0])
\* Faulty: the clauses that a removed one was derived from are not counted down, and what is used goes too.
DeletedThoughUsed(p, c) == IF Cardinality(clauses[c]) = 1 THEN p ELSE Without(p, {c})
\* What is left of the log when clause c is to be removed: all of it while c is used.
deleted(p, c) ==
  IF Cardinality(clauses[c]) = 1 \/ p[c].ref > 0 THEN p
  ELSE LET q == [d \in DOMAIN p |-> [p[d] EXCEPT !.ref = @ - UsesIn(p[c].cla, d)]] IN Without(q, {c})

\* Level-0 literals of the clause resolved away by the units that are their reasons.
VarSet(S) == {Var(l) : l \in S}
VarsOf(S) == InOrder(VarSet(S))
ReasonsOf(S) == LET s == VarsOf(S) IN [i \in 1..Len(s) |-> EntryOf(s[i]).reason]
ResolvedByUnits(p, c, S, conclusion) == endChain(p, <<c>> \o ReasonsOf(S), VarsOf(S), conclusion)
finalizeResolutionProof(p, c, lits) == ResolvedByUnits(p, c, lits, CRef_Undef)

---------------------------------------------------------------------------
\* Theory: its worlds are sets of true atoms.

Satisfies(w, l) == IF l > 0 THEN l \in w ELSE -l \notin w
Consistent(S) == \E w \in problem.worlds : \A l \in S : Satisfies(w, l)
OnAtoms(S) == {l \in S : Var(l) \in problem.atoms}
\* A smallest part of S that the theory refutes.
Refuted(S) == {R \in SUBSET S : ~Consistent(R)}
Explanation(S) == CHOOSE R \in Refuted(S) : \A Q \in Refuted(S) : Cardinality(R) <= Cardinality(Q)
Before(l) == {trail[i].lit : i \in 1..((CHOOSE i \in 1..Len(trail) : trail[i].lit = l) - 1)}
\* The reason of a literal the theory deduced.
TheoryReason(l, S) == {l} \cup NegationOf(Explanation(OnAtoms(S) \cup {-l}) \ {-l})
Deducible == {l \in UNION {{v, -v} : v \in problem.atoms} : ~Assigned(Var(l)) /\ ~Consistent(OnAtoms(OnTrail) \cup {-l})}

---------------------------------------------------------------------------
\* What propagates.

Open(c) == {l \in clauses[c] : ~Assigned(Var(l))}
Satisfied(c) == clauses[c] \cap OnTrail # {}
Pending == {c \in attached : ~Satisfied(c) /\ Cardinality(Open(c)) <= 1}
Searching == status = "search"

\* A literal enqueued at level 0 has a unit clause for its reason.
logUnitClauseDerivationAtLevelZero(p, c, l) == ResolvedByUnits(p, c, clauses[c] \ {l}, NextRef)
PropagateClause ==
  /\ status \in {"search", "idle"}
  /\ Pending # {}
  /\ LET c == MinOf(Pending)
         l == CHOOSE x \in Open(c) : TRUE
     IN \/ /\ Open(c) # {}
           /\ level > 0
           /\ trail' = Append(trail, Entry(l, c, level))
           /\ UNCHANGED <<clauses, proof, failed, status>>
        \/ /\ Open(c) # {}
           /\ level = 0
           /\ proof' = logUnitClauseDerivationAtLevelZero(proof, c, l)
           /\ clauses' = Extend(clauses, NextRef, {l})
           /\ trail' = Append(trail, Entry(l, NextRef, 0))
           /\ UNCHANGED <<failed, status>>
        \/ /\ Open(c) = {}
           /\ level = 0
           /\ proof' = finalizeResolutionProof(proof, c, clauses[c])
           /\ status' = "unsat"
           /\ failed' = {0}
           /\ UNCHANGED <<clauses, trail>>
  /\ UNCHANGED <<problem, at, frames, mask, attached, learnts, assumed, level, simplified>>

---------------------------------------------------------------------------
\* Conflict analysis.

RECURSIVE AnalyzeFrom(_)
\* a: the log and clauses, the chain, the literals seen, the learnt ones, how many of the
\* current level are open, and the trail left.
Visit(a, c, p) ==
  LET fresh == {q \in a.clauses[c] \ {p} : Var(q) \notin a.seen}
      zero == {q \in fresh : LevelOf(Var(q)) = 0}
      top == {q \in fresh : LevelOf(Var(q)) = a.level}
      lower == fresh \ (zero \cup top)
  IN [a EXCEPT !.cla = @ \o ReasonsOf(zero), !.var = @ \o VarsOf(zero), !.seen = @ \cup {Var(q) : q \in top \cup lower},
               !.learnt = @ \cup lower, !.open = @ + Cardinality(top)]
\* The last seen literal of the trail; a deduced one gets its reason now.
AnalyzeFrom(a) ==
  LET i == MaxOr({j \in 1..a.index : Var(trail[j].lit) \in a.seen}, 0)
      p == trail[i].lit
      fake == trail[i].reason = CRef_Fake
      r == IF fake THEN MaxOr(DOMAIN a.clauses, 0) + 1 ELSE trail[i].reason
      b == IF fake THEN [a EXCEPT !.clauses = Extend(@, r, TheoryReason(p, Before(p))),
                                  !.proof = newLeafClause(@, r, "theory")]
           ELSE a
      d == [b EXCEPT !.open = @ - 1, !.index = i - 1, !.seen = @ \ {Var(p)}]
  IN IF d.open = 0 THEN [d EXCEPT !.learnt = @ \cup {-p}, !.uip = -p]
     ELSE AnalyzeFrom(Visit([d EXCEPT !.cla = Append(@, r), !.var = Append(@, Var(p))], r, p))
analyze(p, cs, c, k) ==
  AnalyzeFrom(Visit([proof |-> p, clauses |-> cs, cla |-> <<c>>, var |-> << >>, seen |-> {}, learnt |-> {},
                     open |-> 0, index |-> Len(trail), level |-> k, uip |-> 0], c, 0))
\* Learns from conflict clause c at level k: backjumps and asserts the learnt literal.
Learn(p, cs, c, k) ==
  LET a == analyze(p, cs, c, k)
      r == MaxOr(DOMAIN a.clauses, 0) + 1
      back == MaxOr({LevelOf(Var(q)) : q \in a.learnt \ {a.uip}}, 0)
  IN /\ clauses' = Extend(a.clauses, r, a.learnt)
     /\ proof' = endChain(a.proof, a.cla, a.var, r)
     /\ trail' = Append(cancelUntil(back, trail), Entry(a.uip, r, back))
     /\ level' = back
     /\ IF Cardinality(a.learnt) > 1
        THEN attached' = attached \cup {r} /\ learnts' = learnts \cup {r}
        ELSE UNCHANGED <<attached, learnts>>

Conflict ==
  /\ Searching
  /\ Pending # {}
  /\ level > 0
  /\ Open(MinOf(Pending)) = {}
  /\ Learn(proof, clauses, MinOf(Pending), level)
  /\ UNCHANGED <<problem, at, frames, mask, assumed, simplified, failed, status>>

---------------------------------------------------------------------------
\* The theory, once nothing propagates.

Quiet == Searching /\ Pending = {}
TheoryFails == ~Consistent(OnAtoms(OnTrail))
\* handleUnsat(): a conflict of level 0 ends the proof, another one is learnt from.
TheoryConflict ==
  /\ Quiet
  /\ TheoryFails
  /\ LET c == NegationOf(Explanation(OnAtoms(OnTrail)))
         r == NextRef
         k == MaxOr({LevelOf(Var(l)) : l \in c}, 0)
         cs == Extend(clauses, r, c)
         p == newLeafClause(proof, r, "theory")
     IN \/ /\ k = 0
           /\ clauses' = cs
           /\ proof' = finalizeResolutionProof(p, r, c)
           /\ trail' = cancelUntil(0, trail)
           /\ level' = 0
           /\ status' = "unsat"
           /\ failed' = {0}
           /\ UNCHANGED <<attached, learnts>>
        \/ /\ k > 0
           /\ Learn(p, cs, r, k)
           /\ UNCHANGED <<failed, status>>
  /\ UNCHANGED <<problem, at, frames, mask, assumed, simplified>>

\* handleSat(): at level 0 a deduction is derived at once, elsewhere its reason is asked for later.
TheoryDeduction ==
  /\ Quiet
  /\ problem.deduces
  /\ ~TheoryFails
  /\ Deducible # {}
  /\ LET l == MinOf(Deducible)
         c == TheoryReason(l, OnTrail)
         r == NextRef
     IN \/ /\ level > 0
           /\ trail' = Append(trail, Entry(l, CRef_Fake, level))
           /\ UNCHANGED <<clauses, proof>>
        \/ /\ level = 0
           /\ clauses' = Extend(Extend(clauses, r, c), r + 1, {l})
           /\ proof' = ResolvedByUnits(newLeafClause(proof, r, "theory"), r, c \ {l}, r + 1)
           /\ trail' = Append(trail, Entry(l, r + 1, 0))
  /\ UNCHANGED <<problem, at, frames, mask, attached, learnts, assumed, level, simplified, failed, status>>
Settled == Quiet /\ ~TheoryFails /\ (problem.deduces => Deducible = {})

\* handleNewSplitClauses(): a clause of the theory's own, after backtracking to where it propagates.
Splits == {c \in problem.splits : c \notin {clauses[r] : r \in attached}}
\* Atoms of a split are not known before it.
Undecided == {v \in problem.atoms : ~Assigned(v) /\ \A c \in Splits : v \notin VarSet(c)}
Split ==
  /\ Settled
  /\ Splits # {}
  /\ Undecided = {}
  /\ LET c == CHOOSE x \in Splits : TRUE
         false == {l \in c : -l \in OnTrail}
         k == IF c \cap OnTrail = {} /\ Cardinality(c \ false) = 1
              THEN MaxOr({LevelOf(Var(l)) : l \in false}, 0) ELSE level
     IN /\ trail' = cancelUntil(k, trail)
        /\ level' = k
        /\ clauses' = Extend(clauses, NextRef, c)
        /\ proof' = newLeafClause(proof, NextRef, "split")
        /\ attached' = attached \cup {NextRef}
  /\ UNCHANGED <<problem, at, frames, mask, learnts, assumed, simplified, failed, status>>

\* Learnt clauses true at level 0 go, with their derivations if nothing uses them.
simplify ==
  /\ Quiet
  /\ level = 0
  /\ Len(trail) # simplified
  /\ LET gone == {c \in learnts : Satisfied(c)}
         after == FoldLeft(deleted, proof, InOrder(gone))
     IN /\ proof' = after
        /\ clauses' = Without(clauses, gone \ DOMAIN after)
        /\ attached' = attached \ gone
        /\ learnts' = learnts \ gone
  /\ simplified' = Len(trail)
  /\ UNCHANGED <<problem, at, frames, mask, assumed, trail, level, failed, status>>

---------------------------------------------------------------------------
\* Decisions and assumptions.

Assumptions == [f \in 1..Len(frames) |-> IF frames[f] THEN -FrameLit(f) ELSE FrameLit(f)]

\* From the unit of the assumption that failed, backwards over the trail.
RECURSIVE FinalFrom(_)
FinalFrom(a) ==
  LET i == MaxOr({j \in 1..a.index : Var(trail[j].lit) \in a.seen}, 0)
      p == trail[i].lit
      reason == trail[i].reason
      r == IF reason = Decided THEN assumed[p]
           ELSE IF reason = CRef_Fake THEN MaxOr(DOMAIN a.clauses, 0) + 1 ELSE reason
      b == IF reason = CRef_Fake
           THEN [a EXCEPT !.clauses = Extend(@, r, TheoryReason(p, Before(p))), !.proof = newLeafClause(@, r, "theory")]
           ELSE a
  IN IF i = 0 THEN a
     ELSE FinalFrom([b EXCEPT !.cla = Append(@, r), !.var = Append(@, Var(p)), !.index = i - 1,
                              !.seen = (@ \ {Var(p)}) \cup {Var(l) : l \in b.clauses[r] \ {p}}])
analyzeFinal(l) ==
  LET a == FinalFrom([proof |-> proof, clauses |-> clauses, cla |-> <<assumed[l]>>, var |-> << >>,
                      seen |-> {Var(l)}, index |-> Len(trail)])
  IN clauses' = a.clauses /\ proof' = endChain(a.proof, a.cla, a.var, CRef_Undef)

Assume ==
  /\ Settled
  /\ level < Len(frames)
  /\ LET p == Assumptions[level + 1]
     IN \/ /\ ~Assigned(Var(p))
           /\ trail' = Append(trail, Entry(p, Decided, level + 1))
           /\ level' = level + 1
           /\ UNCHANGED <<clauses, proof, failed, status>>
        \/ /\ p \in OnTrail
           /\ level' = level + 1
           /\ UNCHANGED <<trail, clauses, proof, failed, status>>
        \/ /\ -p \in OnTrail
           /\ analyzeFinal(p)
           /\ status' = "unsat"
           /\ failed' = {level + 1}
           /\ UNCHANGED <<trail, level>>
  /\ UNCHANGED <<problem, at, frames, mask, attached, learnts, assumed, simplified>>

Decide ==
  /\ Settled
  /\ level >= Len(frames)
  /\ \E l \in problem.phases :
       /\ Var(l) \in Undecided
       /\ trail' = Append(trail, Entry(l, Decided, level + 1))
  /\ level' = level + 1
  /\ UNCHANGED <<problem, at, frames, clauses, mask, proof, attached, learnts, assumed, simplified, failed, status>>
Model ==
  /\ Settled
  /\ level >= Len(frames)
  /\ Undecided = {} /\ Splits = {}
  /\ status' = "sat"
  /\ UNCHANGED <<problem, at, frames, clauses, mask, proof, attached, learnts, assumed, trail, level, simplified, failed>>

---------------------------------------------------------------------------
\* The script.

Command(what) ==
  /\ \/ status = "idle" /\ Pending = {}
     \/ status \in {"sat", "unsat"}
  /\ at < Len(problem.script)
  /\ problem.script[at + 1].do = what
  /\ at' = at + 1
Bottom == cancelUntil(0, trail)

\* addOriginalClause_(): literals false at level 0 are resolved away.
Top == {l \in 1..Len(frames) : frames[l]}
addOriginalClause ==
  /\ Command("add")
  /\ LET given == problem.script[at + 1].clause \cup (IF Top = {} THEN {} ELSE {FrameLit(MaxOr(Top, 0))})
         zero == {Bottom[i].lit : i \in 1..Len(Bottom)}
         false == {l \in given : -l \in zero}
         left == given \ false
         r == NextRef
         out == IF false = {} THEN r ELSE IF left = {} THEN CRef_Undef ELSE r + 1
         p == newLeafClause(proof, r, "orig")
     IN IF given \cap zero # {} \/ failed # {}
        THEN UNCHANGED <<clauses, mask, proof, attached, failed>> /\ trail' = Bottom /\ status' = "idle"
        ELSE /\ clauses' = IF out \in {r, CRef_Undef} THEN Extend(clauses, r, given)
                           ELSE Extend(Extend(clauses, r, given), out, left)
             /\ mask' = Extend(mask, r, problem.script[at + 1].part)
             /\ proof' = IF false = {} THEN p
                         ELSE endChain(p, <<r>> \o ReasonsOf(false), VarsOf(false), out)
             /\ attached' = IF Cardinality(left) > 1 THEN attached \cup {out} ELSE attached
             /\ trail' = IF Cardinality(left) = 1 THEN Append(Bottom, Entry(CHOOSE l \in left : TRUE, out, 0)) ELSE Bottom
             /\ status' = IF left = {} THEN "unsat" ELSE "idle"
             /\ failed' = IF left = {} THEN {0} ELSE failed
  /\ level' = 0
  /\ UNCHANGED <<problem, frames, learnts, assumed, simplified>>
Push ==
  /\ Command("push")
  /\ frames' = Append(frames, TRUE)
  /\ trail' = Bottom /\ level' = 0 /\ status' = "idle"
  /\ UNCHANGED <<problem, clauses, mask, proof, attached, learnts, assumed, simplified, failed>>
Pop ==
  /\ Command("pop")
  /\ failed' = failed \ {MaxOr(Top, 0)}
  /\ frames' = [frames EXCEPT ![MaxOr(Top, 0)] = FALSE]
  /\ trail' = Bottom /\ level' = 0 /\ status' = "idle"
  /\ UNCHANGED <<problem, clauses, mask, proof, attached, learnts, assumed, simplified>>

\* setCurrentAssumptionLiterals(): units of new assumptions are made, those of dropped ones go, and
\* the empty clause is underived if its derivation begins with such a unit.
NewLiterals == {Assumptions[i] : i \in 1..Len(frames)} \ DOMAIN assumed
OldLiterals == DOMAIN assumed \ {Assumptions[i] : i \in 1..Len(frames)}
CheckKnown ==
  /\ Command("check")
  /\ failed # {}
  /\ status' = "unsat"
  /\ UNCHANGED <<problem, frames, clauses, mask, proof, attached, learnts, assumed, trail, level, simplified, failed>>
Check ==
  /\ Command("check")
  /\ failed = {}
  /\ LET new == InOrder(NewLiterals)
         ref(l) == NextRef - 1 + (CHOOSE i \in 1..Len(new) : new[i] = l)
         units == {ref(l) : l \in NewLiterals}
         gone == {assumed[l] : l \in OldLiterals}
         made == [c \in DOMAIN proof \cup units |-> IF c \in units THEN Leaf("assumption") ELSE proof[c]]
         stale == IF CRef_Undef \in DOMAIN proof /\ proof[CRef_Undef].cla[1] \in gone THEN {CRef_Undef} ELSE {}
     IN /\ proof' = Without(made, gone \cup stale)
        /\ clauses' = [c \in (DOMAIN clauses \cup units) \ gone |-> IF c \in units THEN {new[c - NextRef + 1]}
                                                                    ELSE clauses[c]]
        /\ assumed' = [l \in (DOMAIN assumed \ OldLiterals) \cup NewLiterals |-> IF l \in NewLiterals THEN ref(l)
                                                                                ELSE assumed[l]]
  /\ trail' = Bottom /\ level' = 0 /\ status' = "search"
  /\ UNCHANGED <<problem, frames, mask, attached, learnts, simplified, failed>>

---------------------------------------------------------------------------
InitLog ==
  /\ problem \in Problems
  /\ at = 0
  /\ frames = << >>
  /\ clauses = << >>
  /\ mask = << >>
  /\ proof = << >>
  /\ attached = {} /\ learnts = {}
  /\ assumed = << >>
  /\ trail = << >>
  /\ level = 0
  /\ simplified = 0
  /\ failed = {}
  /\ status = "idle"
=============================================================================
