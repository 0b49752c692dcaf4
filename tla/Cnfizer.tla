------------------------------ MODULE Cnfizer ------------------------------
(***************************************************************************)
(* A formula turned into clauses (cnfizers/Cnfizer.cc, Tseitin.cc,         *)
(* TermMapper.cc).  A variable of the SAT solver is the term it stands     *)
(* for, a literal a term and a sign, a clause a set of literals.  What was *)
(* given to the solver is remembered with the frame it was given in: a     *)
(* clause of a frame goes when the frame is popped.                        *)
(***************************************************************************)
EXTENDS Rewriting

baseFrame == 0
NoClauses == [clauses |-> {}, cnfized |-> {}, processed |-> {}]

getOrCreateLit(s, t) == purify(s, t, TRUE)
Neg(l) == <<l[1], ~ l[2]>>
Negs(C) == {Neg(l) : l \in C}

\* Cache::contains().
\* Bug to detect: a term given to the solver in another frame counts as given.
SeenAnywhere(cache, t, frame) == \E f \in 0..2 : <<t, f>> \in cache
CacheContains(cache, t, frame) == <<t, frame>> \in cache \/ <<t, baseFrame>> \in cache
-----------------------------------------------------------------------------
(* Tseitin: clauses that define a connective. *)

TseitinDefinition(s, t) ==
    LET v == <<t, TRUE>>
        lit(k) == getOrCreateLit(s, s[t].args[k])
        lits == {lit(k) : k \in DOMAIN s[t].args}
        a == lit(1)
        b == lit(2)
    IN  CASE isAnd(s, t) -> {{Neg(v), l} : l \in lits} \cup {{v} \cup Negs(lits)}
          [] isOr(s, t) -> {{v, Neg(l)} : l \in lits} \cup {{Neg(v)} \cup lits}
          [] s[t].sym = "xor" ->
                {{Neg(v), a, b}, {Neg(v), Neg(a), Neg(b)}, {v, Neg(a), b}, {v, a, Neg(b)}}
          [] s[t].sym = "iff" ->
                {{Neg(v), a, Neg(b)}, {Neg(v), Neg(a), b}, {v, a, b}, {v, Neg(a), Neg(b)}}
          [] OTHER -> {}

\* An if-then-else, and an application that is no connective, is a variable: its arguments are not
\* visited.
Descends(s, t) == s[t].sym \in {"and", "or", "xor", "iff", "not"}
ToCnfize(s, cache, root, frame) ==
    LET from[t \in 1..root] ==
            IF CacheContains(cache, t, frame) THEN {}
            ELSE {t} \cup (IF Descends(s, t) THEN UNION {from[s[t].args[k]] : k \in DOMAIN s[t].args} ELSE {})
    IN  from[root]
InFrame(C, frame) == {<<c, frame>> : c \in C}
TseitinCnfize(db, s, root, frame) ==
    With(ToCnfize(s, db.cnfized, root, frame), LAMBDA new :
         [db EXCEPT !.clauses = @ \cup InFrame(UNION {TseitinDefinition(s, t) : t \in new}, frame),
                    !.cnfized = @ \cup {<<t, frame>> : t \in new}])
-----------------------------------------------------------------------------
isLiteral(s, t) == isAtom(s, t) \/ (isNot(s, t) /\ isAtom(s, s[t].args[1]))
\* The arguments of nested disjunctions, or conjunctions.
Flat(s, t, Nested(_, _)) ==
    LET from[u \in 1..t] == IF Nested(s, u) THEN UNION {from[s[u].args[k]] : k \in DOMAIN s[u].args} ELSE {u}
    IN  from[t]
isClause(s, t) == \A l \in Flat(s, t, isOr) : isLiteral(s, l)
checkDeMorgan(s, t) ==
    /\ isNot(s, t) /\ isAnd(s, s[t].args[1])
    /\ \A l \in Flat(s, s[t].args[1], isAnd) : isLiteral(s, l)
retrieveClause(s, t) == {getOrCreateLit(s, l) : l \in Flat(s, t, isOr)}
deMorganize(s, t) == {Neg(getOrCreateLit(s, l)) : l \in Flat(s, s[t].args[1], isAnd)}

AddClause(db, C, frame) == [db EXCEPT !.clauses = @ \cup InFrame({C}, frame)]
Given(db, s, t, frame) ==
    IF isClause(s, t) THEN AddClause(db, retrieveClause(s, t), frame)
    ELSE IF checkDeMorgan(s, t) THEN AddClause(db, deMorganize(s, t), frame)
    ELSE TseitinCnfize(AddClause(db, {getOrCreateLit(s, t)}, frame), s, t, frame)
AssertConjunct(db, s, t, frame) ==
    IF CacheContains(db.processed, t, frame) THEN db
    ELSE [Given(db, s, t, frame) EXCEPT !.processed = @ \cup {<<t, frame>>}]

\* Formulas that are arguments of something else than a connective.
getNestedBoolRoots(s, root) ==
    {t \in SubTerms(s, root) :
        hasSortBool(s, t) /\ \E u \in SubTerms(s, root) : ~ isBooleanOperator(s, u) /\ t \in ToSet(s[u].args)}

cnfize(db, s, formula, frame) ==
    FoldLeft(LAMBDA d, t : TseitinCnfize(d, s, t, frame),
             FoldLeft(LAMBDA d, t : AssertConjunct(d, s, t, frame), db, Ascending(topLevelConjuncts(s, formula))),
             Ascending(getNestedBoolRoots(s, formula)))

\* The clauses there are while a frame is the last one on the base.
Active(db, frame) == {c[1] : c \in {x \in db.clauses : x[2] \in {baseFrame, frame}}}
=============================================================================
