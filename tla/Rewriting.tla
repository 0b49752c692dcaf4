----------------------------- MODULE Rewriting -----------------------------
(***************************************************************************)
(* What is done to a formula between its assertion and the SAT solver:     *)
(* rewriting bottom up (rewriters/), substitutions of top-level facts      *)
(* (Logic.cc, SubstLoopBreaker.cc, MainSolver.cc), distinctions, nested    *)
(* conjunctions (simplifiers/BoolRewriting.cc), if-then-else (itehandler/) *)
(* and clauses (cnfizers/).                                                *)
(***************************************************************************)
EXTENDS Terms, FiniteSetsExt, TLC

(* Rewriter: children first.  The code goes depth first; here the order is that of the PTRefs, which
   differs in the PTRefs new terms get. *)

Visited(s, root, Previsit(_, _)) ==
    LET from[u \in 1..root] ==
            IF Previsit(s, u) THEN {u} \cup UNION {from[s[u].args[k]] : k \in DOMAIN s[u].args} ELSE {}
    IN  from[root]
At(map, t) == IF t \in DOMAIN map THEN map[t] ELSE t

Finish(all, root) == Made(all.store, At(all.map, root))
\* A term whose arguments have changed is made again; Op rewrites the outcome.
rewrite(s, root, Previsit(_, _), Op(_, _)) ==
    LET new(acc, t) == [k \in DOMAIN s[t].args |-> At(acc.map, s[t].args[k])]
        Changed(acc, t) == \E k \in DOMAIN s[t].args : s[t].args[k] \in DOMAIN acc.map
        step(acc, t) ==
            With(IF Changed(acc, t) THEN insertTerm(acc.store, s[t].sym, new(acc, t)) ELSE Made(acc.store, t),
                 LAMBDA made : With(Op(made.store, made.ref), LAMBDA done :
                    [store |-> done.store,
                     map |-> IF Changed(acc, t) \/ done.ref # made.ref THEN (t :> done.ref) @@ acc.map
                             ELSE acc.map]))
    IN  Finish(FoldLeft(step, [store |-> s, map |-> <<>>], Ascending(Visited(s, root, Previsit))), root)

Always(s, t) == TRUE
Substitutor(s, root, substs) ==
    rewrite(s, root, Always, LAMBDA st, t : Made(st, At(substs, t)))
-----------------------------------------------------------------------------
(* Distinctions become conjunctions; those at the top may stay, the congruence closure has bits for
   them. *)

RECURSIVE topLevelConjuncts(_, _)
topLevelConjuncts(s, t) ==
    IF isAnd(s, t) THEN UNION {topLevelConjuncts(s, s[t].args[k]) : k \in DOMAIN s[t].args} ELSE {t}

rewriteDistinctsBut(s, root, kept) ==
    rewrite(s, root, hasSortBool,
            LAMBDA st, t : IF isDisequality(st, t) /\ t \notin kept
                           THEN AllDifferent(st, st[t].args) ELSE Made(st, t))
rewriteDistincts(s, root) == rewriteDistinctsBut(s, root, {})
rewriteDistinctsKeepTopLevel(s, root) ==
    rewriteDistinctsBut(s, root, {t \in topLevelConjuncts(s, root) : isDisequality(s, t)})

\* learnEqTransitivity(): (or (and (= x w) (= w z)) (and (= x y) (= y z))) implies (= x z).
Bridge(e, g) == IF e[1] \in {g[1], g[2]} THEN e[1] ELSE e[2]
Ends(e, g) ==
    LET w == Bridge(e, g) IN <<IF e[1] = w THEN e[2] ELSE e[1], IF g[1] = w THEN g[2] ELSE g[1]>>
\* Bug to detect: the two paths need not bridge the same ends.
LearntAny(s, t) ==
    LET Eq(k, l) == s[s[s[t].args[k]].args[l]].args
    IN  IF /\ isOr(s, t) /\ Len(s[t].args) = 2 /\ \A k \in 1..2 : isAnd(s, s[t].args[k])
           /\ \A k, l \in 1..2 : isEquality(s, s[s[t].args[k]].args[l])
        THEN {Ends(Eq(1, 1), Eq(1, 2))} ELSE {}
Learnt(s, t) ==
    LET Eq(k, l) == s[s[s[t].args[k]].args[l]].args
        Bridged(k) == {Eq(k, 1)[1], Eq(k, 1)[2]} \cap {Eq(k, 2)[1], Eq(k, 2)[2]} # {}
        e == Ends(Eq(1, 1), Eq(1, 2))
        g == Ends(Eq(2, 1), Eq(2, 2))
    IN  IF /\ isOr(s, t) /\ Len(s[t].args) = 2 /\ \A k \in 1..2 : isAnd(s, s[t].args[k])
           /\ \A k, l \in 1..2 : isEquality(s, s[s[t].args[k]].args[l])
           /\ Bridged(1) /\ Bridged(2)
           /\ e = g \/ e = <<g[2], g[1]>>
        THEN {e} ELSE {}
learnEqTransitivity(s, root) ==
    mkAndOf(Each(s, Ascending({t \in SubTerms(s, root) : Learnt(s, t) # {}}),
                 LAMBDA st, t : With(mkEq(st, CHOOSE e \in Learnt(s, t) : TRUE),
                                     LAMBDA q : mkImpl(q.store, t, q.ref))))
-----------------------------------------------------------------------------
(* The facts a formula states at its top: getNewFacts(). *)

RECURSIVE purify(_, _, _)
purify(s, t, sgn) == IF isNot(s, t) THEN purify(s, s[t].args[1], ~ sgn) ELSE <<t, sgn>>

Has(facts, t) == \E k \in DOMAIN facts : facts[k][1] = t
FactOf(facts, t) == (CHOOSE k \in DOMAIN facts : facts[k][1] = t)
Conflict == <<<<0, FALSE>>>>
FactsEnd(s, facts) == [store |-> s, facts |-> facts]

RECURSIVE FactsOf(_, _, _, _)
FactsOf(s, queue, isdup, facts) ==
    IF queue = <<>> THEN FactsEnd(s, facts)
    ELSE LET p == Last(queue)
             t == p[1]
             rest == Front(queue)
             split == (isAnd(s, t) /\ p[2]) \/ (isOr(s, t) /\ ~ p[2])
             below == [k \in DOMAIN s[t].args |-> purify(s, s[t].args[k], p[2])]
             On(st, fs) == FactsOf(st, rest, isdup \cup {p}, fs)
         IN  IF p \in isdup THEN FactsOf(s, rest, isdup, facts)
             ELSE IF split THEN FactsOf(s, rest \o below, isdup \cup {p}, facts)
             ELSE IF Has(facts, t)
             THEN IF facts[FactOf(facts, t)][2] # p[2] THEN FactsEnd(s, Conflict) ELSE On(s, facts)
             ELSE IF (isEquality(s, t) \/ isUP(s, t)) /\ p[2] THEN On(s, Append(facts, p))
             ELSE IF s[t].sym = "xor" /\ p[2]
             THEN With(mkNot(s, s[t].args[2]), LAMBDA n :
                  With(mkEq(n.store, <<s[t].args[1], n.ref>>), LAMBDA q :
                       On(q.store, Append(facts, <<q.ref, TRUE>>))))
             ELSE On(s, IF isBoolAtom(s, t) THEN Append(facts, p) ELSE facts)
getNewFacts(s, root) == FactsOf(s, <<purify(s, root, TRUE)>>, {}, <<>>)
-----------------------------------------------------------------------------
(* Facts as substitutions: retrieveSubstitutions(). *)

\* An equality of a variable, or of a constant, and a term that does not contain it.
Direction(s, t) ==
    LET a == s[t].args[1]  b == s[t].args[2]
        leaf == IF s[a].args = <<>> THEN a ELSE b
        term == IF leaf = a THEN b ELSE a
    IN  IF s[leaf].args # <<>> \/ contains(s, term, leaf) THEN <<>>
        ELSE IF isConstant(s, leaf) THEN <<term, leaf>> ELSE <<leaf, term>>
RECURSIVE SubstitutionsOf(_, _, _)
SubstitutionsOf(s, facts, substs) ==
    IF facts = <<>> THEN substs
    ELSE LET p == Head(facts)
             d == Direction(s, p[1])
             value == IF p[2] THEN term_TRUE ELSE term_FALSE
             Add(k, v) == IF Has(substs, k) THEN substs ELSE Append(substs, <<k, v>>)
         IN  IF isEquality(s, p[1]) /\ p[2]
             THEN SubstitutionsOf(s, Tail(facts), IF d = <<>> THEN substs ELSE Add(d[1], d[2]))
             ELSE IF ~ isBoolAtom(s, p[1]) THEN SubstitutionsOf(s, Tail(facts), substs)
             ELSE IF Has(substs, p[1])
                     /\ substs[FactOf(substs, p[1])][2] \in {term_TRUE, term_FALSE} \ {value}
             THEN Conflict
             ELSE SubstitutionsOf(s, Tail(facts), Add(p[1], value))
-----------------------------------------------------------------------------
(* SubstLoopBreaker: a substitution on a loop of variables is dropped, the one Tarjan's algorithm
   met last in each strongly connected component, until there is no loop. *)

VarsOf(s, t) == SortSeq(Ascending({u \in SubTerms(s, t) : isVar(s, u)}), LAMBDA a, b : a > b)
RECURSIVE Preorder(_, _, _)
Preorder(next, stack, seen) ==
    IF stack = <<>> THEN seen
    ELSE IF Contains(seen, Head(stack)) THEN Preorder(next, Tail(stack), seen)
    ELSE Preorder(next, (IF Head(stack) \in DOMAIN next THEN next[Head(stack)] ELSE <<>>) \o Tail(stack),
                  Append(seen, Head(stack)))
Reaches(next, a) == ToSet(Preorder(next, IF a \in DOMAIN next THEN next[a] ELSE <<>>, <<>>))
Loops(next) ==
    {{b \in DOMAIN next : b \in Reaches(next, a) /\ a \in Reaches(next, b)} :
        a \in {x \in DOMAIN next : x \in Reaches(next, x)}}
Position(a, order) == CHOOSE k \in DOMAIN order : order[k] = a
MetLast(L, order) == CHOOSE a \in L : \A b \in L : Position(b, order) <= Position(a, order)
RECURSIVE BreakLoops(_, _, _)
BreakLoops(next, keys, start) ==
    LET order == Preorder(next, start, <<>>)
        dropped == {MetLast(L, order) : L \in Loops(next)}
        orphans == UNION {ToSet(next[d]) : d \in dropped}
    IN  IF dropped = {} THEN next
        ELSE BreakLoops([k \in DOMAIN next \ dropped |-> next[k]], keys,
                        SelectSeq(Reverse(keys), LAMBDA k : k \in ToSet(start) \cup orphans))
SubstLoopBreaker(s, substs) ==
    LET keys == [j \in DOMAIN substs |-> substs[j][1]]
        graph == [k \in ToSet(keys) |-> VarsOf(s, substs[FactOf(substs, k)][2])]
        IsRoot(j) == ~ Contains(Preorder(graph, SubSeq(keys, 1, j - 1), <<>>), keys[j])
        roots == SelectSeq(keys, LAMBDA k : IsRoot(Position(k, keys)))
        kept == DOMAIN BreakLoops(graph, keys, roots)
    IN  SelectSeq(substs, LAMBDA p : p[1] \in kept)
retrieveSubstitutions(s, facts) ==
    With(SubstitutionsOf(s, facts, <<>>), LAMBDA substs :
        IF substs = Conflict THEN Conflict ELSE SubstLoopBreaker(s, substs))
-----------------------------------------------------------------------------
(* substitutionPass(): facts are turned into substitutions until the formula does not change. *)

AsMap(substs) == [k \in {substs[j][1] : j \in DOMAIN substs} |-> substs[FactOf(substs, k)][2]]
SubstsEnd(s, substs) == [store |-> s, substs |-> substs]
\* Bug to detect: the targets are substituted in once, not until nothing changes.
ClosureOnce(s, substs, settled) ==
    FoldLeft(LAMBDA acc, j :
                With(Substitutor(acc.store, acc.substs[j][2], AsMap(acc.substs)), LAMBDA made :
                     SubstsEnd(made.store, [acc.substs EXCEPT ![j][2] = made.ref])),
             SubstsEnd(s, substs), [j \in DOMAIN substs |-> j])
RECURSIVE substitutionsTransitiveClosure(_, _, _)
substitutionsTransitiveClosure(s, substs, settled) ==
    LET step(acc, j) ==
            With(Substitutor(acc.store, acc.substs[j][2], AsMap(acc.substs)), LAMBDA made :
                IF j \in acc.settled THEN acc
                ELSE IF made.ref = acc.substs[j][2] THEN [acc EXCEPT !.settled = @ \cup {j}]
                ELSE [acc EXCEPT !.store = made.store, !.substs[j][2] = made.ref])
    IN  With(FoldLeft(step, [store |-> s, substs |-> substs, settled |-> settled],
                      [j \in DOMAIN substs |-> j]), LAMBDA pass :
            IF pass.substs = substs THEN SubstsEnd(s, substs)
            ELSE substitutionsTransitiveClosure(pass.store, pass.substs, pass.settled))

SubstitutionResult(s, ref, substs) == [store |-> s, ref |-> ref, substs |-> substs]
RECURSIVE SubstitutionRounds(_, _, _)
SubstitutionRounds(s, root, all) ==
    With(getNewFacts(s, root), LAMBDA f :
    IF f.facts = Conflict THEN SubstitutionResult(s, term_FALSE, <<>>)
    ELSE With(retrieveSubstitutions(f.store, f.facts), LAMBDA found :
         With(IF found = Conflict THEN term_FALSE ELSE root, LAMBDA from :
         With(substitutionsTransitiveClosure(f.store, IF found = Conflict THEN <<>> ELSE found, {}), LAMBDA new :
         With(all \o SelectSeq(new.substs, LAMBDA p : ~ Has(all, p[1])), LAMBDA remembered :
         With(Substitutor(new.store, from, AsMap(new.substs)), LAMBDA next :
              IF next.ref # from THEN SubstitutionRounds(next.store, next.ref, remembered)
              ELSE With(substitutionsTransitiveClosure(next.store, remembered, {}), LAMBDA last :
                        SubstitutionResult(last.store, next.ref, last.substs))))))))
computeSubstitutions(s, fla) == SubstitutionRounds(s, fla, <<>>)
Conjoined(res) ==
    With(Each(res.store, res.substs, LAMBDA st, p : mkEq(st, p)), LAMBDA eqs :
    With(mkAnd(eqs.store, Append(eqs.refs, res.ref)), LAMBDA made : SubstitutionResult(made.store, made.ref, res.substs)))
substitutionPass(s, fla) == Conjoined(computeSubstitutions(s, fla))

\* UFTheory: what is learnt goes beside the formula.
preprocessBeforeSubstitutions(s, fla) ==
    With(learnEqTransitivity(s, fla), LAMBDA learnt : mkAnd(learnt.store, <<fla, learnt.ref>>))
=============================================================================
