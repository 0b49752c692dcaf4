---------------------------- MODULE BoolRewriting ----------------------------
(***************************************************************************)
(* Nested conjunctions and disjunctions made flat, and subformulas         *)
(* simplified by what the formulas around them say                         *)
(* (simplifiers/BoolRewriting.cc).                                         *)
(***************************************************************************)
EXTENDS Rewriting

Operators(s, root) == Visited(s, root, isBooleanOperator)
\* How often a term is an argument in the formula, the root once more.
computeIncomingEdges(s, root) ==
    LET edges == {<<u, k>> \in Operators(s, root) \X (1..Len(s)) : k \in DOMAIN s[u].args}
    IN  [t \in SubTerms(s, root) |->
            Cardinality({e \in edges : s[e[1]].args[e[2]] = t}) + (IF t = root THEN 1 ELSE 0)]

\* mergeAndOrArgs(): an argument with the symbol of its parent is replaced by its arguments.
\* Bug to detect: a merged argument with another symbol.
mergeAll(s, t, map, shared) ==
    FlattenSeq([k \in DOMAIN s[t].args |->
                  LET old == s[t].args[k] new == At(map, old)
                  IN  IF (isAnd(s, new) \/ isOr(s, new)) /\ old \notin shared THEN s[new].args ELSE <<new>>])
mergeAndOrArgs(s, t, map, shared) ==
    FlattenSeq([k \in DOMAIN s[t].args |->
                  LET old == s[t].args[k] new == At(map, old)
                  IN  IF s[new].sym = s[t].sym /\ old \notin shared THEN s[new].args ELSE <<new>>])
rewriteMaxArity(s, root, shared) ==
    LET args(acc, t) == IF isAnd(s, t) \/ isOr(s, t) THEN mergeAndOrArgs(acc.store, t, acc.map, shared)
                        ELSE [k \in DOMAIN s[t].args |-> At(acc.map, s[t].args[k])]
        step(acc, t) ==
            With(args(acc, t), LAMBDA new :
            With(IF new = s[t].args THEN Made(acc.store, t) ELSE insertTerm(acc.store, s[t].sym, new), LAMBDA made :
                 [store |-> made.store, map |-> (t :> made.ref) @@ acc.map]))
    IN  Finish(FoldLeft(step, [store |-> s, map |-> <<>>], Ascending(Operators(s, root))), root)
\* A term that is an argument twice stays shared.
rewriteMaxArityClassic(s, root) ==
    LET edges == computeIncomingEdges(s, root) IN rewriteMaxArity(s, root, {t \in DOMAIN edges : edges[t] > 1})
rewriteMaxArityAggresive(s, root) == rewriteMaxArity(s, root, {})
-----------------------------------------------------------------------------
isTerminal(s, t) == ~ (isAnd(s, t) \/ isOr(s, t))
decomposeLiteral(s, t) == purify(s, t, TRUE)

\* The literals of a node under an assignment: those that stay, what they add to the assignment, and
\* whether one of them decides the node.
UnderAssignment(s, t, assignment) ==
    LET step(acc, l) ==
            LET d == decomposeLiteral(s, l)
            IN  IF d[1] \notin DOMAIN acc.assignment
                THEN [acc EXCEPT !.kept = Append(@, l),
                                 !.assignment = (d[1] :> (d[2] = isAnd(s, t))) @@ @]
                ELSE [acc EXCEPT !.decided = @ \/ (acc.assignment[d[1]] = d[2]) # isAnd(s, t)]
    IN  FoldLeft(step, [kept |-> <<>>, assignment |-> assignment, decided |-> FALSE],
                 SelectSeq(s[t].args, LAMBDA a : isTerminal(s, a)))
ConnectiveChildren(s, t) == SelectSeq(s[t].args, LAMBDA a : ~ isTerminal(s, a))
Decided(s, t, cache) ==
    [store |-> s, ref |-> IF isAnd(s, t) THEN term_FALSE ELSE term_TRUE, cache |-> cache]
Rebuilt(s, t, done) ==
    With(IF isAnd(s, t) THEN mkAnd(done.store, done.refs) ELSE mkOr(done.store, done.refs), LAMBDA made :
         [store |-> made.store, ref |-> made.ref, cache |-> done.cache])
\* What becomes of a child: as remembered, or as simplified, which may be remembered.
AddCached(acc, c) == [acc EXCEPT !.refs = Append(@, acc.cache[c])]
AddSimplified(acc, c, sub, remember) ==
    [store |-> sub.store, refs |-> Append(acc.refs, sub.ref),
     cache |-> IF remember THEN (c :> sub.ref) @@ sub.cache ELSE sub.cache]

\* A child with one parent is simplified under the assignment of that parent, any other by itself.
RECURSIVE SimplifyNode(_, _, _, _, _)
SimplifyNode(s, t, edges, assignment, cache) ==
    With(UnderAssignment(s, t, assignment), LAMBDA lits :
    LET Own(c) == edges[c] = 1
        visit(acc, c) ==
            IF ~ Own(c) /\ c \in DOMAIN acc.cache THEN AddCached(acc, c)
            ELSE AddSimplified(acc, c, SimplifyNode(acc.store, c, edges, IF Own(c) THEN lits.assignment ELSE <<>>,
                                                    acc.cache), ~ Own(c))
        children == SelectSeq(ConnectiveChildren(s, t), Own)
                    \o SelectSeq(ConnectiveChildren(s, t), LAMBDA c : ~ Own(c))
    IN  IF lits.decided THEN Decided(s, t, cache)
        ELSE Rebuilt(s, t, FoldLeft(visit, [store |-> s, refs |-> lits.kept, cache |-> cache], children)))
simplifyUnderAssignment(s, root) ==
    SimplifyNode(s, root, computeIncomingEdges(s, root), <<>>, <<>>)

\* update_idom(): the children of terms have smaller PTRefs.
RECURSIVE CommonDominator(_, _, _)
CommonDominator(idom, a, b) ==
    IF a = b THEN a
    ELSE IF a < b THEN CommonDominator(idom, idom[a], b) ELSE CommonDominator(idom, a, idom[b])
update_idom(idom, child, parent) ==
    IF child \in DOMAIN idom THEN CommonDominator(idom, idom[child], parent) ELSE parent
getImmediateDominators(s, root) ==
    FoldLeft(LAMBDA idom, t : FoldLeft(LAMBDA acc, c : (c :> update_idom(acc, c, t)) @@ acc, idom, s[t].args),
             root :> root, Reverse(Ascending(SubTerms(s, root))))

\* Every node is simplified under the assignment of its immediate dominator.
RECURSIVE SimplifyDominated(_, _, _, _, _)
SimplifyDominated(s, t, idom, assignments, cache) ==
    With(UnderAssignment(s, t, assignments[idom[t]]), LAMBDA lits :
    LET visit(acc, c) ==
            IF c \in DOMAIN acc.cache THEN AddCached(acc, c)
            ELSE AddSimplified(acc, c, SimplifyDominated(acc.store, c, idom, (t :> lits.assignment) @@ assignments,
                                                         acc.cache), TRUE)
    IN  IF lits.decided THEN Decided(s, t, cache)
        ELSE Rebuilt(s, t, FoldLeft(visit, [store |-> s, refs |-> lits.kept, cache |-> cache],
                                    ConnectiveChildren(s, t))))
simplifyUnderAssignment_Aggressive(s, root) ==
    SimplifyDominated(s, root, getImmediateDominators(s, root), root :> <<>>, <<>>)
=============================================================================
