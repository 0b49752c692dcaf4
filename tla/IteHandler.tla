----------------------------- MODULE IteHandler -----------------------------
(***************************************************************************)
(* If-then-else taken out of a formula (itehandler/): every one becomes a  *)
(* variable, and the values of those outermost in their place are defined  *)
(* by implications from the conditions under which each is reached.        *)
(***************************************************************************)
EXTENDS Rewriting

Ites(s, root) == {t \in SubTerms(s, root) : isIte(s, t)}
\* constructIteDag(): the if-then-elses to define, which are no branch of another.
TopLevelItes(s, root) ==
    {t \in Ites(s, root) :
        t = root \/ \E u \in SubTerms(s, root) :
                       IF isIte(s, u) THEN s[u].args[1] = t ELSE t \in ToSet(s[u].args)}

\* getReachableSubGraph(): what can be reached through branches.
Branches(s, t) == IF isIte(s, t) THEN {s[t].args[2], s[t].args[3]} ELSE {}
Reachable(s, root) ==
    LET from[t \in 1..root] == {t} \cup UNION {from[b] : b \in Branches(s, t)} IN from[root]

\* getCondValPairs(): the condition under which a node of the graph is reached, parents first.
Edges(s, nodes, t) ==
    InOrder({<<u, k>> \in nodes \X {3, 2} : isIte(s, u) /\ s[u].args[k] = t},
                 LAMBDA d, e : d[1] < e[1] \/ (d[1] = e[1] /\ d[2] > e[2]))
EdgeCondition(s, e) == IF e[2] = 2 THEN Made(s, s[e[1]].args[1]) ELSE mkNot(s, s[e[1]].args[1])
Ways(s, edges, conds) ==
    Each(s, edges, LAMBDA st, e :
             With(EdgeCondition(st, e), LAMBDA edge : mkAnd(edge.store, <<conds[e[1]], edge.ref>>)))
\* Bug to detect: only the first way to reach a node is counted.
FirstCondition(s, edges, conds) ==
    With(Ways(s, edges, conds), LAMBDA ways : Made(ways.store, Append(ways.refs, term_TRUE)[1]))
PathCondition(s, edges, conds) ==
    With(Ways(s, edges, conds), LAMBDA ways :
         mkOr(ways.store, IF ways.refs = <<>> THEN <<term_TRUE>> ELSE ways.refs))
Values(s, nodes) == Ascending({t \in nodes : ~ isIte(s, t)})
getCondValPairs(s, nodes) ==
    LET step(acc, t) ==
            With(PathCondition(acc.store, Edges(s, nodes, t), acc.conds), LAMBDA made :
                 [store |-> made.store, conds |-> (t :> made.ref) @@ acc.conds])
    IN  With(FoldLeft(step, [store |-> s, conds |-> <<>>],
                      Reverse(Ascending({t \in nodes : isIte(s, t)})) \o Values(s, nodes)), LAMBDA all :
             [store |-> all.store,
              pairs |-> [k \in DOMAIN Values(s, nodes) |-> <<all.conds[Values(s, nodes)[k]], Values(s, nodes)[k]>>]])

makeSwitch(s, root) ==
    With(getCondValPairs(s, Reachable(s, root)), LAMBDA found :
         mkAndOf(Each(found.store, found.pairs, LAMBDA st, p :
                          With(mkEq(st, <<root, p[2]>>), LAMBDA e : mkImpl(e.store, p[1], e.ref)))))
conjoin(s, root) ==
    IF TopLevelItes(s, root) = {} THEN Made(s, root)
    ELSE With(mkAndOf(Each(s, Ascending(TopLevelItes(s, root)), makeSwitch)), LAMBDA all :
              mkAnd(all.store, <<root, all.ref>>))

\* getAuxVarFor(): the variable means what its if-then-else means; its value is open all the same.
getAuxVarFor(s, t) ==
    LET name == "ite" \o ToString(t)
        known == {u \in DOMAIN s : s[u].sym = name}
    IN  IF known # {} THEN Made(s, CHOOSE u \in known : TRUE)
        ELSE Made(Append(s, Term(name, <<>>, s[t].sort, s[t].sem)), Len(s) + 1)

\* replaceItes(): from the root down to the first if-then-elses, whose insides are not looked at.
replaceItes(s, root) ==
    LET NoIte(st, t) == ~ isIte(st, t)
        outer == Visited(s, root, NoIte)
        ites == {t \in Ites(s, root) : t = root \/ \E u \in outer : t \in ToSet(s[u].args)}
        new(acc, t) == [k \in DOMAIN s[t].args |-> At(acc.map, s[t].args[k])]
        step(acc, t) ==
            With(IF t \in ites THEN getAuxVarFor(acc.store, t)
                 ELSE IF new(acc, t) = s[t].args THEN Made(acc.store, t)
                 ELSE insertTerm(acc.store, s[t].sym, new(acc, t)), LAMBDA made :
                 [store |-> made.store, map |-> (t :> made.ref) @@ acc.map])
    IN  Finish(FoldLeft(step, [store |-> s, map |-> <<>>], Ascending(outer \cup ites)), root)

IteHandlerRewrite(s, root) ==
    With(conjoin(s, root), LAMBDA new :
         IF new.ref = root THEN Made(s, root) ELSE replaceItes(new.store, new.ref))
=============================================================================
