---------------------------- MODULE ArraySolver ----------------------------
(***************************************************************************)
(* The solver for arrays (tsolvers/arraysolver), beside the congruence     *)
(* closure whose classes it reads.  Arrays that differ by stores are nodes *)
(* of a weak equivalence graph: a forest of primary edges, and secondary   *)
(* edges that lead around the stores at one index.  Two selects at an      *)
(* index must agree if a path that does not store at it joins their        *)
(* arrays; two arrays are equal if they agree wherever a path between      *)
(* them stores.  The graph, and the lemmas read off it, are kept until an  *)
(* equality is asserted or something is taken back.                        *)
(*                                                                         *)
(* An enode is its number; a class goes by its root.  An atom is the set   *)
(* of the two sides of an equality, or of one enode, a predicate.          *)
(***************************************************************************)
EXTENDS Integers, SequencesExt, FiniteSetsExt, Functions

CONSTANTS
    Problems,       \* [enodes, choices]: an enode is [op, sort, args], a choice the literals of an atom
    True, False     \* the enodes of the Boolean constants

VARIABLES
    problem,
    informed,           \* the atoms declared
    assertedLiterals,   \* of the SAT solver, oldest first; a backtrack point before each
    roots,              \* the congruence closure: the root of each enode, after each literal
    graph, valid,       \* the nodes, by the root they stand for
    lemmas,             \* [equality, undecidedEqualities]
    selectsInfo,        \* <<node, index>> of a weak equivalence at an index, to a select of it
    splitondemand, explanation, has_explanation,
    result              \* of the last complete check: "sat", or "" if something happened since

graphVars == <<graph, valid, lemmas, selectsInfo>>
answerVars == <<splitondemand, explanation, has_explanation>>
arrayVars == <<problem, informed, assertedLiterals, roots, graphVars, answerVars, result>>

Enode(t) == problem.enodes[t]
Enodes == DOMAIN problem.enodes
Asserted == Range(assertedLiterals)
root == Last(roots)
Undef == 0

isEqualityAtom(atom) == Cardinality(atom) = 2
getEquality(x, y) == {x, y}
atoms == {l.tr : l \in UNION Range(problem.choices)}
Lit(atom, sgn) == [tr |-> atom, sgn |-> sgn]
Negated(l) == Lit(l.tr, ~ l.sgn)

OfOp(op) == SelectSeq([t \in Enodes |-> t], LAMBDA t : Enode(t).op = op)
arrayTerms == {t \in Enodes : Enode(t).sort = "Array"}
getArray(t) == Enode(t).args[1]     \* getArrayFromStore(), getArrayFromSelect()
getIndex(t) == Enode(t).args[2]

isFalse(equality) == Cardinality(equality) = 2 /\ \A t \in equality : Enode(t).op = "const"
isFalsified(equality) == isFalse(equality) \/ Lit(equality, FALSE) \in Asserted
isSatisfied(equality) == Lit(equality, TRUE) \in Asserted

-----------------------------------------------------------------------------
(* The congruence closure, as far as this solver sees it. *)

\* What a literal makes equal: nothing, the sides of an equality, a predicate and its value.
Merged(l) ==
    IF isEqualityAtom(l.tr) THEN IF l.sgn THEN {l.tr} ELSE {}
    ELSE {l.tr \cup {IF l.sgn THEN True ELSE False}}

Applications == {t \in Enodes : Enode(t).args # <<>>}

Congruent(r, s, t) ==
    /\ s < t /\ Enode(s).op = Enode(t).op
    /\ \A k \in DOMAIN Enode(s).args : r[Enode(s).args[k]] = r[Enode(t).args[k]]

RECURSIVE Closure(_, _)
Closure(r, pairs) ==
    LET equal == pairs \cup {{q[1], q[2]} : q \in {q \in Applications \X Applications : Congruent(r, q[1], q[2])}}
        Merge(p, s) == LET names == {s[x] : x \in p}
                       IN  [t \in Enodes |-> IF s[t] \in names THEN Min(names) ELSE s[t]]
        next == FoldSet(Merge, r, equal)
    IN  IF next = r THEN r ELSE Closure(next, {})

Classes(lits) == Closure([t \in Enodes |-> t], UNION {Merged(l) : l \in lits})

\* A class keeps the root of a constant, or else of those its members had one with the most users.
RootsAfter(lits) ==
    LET classes == Classes(lits)
        Users(n) == Cardinality({s \in Applications : n \in {root[t] : t \in Range(Enode(s).args)}})
        Preferred(ns) == LET constants == {n \in ns : Enode(n).op = "const"}
                         IN  IF constants # {} THEN constants ELSE {n \in ns : \A m \in ns : Users(m) <= Users(n)}
        Members(c) == {t \in Enodes : classes[t] = c}
    IN  FoldSet(LAMBDA c, rs : {[t \in Enodes |-> IF t \in Members(c) THEN pick ELSE r[t]] :
                                    r \in rs, pick \in Preferred({root[t] : t \in Members(c)})},
                {classes}, Range(classes))

\* It has no conflict of its own.
Consistent(lits) ==
    LET classes == Classes(lits)
    IN  /\ \A l \in lits : isEqualityAtom(l.tr) /\ ~ l.sgn => \A x, y \in l.tr : x # y => classes[x] # classes[y]
        /\ \A x, y \in {True, False} \cup {t \in Enodes : Enode(t).op = "const"} :
              x # y /\ {x, y} \subseteq Enodes => classes[x] # classes[y]

\* explain(): asserted literals without which the two would not be equal.
Explain(x, y) ==
    LET Equal(lits) == Classes(lits)[x] = Classes(lits)[y]
    IN  FoldLeft(LAMBDA kept, l : IF Equal(kept \ {l}) THEN kept \ {l} ELSE kept, Asserted, assertedLiterals)

-----------------------------------------------------------------------------
(* Building the graph g. *)

IndexOfPrimary(g, n) == root[getIndex(g[n].primaryStore)]

RECURSIVE getRepresentative(_, _)
getRepresentative(g, n) ==
    IF g[n].primaryEdge = Undef THEN n ELSE getRepresentative(g, g[n].primaryEdge)

\* A bug to detect: the stores at the index are not led around.
RECURSIVE getRepresentativeBefore(_, _, _)
getRepresentativeBefore(g, n, index) ==
    IF g[n].primaryEdge = Undef \/ IndexOfPrimary(g, n) = index THEN n
    ELSE getRepresentativeBefore(g, g[n].primaryEdge, index)

RECURSIVE getIndexedRepresentative(_, _, _)
getIndexedRepresentative(g, n, index) ==
    CASE g[n].primaryEdge = Undef -> n
      [] g[n].primaryEdge # Undef /\ IndexOfPrimary(g, n) # index ->
            getIndexedRepresentative(g, g[n].primaryEdge, index)
      [] OTHER -> IF g[n].secondaryEdge = Undef THEN n
                  ELSE getIndexedRepresentative(g, g[n].secondaryEdge, index)

\* The secondary edges from n on are turned round, which makes n the representative at its index.
RECURSIVE makeIndexedWeakRepresentative(_, _)
makeIndexedWeakRepresentative(g, n) ==
    LET next == g[n].secondaryEdge
        turned == makeIndexedWeakRepresentative(g, next)
    IN  IF next = Undef THEN g
        ELSE IF IndexOfPrimary(g, next) # IndexOfPrimary(g, n)
        THEN makeIndexedWeakRepresentative([g EXCEPT ![n].secondaryEdge = g[next].primaryEdge], n)
        ELSE [turned EXCEPT ![next].secondaryEdge = n, ![next].secondaryStore = turned[n].secondaryStore,
                            ![n].secondaryEdge = Undef, ![n].secondaryStore = Undef]

\* The primary edges from n on are turned round, which makes n the representative.
RECURSIVE makeWeakRepresentative(_, _)
makeWeakRepresentative(g, n) ==
    LET next == g[n].primaryEdge
        turned == makeWeakRepresentative(g, next)
        indexed == makeIndexedWeakRepresentative(
                        [turned EXCEPT ![next].primaryEdge = n, ![next].primaryStore = turned[n].primaryStore], n)
    IN  IF next = Undef THEN g
        ELSE [indexed EXCEPT ![n].primaryEdge = Undef, ![n].primaryStore = Undef]

\* A bug to detect: the index of the store itself is not forbidden.
RECURSIVE mergeSecondaryAnywhere(_, _, _, _, _)
mergeSecondaryAnywhere(g, n, rep, store, forbiddenIndices) ==
    LET joined == [makeIndexedWeakRepresentative(g, n) EXCEPT ![n].secondaryEdge = rep, ![n].secondaryStore = store]
        next == IF getIndexedRepresentative(g, n, IndexOfPrimary(g, n)) # rep THEN joined ELSE g
    IN  IF n = rep THEN g
        ELSE mergeSecondaryAnywhere(next, next[n].primaryEdge, rep, store, forbiddenIndices)

\* A store joins a class to itself: a way around the stores on the path from n to the representative.
RECURSIVE mergeSecondary(_, _, _, _, _)
mergeSecondary(g, n, rep, store, forbiddenIndices) ==
    LET index == IndexOfPrimary(g, n)
        around == /\ index \notin forbiddenIndices
                  /\ getIndexedRepresentative(g, n, index) # rep
        joined == [makeIndexedWeakRepresentative(g, n) EXCEPT ![n].secondaryEdge = rep, ![n].secondaryStore = store]
        next == IF around THEN joined ELSE g
    IN  IF n = rep THEN g
        ELSE mergeSecondary(next, next[n].primaryEdge, rep, store, forbiddenIndices \cup {index})

merge(g, store) ==
    LET array == root[getArray(store)]
        node == root[store]
        h == makeWeakRepresentative(g, array)
    IN  IF array = node THEN g
        ELSE IF getRepresentative(h, node) = array
        THEN mergeSecondary(h, node, array, store, {root[getIndex(store)]})
        ELSE [h EXCEPT ![array].primaryEdge = node, ![array].primaryStore = store]

NoEdges == [primaryEdge |-> Undef, primaryStore |-> Undef, secondaryEdge |-> Undef, secondaryStore |-> Undef]

WeakEquivalences ==
    FoldLeft(merge, [n \in {root[t] : t \in arrayTerms} |-> NoEdges], OfOp("store"))
-----------------------------------------------------------------------------
(* Paths in the graph g.  A cursor is where it is, as a node and as a      *)
(* term of that class, with the indices stored at and the equalities used  *)
(* on its way.                                                             *)

StartingAt(t) == [node |-> root[t], term |-> t, indices |-> {}, why |-> {}]

Why(x, y) == IF x = y THEN {} ELSE Explain(x, y)    \* recordExplanationOfEgraphEquivalence()

RECURSIVE countPrimaryEdges(_, _)
countPrimaryEdges(g, n) ==
    IF g[n].primaryEdge = Undef THEN 0 ELSE 1 + countPrimaryEdges(g, g[n].primaryEdge)

RECURSIVE findSecondaryNode(_, _, _)
findSecondaryNode(g, n, index) ==
    IF g[n].primaryEdge = Undef \/ IndexOfPrimary(g, n) = index THEN n
    ELSE findSecondaryNode(g, g[n].primaryEdge, index)

RECURSIVE countSecondaryEdges(_, _, _)
countSecondaryEdges(g, n, index) ==
    LET from == findSecondaryNode(g, n, index)
    IN  IF g[from].primaryEdge = Undef \/ g[from].secondaryEdge = Undef THEN 0
        ELSE 1 + countSecondaryEdges(g, g[from].secondaryEdge, index)

collectOnePrimary(g, c) ==
    LET store == g[c.node].primaryStore
        source == IF root[store] = c.node THEN store ELSE getArray(store)
        target == IF source = store THEN getArray(store) ELSE store
    IN  [node |-> g[c.node].primaryEdge, term |-> target,
         indices |-> c.indices \cup {getIndex(store)}, why |-> c.why \cup Why(c.term, source)]

\* Both go on to where their primary edges meet.
RECURSIVE collectPrimaries(_, _, _)
collectPrimaries(g, c, d) ==
    LET ahead == countPrimaryEdges(g, c.node) - countPrimaryEdges(g, d.node)
    IN  IF c.node = d.node
        THEN [indices |-> c.indices \cup d.indices, why |-> c.why \cup d.why \cup Why(c.term, d.term)]
        ELSE collectPrimaries(g, IF ahead >= 0 THEN collectOnePrimary(g, c) ELSE c,
                                 IF ahead <= 0 THEN collectOnePrimary(g, d) ELSE d)

\* To the near end of the next secondary edge at an index, and over it.  (The two kinds of cursor try the
\* ends in different orders; only one of them is near.)
collectOneSecondary(g, c, index) ==
    LET from == findSecondaryNode(g, c.node, index)
        store == g[from].secondaryStore
        isNear(t) == findSecondaryNode(g, root[t], index) = from
        near == IF isNear(store) THEN store ELSE getArray(store)
        far == IF near = store THEN getArray(store) ELSE store
        Over(path) == [node |-> root[far], term |-> far,
                       indices |-> path.indices \cup {getIndex(store)}, why |-> path.why]
    IN  Over(collectPrimaries(g, c, StartingAt(near)))

\* A path that does not store at the index.
RECURSIVE WeakPath(_, _, _, _)
WeakPath(g, c, d, index) ==
    LET ahead == countSecondaryEdges(g, c.node, index) - countSecondaryEdges(g, d.node, index)
    IN  IF findSecondaryNode(g, c.node, index) = findSecondaryNode(g, d.node, index)
        THEN collectPrimaries(g, c, d)
        ELSE WeakPath(g, IF ahead >= 0 THEN collectOneSecondary(g, c, index) ELSE c,
                         IF ahead <= 0 THEN collectOneSecondary(g, d, index) ELSE d, index)

computeStoreIndices(g, n, m, index) == WeakPath(g, StartingAt(n), StartingAt(m), index).indices

explainWeakEquivalencePath(g, array1, array2, index) ==
    LET Reasons(path) ==
            path.why \cup {Lit(e, FALSE) : e \in {e \in {getEquality(i, index) : i \in path.indices} : ~ isFalse(e)}}
    IN  Reasons(WeakPath(g, StartingAt(array1), StartingAt(array2), index))

-----------------------------------------------------------------------------
(* Lemmas. *)

\* Two selects at one index from arrays that are weakly equivalent there.
SelectPairs(g) ==
    {<<s, t>> \in Range(OfOp("select")) \X Range(OfOp("select")) :
        LET index == root[getIndex(s)]
            Rep(u) == getIndexedRepresentative(g, root[getArray(u)], index)
        IN  /\ s < t /\ index = root[getIndex(t)] /\ root[s] # root[t]
            /\ Rep(s) = Rep(t)}

collectLemmaConditions(g) ==
    {LET s == p[1]
         t == p[2]
         index == root[getIndex(s)]
         stores == computeStoreIndices(g, root[getArray(s)], root[getArray(t)], index)
     IN  [equality |-> getEquality(s, t),
          undecidedEqualities |-> {e \in {getEquality(s, t)} \cup {getEquality(index, i) : i \in stores} :
                                      ~ isFalsified(e)}] : p \in SelectPairs(g)}

\* What contradicts a lemma.
readOverWeakEquivalenceConflict(g, equality) ==
    LET s == Min(equality)
        t == Max(equality)
        index == root[getIndex(s)]
    IN  explainWeakEquivalencePath(g, getArray(s), getArray(t), index)
        \cup Why(getIndex(s), getIndex(t)) \cup Why(getIndex(s), index) \cup {Lit(equality, FALSE)}

computeSelectsInfo(g) ==
    LET Key(s) == <<getIndexedRepresentative(g, root[getArray(s)], root[getIndex(s)]), root[getIndex(s)]>>
        selects == Range(OfOp("select"))
    IN  [k \in {Key(s) : s \in selects} |-> Min({s \in selects : Key(s) = k})]

\* ExtensionalityInfo: what is known of an array by way of its representative.  StartingAt the index of each
\* primary edge on the way there, the value of a select or else the representative at that index.
RECURSIVE Info(_, _, _)
Info(g, info, n) ==
    LET index == IndexOfPrimary(g, n)
        parent == Info(g, info, g[n].primaryEdge)
        key == <<getIndexedRepresentative(g, n, index), index>>
        Without(pairs) == {p \in pairs : p[1] # index}
        known == key \in DOMAIN info
    IN  IF g[n].primaryEdge = Undef
        THEN [weakEqRoot |-> n, weakIRoots |-> {},
              indexValueMap |-> {<<k[2], root[info[k]]>> : k \in {k \in DOMAIN info : k[1] = n}}]
        ELSE [parent EXCEPT
                !.weakIRoots = Without(@) \cup (IF known THEN {} ELSE {<<index, key[1]>>}),
                !.indexValueMap = Without(@) \cup (IF known THEN {<<index, root[info[key]]>>} ELSE {})]

\* Why two arrays agree at an index.
explainWeakCongruencePath(g, info, source, target, i) ==
    LET index == root[i]
        Rep(n) == getIndexedRepresentative(g, n, index)
        Select(n) == info[<<Rep(n), index>>]
        ToSelect(n) == explainWeakEquivalencePath(g, n, getArray(Select(n)), index)
                       \cup Why(index, getIndex(Select(n)))
    IN  Why(i, index) \cup
        IF Rep(source) = Rep(target) THEN explainWeakEquivalencePath(g, source, target, index)
        ELSE ToSelect(source) \cup ToSelect(target) \cup Why(Select(source), Select(target))

\* A bug to detect: only the equalities on the path.
PathClause(g, info, n, m) ==
    LET path == collectPrimaries(g, StartingAt(n), StartingAt(m))
    IN  {Negated(l) : l \in path.why} \cup {Lit(getEquality(n, m), TRUE)}

computeExtensionalityClause(g, info, n, m) ==
    LET Reasons(path) == path.why \cup UNION {explainWeakCongruencePath(g, info, n, m, i) : i \in path.indices}
    IN  {Negated(l) : l \in Reasons(collectPrimaries(g, StartingAt(n), StartingAt(m)))} \cup {Lit(getEquality(n, m), TRUE)}

allFalsified(clause) == \A l \in clause : IF l.sgn THEN isFalsified(l.tr) ELSE isSatisfied(l.tr)

\* The nodes in an order in which checkExtensionality() may come to them.
Orders(g) ==
    {o \in SetToSeqs(DOMAIN g) : \A j, k \in DOMAIN o : g[o[j]].primaryEdge = o[k] => k < j}

\* Each array with the one before it of which the same is known.
equalitiesToPropagate(g, info, o) ==
    {<<o[j], o[k]>> : <<j, k>> \in {p \in (DOMAIN o) \X (DOMAIN o) :
        LET Same(a, b) == Info(g, info, o[a]) = Info(g, info, o[b])
        IN  p[2] < p[1] /\ Same(p[1], p[2]) /\ \A b \in (p[2] + 1)..(p[1] - 1) : ~ Same(p[1], b)}}

-----------------------------------------------------------------------------
ArrayInit ==
    /\ problem \in Problems
    /\ informed = atoms
    /\ assertedLiterals = <<>>
    /\ roots = <<[t \in Enodes |-> t]>>
    /\ graph = <<>> /\ valid = FALSE /\ lemmas = {} /\ selectsInfo = <<>>
    /\ splitondemand = {} /\ explanation = {} /\ has_explanation = FALSE
    /\ result = ""

clear ==
    /\ graph' = <<>> /\ valid' = FALSE /\ lemmas' = {} /\ selectsInfo' = <<>>
    /\ splitondemand' = {} /\ explanation' = {} /\ has_explanation' = FALSE

Explained(lits) == has_explanation' = TRUE /\ explanation' = lits

\* TSolverHandler::assertLit(), unless the congruence closure finds a conflict: first the literals of
\* the choices in their order (a bound), the axioms about stores being choices of one literal, and then those
\* of the lemmas in any.  This solver has been told of equalities only.
assertLit(l) ==
    /\ ~ has_explanation /\ splitondemand = {}
    /\ l.tr \in informed /\ {l, Negated(l)} \cap Asserted = {}
    /\ Len(assertedLiterals) < Len(problem.choices) => l \in problem.choices[Len(assertedLiterals) + 1]
    /\ Consistent(Asserted \cup {l})
    /\ assertedLiterals' = Append(assertedLiterals, l)
    /\ \E r \in RootsAfter(Asserted \cup {l}) : roots' = Append(roots, r)
    /\ \/ isEqualityAtom(l.tr) /\ l.sgn /\ clear
       \/ /\ isEqualityAtom(l.tr) /\ ~ l.sgn
          /\ lemmas' = {[m EXCEPT !.undecidedEqualities = @ \ {l.tr}] : m \in lemmas}
          /\ LET falsified == {m \in lemmas' : m.undecidedEqualities = {}}
             IN  \/ falsified = {} /\ UNCHANGED <<explanation, has_explanation>>
                \/ \E m \in falsified : Explained(readOverWeakEquivalenceConflict(graph, m.equality))
          /\ UNCHANGED <<graph, valid, selectsInfo, splitondemand>>
       \/ ~ isEqualityAtom(l.tr) /\ UNCHANGED <<graphVars, answerVars>>
    /\ result' = ""
    /\ UNCHANGED <<problem, informed>>

popBacktrackPoints(n) ==
    /\ splitondemand = {} /\ n \in 1..Len(assertedLiterals)
    /\ clear
    /\ assertedLiterals' = SubSeq(assertedLiterals, 1, Len(assertedLiterals) - n)
    /\ roots' = SubSeq(roots, 1, Len(roots) - n)
    /\ result' = ""
    /\ UNCHANGED <<problem, informed>>

checkExtensionality(g) ==
    /\ selectsInfo' = IF selectsInfo = <<>> THEN computeSelectsInfo(g) ELSE selectsInfo
    /\ \E o \in Orders(g) :
          \E clauses \in {{computeExtensionalityClause(g, selectsInfo', p[1], p[2]) :
                             p \in equalitiesToPropagate(g, selectsInfo', o)}} :
              \/ /\ \A c \in clauses : ~ allFalsified(c)
                 /\ splitondemand' = clauses
                 /\ result' = IF clauses = {} THEN "sat" ELSE ""
                 /\ UNCHANGED <<explanation, has_explanation>>
              \/ \E c \in clauses :
                    /\ allFalsified(c)
                    /\ Explained({Negated(l) : l \in c})
                    /\ UNCHANGED <<splitondemand, result>>

\* What follows once there are a graph and its lemmas.
checkLemmas(complete, falsified) ==
    \/ \E m \in falsified :
          /\ Explained(readOverWeakEquivalenceConflict(graph', m.equality))
          /\ UNCHANGED <<selectsInfo, splitondemand, result>>
    \/ falsified = {} /\ ~ complete /\ UNCHANGED <<selectsInfo, answerVars, result>>
    \/ /\ falsified = {} /\ complete /\ lemmas' # {}
       /\ splitondemand' =
            {{Negated(l) : l \in readOverWeakEquivalenceConflict(graph', m.equality)} : m \in lemmas'}
       /\ UNCHANGED <<selectsInfo, explanation, has_explanation, result>>
    \/ falsified = {} /\ complete /\ lemmas' = {} /\ checkExtensionality(graph')

\* check(), complete once every declared atom has its value.
check(complete) ==
    /\ ~ has_explanation /\ splitondemand = {}
    /\ complete => {l.tr : l \in Asserted} = informed
    /\ graph' = IF valid THEN graph ELSE WeakEquivalences
    /\ lemmas' = IF valid THEN lemmas ELSE collectLemmaConditions(graph')
    /\ valid' = TRUE
    /\ checkLemmas(complete, {m \in lemmas' : m.undecidedEqualities = {}})
    /\ UNCHANGED <<problem, informed, assertedLiterals, roots>>

\* The clauses go to the SAT solver, which declares what is new in them.
getNewSplits ==
    /\ splitondemand # {}
    /\ informed' = informed \cup {l.tr : l \in UNION splitondemand}
    /\ splitondemand' = {}
    /\ UNCHANGED <<problem, assertedLiterals, roots, graphVars, explanation, has_explanation, result>>

\* Between two checks; the atoms are declared again.
clearSolver ==
    /\ assertedLiterals = <<>>
    /\ clear
    /\ informed' = atoms
    /\ result' = ""
    /\ UNCHANGED <<problem, assertedLiterals, roots>>

ArrayNext ==
    \/ \E a \in informed, sgn \in BOOLEAN : assertLit(Lit(a, sgn))
    \/ \E n \in DOMAIN assertedLiterals : popBacktrackPoints(n)
    \/ \E complete \in BOOLEAN : check(complete)
    \/ getNewSplits
    \/ clearSolver

ArraySpec == ArrayInit /\ [][ArrayNext]_arrayVars

-----------------------------------------------------------------------------
(* What arrays are: functions from indices to elements.  In a world the    *)
(* terms without a meaning have values, up to renaming, and each array has *)
(* a value at the values of the indices and at one index more.             *)

Namings(S) ==
    FoldSet(LAMBDA x, fs : UNION {{[y \in {x} \cup DOMAIN f |-> IF y = x THEN v ELSE f[y]] :
                                    v \in 1..(1 + Max(Range(f) \cup {0}))} : f \in fs},
            {<<>>}, S)

Meanings(enodes, index, element, truth) ==
    LET value[t \in DOMAIN enodes] ==
            LET e == enodes[t]
            IN  CASE t = True -> TRUE
                  [] t = False -> FALSE
                  [] e.op = "store" -> [value[e.args[1]] EXCEPT ![value[e.args[2]]] = value[e.args[3]]]
                  [] e.op = "select" -> value[e.args[1]][value[e.args[2]]]
                  [] e.sort = "Array" /\ e.op # "store" -> [p \in {0} \cup Range(index) |-> element[<<t, p + 1>>]]
                  [] e.sort = "Index" -> index[t]
                  [] e.sort = "Element" /\ e.op # "select" -> element[<<t, 0>>]
                  [] e.sort = "Bool" /\ t \notin {True, False} -> truth[t]
    IN  value

IsWorld(enodes, value) ==
    /\ \A s, t \in DOMAIN enodes :
          /\ enodes[s].op = enodes[t].op /\ enodes[s].args # <<>>
          /\ \A k \in DOMAIN enodes[s].args : value[enodes[s].args[k]] = value[enodes[t].args[k]]
          => value[s] = value[t]
    /\ \A s, t \in {t \in DOMAIN enodes : enodes[t].op = "const"} :
          s # t /\ enodes[s].sort = enodes[t].sort => value[s] # value[t]

\* A world as the atoms that are true in it.
World(enodes, value) ==
    {{s, t} : <<s, t>> \in {p \in (DOMAIN enodes) \X (DOMAIN enodes) :
                p[1] < p[2] /\ enodes[p[1]].sort = enodes[p[2]].sort /\ value[p[1]] = value[p[2]]}}
    \cup {{t} : t \in {t \in DOMAIN enodes : enodes[t].sort = "Bool" /\ value[t]}}

WorldsOf(enodes) ==
    LET Free(sort) == {t \in (DOMAIN enodes) \ {True, False} :
                          enodes[t].sort = sort /\ enodes[t].op \notin {"store", "select"}}
        Places(index) == (Free("Element") \X {0}) \cup (Free("Array") \X {p + 1 : p \in {0} \cup Range(index)})
        values == UNION {{Meanings(enodes, index, element, truth) :
                            element \in Namings(Places(index)), truth \in [Free("Bool") -> BOOLEAN]} :
                         index \in Namings(Free("Index"))}
    IN  {World(enodes, v) : v \in {v \in values : IsWorld(enodes, v)}}

Worlds == [p \in Problems |-> WorldsOf(p.enodes)]

Satisfies(w, l) == (l.tr \in w) = l.sgn
HoldsOfArrays(clause) == \A w \in Worlds[problem] : \E l \in clause : Satisfies(w, l)

\* The nodes that stores join; those that store at an index left out.
Joined(index) ==
    FoldLeft(LAMBDA class, s :
                IF root[getIndex(s)] = index THEN class
                ELSE [n \in DOMAIN class |-> IF class[n] = class[root[s]] THEN class[root[getArray(s)]] ELSE class[n]],
             [n \in DOMAIN graph |-> n], OfOp("store"))

\* Two arrays have one representative exactly when stores join them, and one at an index exactly when
\* stores elsewhere do: primary and secondary edges are turned round and led on so that no way is lost
\* or invented, in whatever order stores and classes come (merge, mergeSecondary, makeWeakRepresentative).
WeakEquivalenceExact ==
    valid =>
        \A n, m \in DOMAIN graph :
            /\ getRepresentative(graph, n) = getRepresentative(graph, m) <=> Joined(Undef)[n] = Joined(Undef)[m]
            /\ \A i \in {root[t] : t \in {t \in Enodes : Enode(t).sort = "Index"}} :
                  getIndexedRepresentative(graph, n, i) = getIndexedRepresentative(graph, m, i)
                      <=> Joined(i)[n] = Joined(i)[m]

\* A clause that the solver adds is true of all arrays, and not false already, as check() asserts; a
\* conflict is between given literals, and no arrays satisfy them.  Its parts are found along the edges of
\* a graph that may be older than the last literals (readOverWeakEquivalenceConflict, assertLit).
LemmasRight ==
    /\ \A c \in splitondemand : HoldsOfArrays(c) /\ ~ allFalsified(c)
    /\ has_explanation => explanation \subseteq Asserted /\ HoldsOfArrays({Negated(l) : l \in explanation})

\* When a complete check finds nothing to add, there are arrays that satisfy the given literals: the two
\* kinds of lemmas are all that is needed (check, checkExtensionality, and the paper that ArraySolver.h names).
\* So it is only as long as no predicate makes terms equal, which this solver is not told of: see below.
SatRight == result = "sat" => \E w \in Worlds[problem] : \A l \in Asserted : Satisfies(w, l)

\* ArraySolver.h: two arrays joined by a path that does not use index i "must have the same value at index
\* i. This is captured by first types of lemmas", in a graph "re-built when the context of strong
\* equivalence changes".  It is not when the values of predicates change it (ArraySolver::assertLit).
SelectsAgree == result = "sat" => SelectPairs(graph) = {}
=============================================================================
