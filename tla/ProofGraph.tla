----------------------------- MODULE ProofGraph -----------------------------
(***************************************************************************)
(* Resolution proofs as a graph (proof/PG*.cc) and the algorithms that     *)
(* shrink it.  A literal is an integer other than 0, its sign its polarity;*)
(* a clause is the set of its literals (the code keeps them sorted).  A    *)
(* graph g has the function g.node from the identifiers in use to nodes,   *)
(* its root, and the next identifier.  An antecedent is 0 where the code   *)
(* has a null pointer.  Where pseudo_rand() breaks a tie at node n, the    *)
(* first alternative is taken if n is in "heads".                          *)
(***************************************************************************)
EXTENDS Integers, Sequences, FiniteSets, SequencesExt

Abs(l) == IF l < 0 THEN -l ELSE l
VarOf(c) == {Abs(l) : l \in c}
LeafTypes == {"orig", "theory", "assumption", "split"}
NoClause == {0}

Node(type, clause) == [type |-> type, clause |-> clause, pivot |-> 0,
                       ant1 |-> 0, ant2 |-> 0, res |-> {}, cref |-> 0]

\* 0 if v occurs positively in the clause, 1 if negatively, -1 if it does not.
hasOccurrenceBin(c, v) == IF v \in c THEN 0 ELSE IF -v \in c THEN 1 ELSE -1

mergeClauses(c, d, pivot) == {l \in c \cup d : Abs(l) # pivot}

Live(g) == DOMAIN g.node
isLeaf(g, i) == g.node[i].ant1 = 0 /\ g.node[i].ant2 = 0
leaves(g) == {i \in Live(g) : isLeaf(g, i)}
Clause(g, i) == g.node[i].clause
getNumResolvents(g, i) == Cardinality(g.node[i].res)
addRes(g, i, r) == [g EXCEPT !.node[i].res = @ \cup {r}]
remRes(g, i, r) == [g EXCEPT !.node[i].res = @ \ {r}]
removeNode(g, i) == [g EXCEPT !.node = [j \in DOMAIN @ \ {i} |-> @[j]]]
Ascending(S) == [i \in 1..Cardinality(S) |-> CHOOSE x \in S : Cardinality({y \in S : y < x}) = i - 1]
\* The clause of i becomes the resolvent of its antecedents.
Merge(g, i) == [g EXCEPT !.node[i].clause = mergeClauses(Clause(g, g.node[i].ant1), Clause(g, g.node[i].ant2),
                                                         g.node[i].pivot)]
\* One antecedent of "res" that is n becomes r: the first one, if both are.
Redirect(res, n, r) == IF res.ant1 = n THEN [res EXCEPT !.ant1 = r]
                       ELSE IF res.ant2 = n THEN [res EXCEPT !.ant2 = r] ELSE res
\* r takes the place of n in the resolvents of n.
MoveResolvents(g, n, r) ==
  LET moved == g.node[n].res
  IN [g EXCEPT !.node = [i \in DOMAIN @ |->
        LET x == IF i \in moved THEN Redirect(@[i], n, r) ELSE @[i]
        IN IF i = r THEN [x EXCEPT !.res = @ \cup moved] ELSE x]]

RECURSIVE removeTree(_, _)
\* Removes i, and what that leaves without a resolvent.
removeTree(g, i) ==
  IF i = 0 \/ i \notin Live(g) THEN g
  ELSE IF g.node[i].res # {} THEN g
  ELSE LET n == g.node[i]
           without(h, a) == IF a = 0 THEN h ELSE remRes(h, a, i)
       IN removeTree(removeTree(removeNode(without(without(g, n.ant1), n.ant2), i), n.ant1), n.ant2)

---------------------------------------------------------------------------
\* Building the graph.

\* Learnt clauses of "proof" (a function from clause references to derivations),
\* with the intermediate nodes of their chains, from the empty clause on.
NewNode(g, n) == [g EXCEPT !.node = [i \in DOMAIN @ \cup {g.next} |-> IF i = g.next THEN n ELSE @[i]], !.next = @ + 1]
\* The node of a clause, made when the clause is first met.
processNewClause(b, c, proof, clauses) ==
  IF c \in DOMAIN b.id THEN b
  ELSE LET leaf == proof[c].type \in LeafTypes
       IN [b EXCEPT !.id = [x \in DOMAIN @ \cup {c} |-> IF x = c THEN b.g.next ELSE @[x]],
                    !.g = NewNode(@, [Node(proof[c].type, IF leaf THEN clauses[c] ELSE NoClause)
                                      EXCEPT !.cref = IF leaf THEN c ELSE 0]),
                    !.q = Append(@, c)]
\* Step i of the chain of clause c: "last" resolved with the clause of the chain.
ChainStep(b, c, i, proof, clauses) ==
  LET d == proof[c]
      b1 == processNewClause(b, d.cla[i + 1], proof, clauses)
      ended == i = Len(d.var)
      b2 == IF ended THEN b1 ELSE [b1 EXCEPT !.g = NewNode(@, Node("derived", NoClause))]
      cur == IF ended THEN b1.id[c] ELSE b1.g.next
      other == b1.id[d.cla[i + 1]]
      positive == d.var[i] \in clauses[d.cla[i + 1]]
      n == [b2.g.node[cur] EXCEPT !.pivot = d.var[i], !.ant1 = IF positive THEN other ELSE b.last,
                                  !.ant2 = IF positive THEN b.last ELSE other]
  IN [b2 EXCEPT !.g = addRes(addRes([@ EXCEPT !.node[cur] = n], n.ant1, cur), n.ant2, cur), !.last = cur]
Chain(b, c, proof, clauses) ==
  LET b0 == processNewClause(b, proof[c].cla[1], proof, clauses)
  IN FoldLeft(LAMBDA x, i : ChainStep(x, c, i, proof, clauses), [b0 EXCEPT !.last = b0.id[proof[c].cla[1]]],
              [i \in 1..Len(proof[c].var) |-> i])
RECURSIVE BuildFrom(_, _, _)
BuildFrom(b, proof, clauses) ==
  IF b.q = << >> THEN b
  ELSE LET c == Last(b.q)
           b1 == [b EXCEPT !.q = Front(@), !.seen = @ \cup {c}]
       IN BuildFrom(IF c \in b.seen \/ proof[c].type \in LeafTypes THEN b1 ELSE Chain(b1, c, proof, clauses),
                    proof, clauses)
\* The graph of the derivation of the empty clause, whose reference is 0.
buildProofGraph(proof, clauses) ==
  LET b == BuildFrom(processNewClause([g |-> [node |-> << >>, root |-> 0, next |-> 1], id |-> << >>, q |-> << >>,
                                       seen |-> {}, last |-> 0], 0, proof, clauses), proof, clauses)
  IN [b.g EXCEPT !.root = b.id[0]]

RECURSIVE TopDownFrom(_, _, _, _)
\* Antecedents before resolvents, what the second antecedent rests on first.
TopDownFrom(g, stack, open, order) ==
  IF stack = << >> THEN order
  ELSE LET i == Last(stack)
           n == g.node[i]
           fresh(a) == ~Contains(order, a)
       IN IF Contains(order, i) THEN TopDownFrom(g, Front(stack), open, order)
          ELSE IF i \in open \/ isLeaf(g, i) THEN TopDownFrom(g, Front(stack), open, Append(order, i))
          ELSE TopDownFrom(g, stack \o SelectSeq(<<n.ant1, n.ant2>>, fresh), open \cup {i}, order)
topolSortingTopDown(g) == TopDownFrom(g, <<g.root>>, {}, << >>)

RECURSIVE BotUpFrom(_, _, _, _)
BotUpFrom(g, stack, count, order) ==
  IF stack = << >> THEN order
  ELSE LET i == Last(stack)
           n == g.node[i]
           c == [count EXCEPT ![i] = @ + 1]
           ready == c[i] = getNumResolvents(g, i) \/ i = g.root
       IN BotUpFrom(g, Front(stack) \o (IF ready /\ ~isLeaf(g, i) THEN <<n.ant1, n.ant2>> ELSE << >>), c,
                    IF ready THEN Append(order, i) ELSE order)
\* Resolvents before antecedents, from the root.
topolSortingBotUp(g) == BotUpFrom(g, <<g.root>>, [i \in Live(g) |-> 0], << >>)

fillProofGraph(g) == FoldLeft(LAMBDA h, i : IF isLeaf(h, i) THEN h ELSE Merge(h, i), g, topolSortingTopDown(g))
emptyProofGraph(g) == [g EXCEPT !.node = [i \in DOMAIN @ |-> IF isLeaf(g, i) THEN @[i]
                                                             ELSE [@[i] EXCEPT !.clause = NoClause]]]
Reachable(g) == {topolSortingTopDown(g)[k] : k \in 1..Len(topolSortingTopDown(g))}
normalizeAntecedentOrder(g) ==
  LET reached == Reachable(g)
      turned(i) == hasOccurrenceBin(Clause(g, g.node[i].ant1), g.node[i].pivot) = 1
  IN [g EXCEPT !.node = [i \in DOMAIN @ |-> IF i \in reached /\ ~isLeaf(g, i) /\ turned(i)
                                            THEN [@[i] EXCEPT !.ant1 = g.node[i].ant2, !.ant2 = g.node[i].ant1]
                                            ELSE @[i]]]

\* Which antecedent replaces a node whose pivot is in neither: TRUE for the first.
chooseReplacingAntecedent(g, i, heads) ==
  LET a == g.node[i].ant1
      b == g.node[i].ant2
      na == getNumResolvents(g, a)
      nb == getNumResolvents(g, b)
      ca == Cardinality(Clause(g, a))
      cb == Cardinality(Clause(g, b))
  IN IF na = 1 /\ nb > 1 THEN FALSE
     ELSE IF na > 1 /\ nb = 1 THEN TRUE
     ELSE IF ca # cb THEN ca < cb
     ELSE i \in heads

---------------------------------------------------------------------------
\* Recycle pivots with intersection.

\* Faulty: the literals safe on any of the paths, not on all.
UpdateSetOnAnyPath(s, i, lits) ==
  [s EXCEPT !.safe = [j \in DOMAIN @ \cup {i} |-> IF j # i THEN @[j] ELSE IF i \in DOMAIN @ THEN @[i] \cup lits ELSE lits]]
updateSet(s, i, lits) == [s EXCEPT !.safe = [j \in DOMAIN @ \cup {i} |-> IF j # i THEN @[j]
                                             ELSE IF i \in DOMAIN @ THEN @[i] \cap lits ELSE lits]]
\* Node i on the way from the root: s.safe holds the literals below it on every path.
RecycleAt(s, i) ==
  LET n == s.g.node[i]
      piv == n.pivot
      positive == hasOccurrenceBin(Clause(s.g, n.ant1), piv) = 0
      up == IF positive THEN piv ELSE -piv
      safe == s.safe[i]
      without(h, a) == IF a = 0 THEN h ELSE remRes(h, a, i)
  IN CASE i # s.g.root /\ n.res = {} -> [s EXCEPT !.g = removeNode(without(without(@, n.ant1), n.ant2), i)]
       [] (i = s.g.root \/ n.res # {}) /\ isLeaf(s.g, i) -> s
       [] OTHER ->
            IF up \in safe
            THEN updateSet([s EXCEPT !.g = remRes([@ EXCEPT !.node[i].ant2 = 0], n.ant2, i)], n.ant1, safe)
            ELSE IF -up \in safe
            THEN updateSet([s EXCEPT !.g = remRes([@ EXCEPT !.node[i].ant1 = n.ant2, !.node[i].ant2 = 0],
                                                  n.ant1, i)], n.ant2, safe)
            ELSE updateSet(updateSet(s, n.ant1, safe \cup {up}), n.ant2, safe \cup {-up})
\* Nodes to be replaced are left with their replacement as only antecedent.
recyclePivotsIter_RecyclePhase(g) ==
  FoldLeft(RecycleAt, [g |-> g, safe |-> [i \in {g.root} |-> {}]], topolSortingBotUp(g)).g

\* A node whose antecedent a lacks the pivot gives way to a.
ReplaceBy(g, i, r) ==
  LET n == g.node[i]
      other == IF n.ant1 = r THEN n.ant2 ELSE n.ant1
      g1 == MoveResolvents(remRes(remRes(g, r, i), other, i), i, r)
      g2 == removeNode(IF i = g.root THEN [g1 EXCEPT !.root = r] ELSE g1, i)
  IN IF other = r THEN g2 ELSE removeTree(g2, other)
PivotIn(g, i, a) == hasOccurrenceBin(Clause(g, a), g.node[i].pivot) # -1
Replacing(g, i, heads) ==
  LET n == g.node[i]
      first == IF ~PivotIn(g, i, n.ant1) /\ ~PivotIn(g, i, n.ant2) THEN chooseReplacingAntecedent(g, i, heads)
               ELSE ~PivotIn(g, i, n.ant1)
  IN IF first THEN n.ant1 ELSE n.ant2
BothPivots(g, i) == PivotIn(g, i, g.node[i].ant1) /\ PivotIn(g, i, g.node[i].ant2)
Waits(g, i, visited) == \E a \in {g.node[i].ant1, g.node[i].ant2} \ {0} : a \notin visited

\* Node i on the way from the leaves.
RestructureAt(g, i, heads) ==
  LET n == g.node[i]
  IN IF n.ant1 # 0 /\ n.ant2 = 0
     THEN removeNode(remRes(MoveResolvents(g, i, n.ant1), n.ant1, i), i)
     ELSE IF isLeaf(g, i) THEN g
     ELSE IF BothPivots(g, i) THEN Merge(g, i)
     ELSE ReplaceBy(g, i, Replacing(g, i, heads))
RECURSIVE RestructureFrom(_, _, _, _)
RestructureFrom(g, q, visited, heads) ==
  IF q = << >> THEN g
  ELSE LET i == Head(q)
       IN IF i \notin Live(g) \/ i \in visited THEN RestructureFrom(g, Tail(q), visited, heads)
          ELSE IF Waits(g, i, visited) THEN RestructureFrom(g, Tail(q), visited, heads)
          ELSE RestructureFrom(RestructureAt(g, i, heads), Tail(q) \o Ascending(g.node[i].res \cap Live(g)),
                               visited \cup {i}, heads)
recyclePivotsIter(g, heads) ==
  LET h == recyclePivotsIter_RecyclePhase(g) IN RestructureFrom(h, Ascending(leaves(h)), {}, heads)

---------------------------------------------------------------------------
\* Lower units: s has the graph, the visited and the modified nodes, the units, and whether anything was done.

Bypass(s, i, r, other) ==
  LET g1 == MoveResolvents(remRes(remRes(s.g, r, i), other, i), i, r)
  IN [s EXCEPT !.g = removeNode(IF i = s.g.root THEN [g1 EXCEPT !.root = r] ELSE g1, i), !.changed = @ \cup {r}]
LowerAt(s, i, heads) ==
  LET n == s.g.node[i]
      changed == {n.ant1, n.ant2} \cap s.changed # {}
      s1 == IF changed THEN [s EXCEPT !.g = Merge(@, i), !.changed = @ \cup {i}] ELSE s
      unit(a) == Cardinality(Clause(s.g, a)) = 1
      kept == IF unit(n.ant2) THEN n.ant1 ELSE n.ant2
      lowered == IF unit(n.ant2) THEN n.ant2 ELSE n.ant1
      r == Replacing(s.g, i, heads)
      other == IF r = n.ant1 THEN n.ant2 ELSE n.ant1
      s2 == Bypass(s, i, r, other)
  IN IF isLeaf(s.g, i) THEN s
     ELSE IF BothPivots(s.g, i)
     THEN IF unit(n.ant1) \/ unit(n.ant2)
          THEN [Bypass(s1, i, kept, lowered) EXCEPT !.units = @ \cup {lowered}, !.done = TRUE]
          ELSE s1
     ELSE [s2 EXCEPT !.g = removeTree(@, other)]
RECURSIVE LowerFrom(_, _, _)
LowerFrom(s, q, heads) ==
  IF q = << >> THEN s
  ELSE LET i == Head(q)
       IN IF i \notin Live(s.g) \/ i \in s.visited THEN LowerFrom(s, Tail(q), heads)
          ELSE IF Waits(s.g, i, s.visited) THEN LowerFrom(s, Tail(q), heads)
          ELSE LowerFrom(LowerAt([s EXCEPT !.visited = @ \cup {i}], i, heads),
                         Tail(q) \o Ascending(s.g.node[i].res \cap Live(s.g)), heads)
RECURSIVE LowerPasses(_, _, _)
LowerPasses(g, units, heads) ==
  LET s == LowerFrom([g |-> g, visited |-> {}, changed |-> {}, units |-> units, done |-> FALSE],
                     Ascending(leaves(g)), heads)
  IN IF s.done THEN LowerPasses(s.g, s.units, heads) ELSE s
\* A lowered unit comes back below the root.
ReAdd(g, u) ==
  LET lit == CHOOSE l \in Clause(g, u) : TRUE
      new == [Node("derived", mergeClauses(Clause(g, g.root), Clause(g, u), Abs(lit)))
              EXCEPT !.ant1 = g.root, !.ant2 = u, !.pivot = Abs(lit)]
      h == addRes(addRes(NewNode(g, new), u, g.next), g.root, g.next)
  IN IF Clause(g, g.root) = {} THEN g ELSE [h EXCEPT !.root = g.next]
recycleUnits(g, heads) ==
  LET s == LowerPasses(g, {}, heads) IN FoldLeft(ReAdd, s.g, Ascending(s.units))

---------------------------------------------------------------------------
\* Structural hashing: one node for each pair of antecedents.

HashAt(s, i) ==
  LET n == s.g.node[i]
      pair == {n.ant1, n.ant2}
      r == s.map[pair]
  IN IF isLeaf(s.g, i) THEN s
     ELSE IF pair \notin DOMAIN s.map
     THEN [s EXCEPT !.map = [p \in DOMAIN @ \cup {pair} |-> IF p = pair THEN i ELSE @[p]]]
     ELSE [s EXCEPT !.g = removeNode(remRes(remRes(MoveResolvents(@, i, r), n.ant1, i), n.ant2, i), i)]
RECURSIVE HashFrom(_, _, _)
\* Depth first, the first antecedent first, on the graph as it changes.
HashFrom(s, stack, visited) ==
  IF stack = << >> THEN s.g
  ELSE LET i == Last(stack)
           next == SelectSeq(<<s.g.node[i].ant1, s.g.node[i].ant2>>, LAMBDA a : a # 0 /\ a \notin visited)
       IN IF i \in visited THEN HashFrom(s, Front(stack), visited)
          ELSE IF next # << >> THEN HashFrom(s, Append(stack, Head(next)), visited)
          ELSE HashFrom(HashAt(s, i), Front(stack), visited \cup {i})
proofPostStructuralHashing(g) == HashFrom([g |-> g, map |-> << >>], <<g.root>>, {})
=============================================================================
