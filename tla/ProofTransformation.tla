------------------------- MODULE ProofTransformation -------------------------
(***************************************************************************)
(* Local transformations of a resolution proof (proof/PGRules.cc): two     *)
(* resolution steps, of w from v1 and v2 and of v from w and v3, are       *)
(* swapped or cut short.  A traversal applies at most one rule at each     *)
(* node, on the way from the leaves; proofs are reduced by such            *)
(* traversals, and the variables that belong to no partition are brought   *)
(* to the leaves by them, where theory lemmas are joined to get rid of     *)
(* them (PGTransformationAlgorithms.cc, PGBuild.cc).                       *)
(***************************************************************************)
EXTENDS ProofGraph

SwapRules == {"A1", "A1B", "A1prime", "A2", "A2B", "A2u", "B2"}
CutRules == {"B1", "B2prime", "B3"}
NoRule == [type |-> "NO"]
enabled(ra) == ra.type # "NO"

Other(g, v, a) == IF g.node[v].ant1 = a THEN g.node[v].ant2 ELSE g.node[v].ant1
Swap(g, v, old, new) == [g EXCEPT !.node[v] = Redirect(@, old, new)]
AntsOf(g, i) == {g.node[i].ant1, g.node[i].ant2} \ {0}

\* The rule for v and the step w above it that is not v3.
RuleType(g, v1, v2, w, v3, v) ==
  LET t0 == g.node[w].pivot
      t1 == g.node[v].pivot
      shared == t1 \in VarOf(Clause(g, v1)) /\ t1 \in VarOf(Clause(g, v2))
      above == t0 \in VarOf(Clause(g, v3))
      samePivot == ~isLeaf(g, v3) /\ g.node[v3].pivot = t0
      sameSign == hasOccurrenceBin(Clause(g, v3), t0) = hasOccurrenceBin(Clause(g, v1), t0)
  IN CASE ~shared /\ ~above -> IF samePivot /\ v2 \in AntsOf(g, v3) /\ getNumResolvents(g, w) = 1 THEN "A1prime"
                               ELSE IF samePivot THEN "A2B"
                               ELSE IF Cardinality(Clause(g, v2)) = 1 THEN "A2u" ELSE "A2"
       [] shared /\ ~above -> IF samePivot THEN "A1B" ELSE "A1"
       [] shared /\ above -> "B1"
       [] ~shared /\ above /\ sameSign -> IF Cardinality(Clause(g, v)) = 1 THEN "B2" ELSE "B2prime"
       [] OTHER -> "B3"
getRuleContext(g, v3, v) ==
  LET w == Other(g, v, v3)
      a == g.node[w].ant1
      b == g.node[w].ant2
      t0 == g.node[w].pivot
      t1 == g.node[v].pivot
      has(i) == t1 \in VarOf(Clause(g, i))
      sign(i) == hasOccurrenceBin(Clause(g, i), t0)
      first == IF has(a) /\ has(b) THEN t0 \in VarOf(Clause(g, v3)) => sign(a) = sign(v3) ELSE has(a)
      v1 == IF first THEN a ELSE b
      v2 == IF first THEN b ELSE a
  IN IF isLeaf(g, w) THEN NoRule
     ELSE [type |-> RuleType(g, v1, v2, w, v3, v), v1 |-> v1, v2 |-> v2, w |-> w, v3 |-> v3, v |-> v]

---------------------------------------------------------------------------
\* The rules.

SwapPivots(g, w, v) == [g EXCEPT !.node[w].pivot = g.node[v].pivot, !.node[v].pivot = g.node[w].pivot]
Resolved(g, i, c, d, pivot) == [g EXCEPT !.node[i].clause = mergeClauses(Clause(g, c), Clause(g, d), pivot)]

\* Both antecedents of w are resolved with v3.
applyRuleA1(g, ra) ==
  LET piv == g.node[ra.v].pivot
      y == g.next
      g1 == Swap(Resolved(g, ra.w, ra.v1, ra.v3, piv), ra.w, ra.v2, ra.v3)
      new == [Node("derived", mergeClauses(Clause(g, ra.v2), Clause(g, ra.v3), piv))
              EXCEPT !.ant1 = ra.v2, !.ant2 = ra.v3, !.pivot = piv, !.res = {ra.v}]
      g2 == NewNode(addRes(remRes(g1, ra.v3, ra.v), ra.v3, ra.w), new)
      g3 == addRes(addRes(remRes(g2, ra.v2, ra.w), ra.v2, y), ra.v3, y)
  IN Swap(SwapPivots(g3, ra.w, ra.v), ra.v, ra.v3, y)
\* Back from there.
applyRuleA1Prime(g, ra) ==
  LET new == Other(g, ra.v3, ra.v2)
      g1 == Resolved(g, ra.w, ra.v1, new, g.node[ra.v].pivot)
      g2 == [g1 EXCEPT !.node[ra.w].ant1 = ra.v1, !.node[ra.w].ant2 = new,
                       !.node[ra.v].ant1 = ra.w, !.node[ra.v].ant2 = ra.v2]
      g3 == addRes(remRes(addRes(remRes(SwapPivots(g2, ra.w, ra.v), ra.v2, ra.w), ra.v2, ra.v), ra.v3, ra.v), new, ra.w)
  IN IF getNumResolvents(g3, ra.v3) = 0
     THEN removeNode(remRes(remRes(g3, new, ra.v3), ra.v2, ra.v3), ra.v3) ELSE g3
\* v2 and v3 change places.
Exchange(g, ra) ==
  LET g1 == Swap(Swap(g, ra.w, ra.v2, ra.v3), ra.v, ra.v3, ra.v2)
      g2 == addRes(remRes(addRes(remRes(g1, ra.v2, ra.w), ra.v2, ra.v), ra.v3, ra.v), ra.v3, ra.w)
  IN Resolved(g2, ra.w, ra.v1, ra.v3, g.node[ra.v].pivot)
applyRuleA2(g, ra) == SwapPivots(Exchange(g, ra), ra.w, ra.v)
applyRuleB2(g, ra) ==
  SwapPivots(Resolved(Exchange(g, ra), ra.v, ra.w, ra.v2, g.node[ra.w].pivot), ra.w, ra.v)
\* v2 has nothing to add.
applyRuleB1(g, ra) ==
  LET g1 == remRes(addRes(Swap(g, ra.v, ra.w, ra.v1), ra.v1, ra.v), ra.w, ra.v)
  IN removeTree(Resolved(g1, ra.v, ra.v1, ra.v3, g.node[ra.v].pivot), ra.w)
\* v1 and v3 have nothing to add: v2 takes the place of v.
applyRuleB3(g, ra) ==
  LET g1 == MoveResolvents(remRes(remRes(g, ra.w, ra.v), ra.v3, ra.v), ra.v, ra.v2)
      g2 == IF getNumResolvents(g1, ra.w) = 0
            THEN removeTree(removeNode(remRes(remRes(g1, ra.v1, ra.w), ra.v2, ra.w), ra.w), ra.v1) ELSE g1
  IN removeNode(removeTree(g2, ra.v3), ra.v)
ruleApply(g, ra) ==
  CASE ra.type \in {"A1", "A1B"} -> applyRuleA1(g, ra)
    [] ra.type = "A1prime" -> applyRuleA1Prime(g, ra)
    [] ra.type \in {"A2", "A2u", "A2B"} -> applyRuleA2(g, ra)
    [] ra.type = "B2" -> applyRuleB2(g, ra)
    [] ra.type \in {"B1", "B2prime"} -> applyRuleB1(g, ra)
    [] ra.type = "B3" -> applyRuleB3(g, ra)

\* A copy of w for v alone, where w has other resolvents that a swap would change.
dupliNode(g, ra) ==
  LET n == [g.node[ra.w] EXCEPT !.res = {ra.v}]
      h == addRes(addRes(NewNode(g, n), n.ant1, g.next), n.ant2, g.next)
  IN Swap(remRes(h, ra.w, ra.v), ra.v, ra.w, g.next)
Duplicates(g, ra) == ra.type \in SwapRules /\ getNumResolvents(g, ra.w) > 1
Applied(g, ra) == IF Duplicates(g, ra) THEN ruleApply(dupliNode(g, ra), [ra EXCEPT !.w = g.next]) ELSE ruleApply(g, ra)

---------------------------------------------------------------------------
\* Which of the two rules at a node is applied: 1, 2, or 0 for none.

\* Allowed when it does not copy and does not push a shared subproof up.
allowSwapRuleForReduction(g, ra) ==
  /\ getNumResolvents(g, ra.w) = 1
  /\ getNumResolvents(g, ra.v2) <= getNumResolvents(g, ra.v3)
  /\ ra.type \in SwapRules \ {"A1", "A1B"}
\* The rules from the most to the least wanted.
SwapOrder == <<{"A1prime"}, {"B2"}, {"A2B"}, {"A2", "A2u"}>>
Wanted(order, type) == CHOOSE i \in 1..Len(order) : type \in order[i]
handleRuleApplicationForReduction(g, r1, r2, heads) ==
  LET allowed(r) == enabled(r) /\ (r.type \in CutRules \/ allowSwapRuleForReduction(g, r))
      order == <<{"B3"}, {"B1", "B2prime"}>> \o SwapOrder
      w1 == Wanted(order, r1.type)
      w2 == Wanted(order, r2.type)
  IN IF allowed(r1) /\ allowed(r2) THEN IF w1 < w2 THEN 1 ELSE IF w2 < w1 THEN 2 ELSE IF r1.v \in heads THEN 1 ELSE 2
     ELSE IF allowed(r1) THEN 1 ELSE IF allowed(r2) THEN 2 ELSE 0

\* A step on a light variable goes above one that is not.
LiftingVarsRuleHandler(g, r1, r2, light) ==
  LET allowed(r) == enabled(r) /\ g.node[r.v].pivot \in light /\ g.node[r.w].pivot \notin light
  IN IF ~allowed(r1) THEN IF allowed(r2) THEN 2 ELSE 0
     ELSE IF ~allowed(r2) \/ r1.type \in CutRules THEN 1
     ELSE IF r2.type \in CutRules THEN 2
     ELSE IF r1.type # "A2" /\ r2.type = "A2" THEN 2 ELSE 1

---------------------------------------------------------------------------
\* A traversal: the graph, the nodes visited, those whose clause changed, whether a rule was applied.

\* "mode" says what the traversal is for, which variables are light, and where ties go to the first.
Chosen(g, r1, r2, mode) == IF mode.reduces THEN handleRuleApplicationForReduction(g, r1, r2, mode.heads)
                           ELSE LiftingVarsRuleHandler(g, r1, r2, mode.light)
\* A node whose pivots are both there.
Transformed(s, i, mode) ==
  LET n == s.g.node[i]
      stale == AntsOf(s.g, i) \cap s.changed # {}
      g == IF stale THEN Merge(s.g, i) ELSE s.g
      r1 == getRuleContext(g, n.ant1, i)
      r2 == getRuleContext(g, n.ant2, i)
      pick == Chosen(g, r1, r2, mode)
      ra == IF pick = 2 THEN r2 ELSE r1
      new == IF pick = 0 THEN {} ELSE IF ra.type \in {"B1", "B2", "B2prime"} THEN {i} ELSE IF ra.type = "B3" THEN {ra.v2} ELSE {}
  IN [s EXCEPT !.g = IF pick = 0 THEN g ELSE Applied(g, ra), !.done = @ \/ pick # 0,
               !.changed = @ \cup (IF stale THEN {i} ELSE {}) \cup new]
Bypassed(s, i, heads) ==
  LET r == Replacing(s.g, i, heads) IN [s EXCEPT !.g = ReplaceBy(@, i, r), !.changed = @ \cup {r}]
RECURSIVE TraverseFrom(_, _, _)
TraverseFrom(s, q, mode) ==
  IF q = << >> THEN s
  ELSE LET i == Head(q)
           t == [s EXCEPT !.visited = @ \cup {i}]
       IN IF i \notin Live(s.g) \/ i \in s.visited THEN TraverseFrom(s, Tail(q), mode)
          ELSE IF Waits(s.g, i, s.visited) THEN TraverseFrom(s, Tail(q), mode)
          ELSE TraverseFrom(IF isLeaf(s.g, i) THEN t
                            ELSE IF BothPivots(s.g, i) THEN Transformed(t, i, mode) ELSE Bypassed(t, i, mode.heads),
                            Tail(q) \o Ascending(s.g.node[i].res \cap Live(s.g)), mode)
\* One loop of proofTransformAndRestructure().
Traverse(g, mode) == TraverseFrom([g |-> g, visited |-> {}, changed |-> {}, done |-> FALSE], Ascending(leaves(g)), mode)
ReduceOnce(g, heads) == Traverse(g, [reduces |-> TRUE, heads |-> heads, light |-> {}]).g
liftVarsToLeaves(g, light, heads) == Traverse(g, [reduces |-> FALSE, heads |-> heads, light |-> light])

---------------------------------------------------------------------------
\* Lemmas that share a light variable are joined.

Mixed(g, i, light) == VarOf(Clause(g, i)) \cap light # {}
\* A resolvent of two leaves that were met becomes a leaf.
JoinAt(s, r) ==
  LET ants == AntsOf(s.g, r)
      h == [s.g EXCEPT !.node = [i \in DOMAIN @ |->
              IF i = r THEN [@[i] EXCEPT !.type = "theory", !.ant1 = 0, !.ant2 = 0]
              ELSE IF i \in ants THEN [@[i] EXCEPT !.res = @ \ {r}] ELSE @[i]]]
      unused == {a \in ants : h.node[a].res = {}}
  IN IF ~(ants \subseteq s.visited) THEN s
     ELSE [s EXCEPT !.g = [h EXCEPT !.node = [i \in DOMAIN @ \ unused |-> @[i]]], !.q = Append(@, r)]
RECURSIVE JoinFrom(_, _)
JoinFrom(s, light) ==
  IF s.q = << >> THEN s
  ELSE LET i == Head(s.q)
           t == [s EXCEPT !.q = Tail(@), !.visited = @ \cup {i}]
           rs == s.g.node[i].res
       IN IF ~Mixed(s.g, i, light) THEN JoinFrom(t, light)
          ELSE IF \E r \in rs : s.g.node[r].pivot \notin light THEN [t EXCEPT !.failed = TRUE]
          ELSE JoinFrom(FoldLeft(JoinAt, t, Ascending(rs)), light)
replaceSubproofsWithNoPartitionTheoryVars(g, light) ==
  JoinFrom([g |-> g, visited |-> {}, q |-> Ascending(leaves(g)), failed |-> FALSE], light)
=============================================================================
