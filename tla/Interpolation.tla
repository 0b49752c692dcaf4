---------------------------- MODULE Interpolation ----------------------------
(***************************************************************************)
(* Craig interpolants from a resolution proof                              *)
(* (proof/InterpolationContext.cc): every node of the proof gets a partial *)
(* interpolant and, for its shared variables, a colour; the interpolant of *)
(* the empty clause is the answer.  A formula is the set of valuations it  *)
(* is true in (a valuation is the set of its true atoms), with the atoms   *)
(* its text mentions, none for the constants.  The environment e holds the *)
(* atoms, the theory's worlds, the assertions each atom and each clause    *)
(* come from, those of the first group (e.mask), the symbols of the atoms  *)
(* and the shared ones, the assumed literals and the labelling.                                                         *)
(***************************************************************************)
EXTENDS ProofGraph

Algorithms == {"mcmillan", "pudlak", "mcmillanp", "ps", "psw", "pss"}

---------------------------------------------------------------------------
\* Formulas.

Formula(S, mentioned) == [holds |-> S, over |-> mentioned]
TrueIn(e) == Formula(SUBSET e.atoms, {})
Falsum == Formula({}, {})
LitFormula(e, l) == Formula({w \in SUBSET e.atoms : l \in w \/ (l < 0 /\ -l \notin w)}, {Abs(l)})
Constant(f) == f.over = {}
mkOr(f, g) == IF Constant(f) THEN IF f.holds = {} THEN g ELSE f
              ELSE IF Constant(g) THEN IF g.holds = {} THEN f ELSE g
              ELSE Formula(f.holds \cup g.holds, f.over \cup g.over)
mkAnd(f, g) == IF Constant(f) THEN IF f.holds = {} THEN f ELSE g
               ELSE IF Constant(g) THEN IF g.holds = {} THEN g ELSE f
               ELSE Formula(f.holds \cap g.holds, f.over \cup g.over)

---------------------------------------------------------------------------
\* Classes: of variables, by the assertions they occur in, and of clauses.

getClass(parts, mask) == IF parts \subseteq mask THEN "A" ELSE IF parts \cap mask = {} THEN "B" ELSE "AB"
isAssumedLiteral(e, l) == l \in e.assumed
isAssumedVar(e, v) == isAssumedLiteral(e, v) \/ isAssumedLiteral(e, -v)
getVarClass(e, v) == IF isAssumedVar(e, v) THEN "AB" ELSE getClass(e.parts[v], e.mask)
getClauseColor(e, c) == getClass(e.clauseParts[c], e.mask)
Shared(e, c) == {v \in VarOf(c) : getVarClass(e, v) = "AB"}

\* How often a shared variable occurs in the original clauses of a class.
Occurrences(e, g, v, class) ==
  Cardinality({i \in leaves(g) : /\ g.node[i].type = "orig"
                                 /\ v \in VarOf(Clause(g, i))
                                 /\ getClauseColor(e, g.node[i].cref) = class})
computePSFunction(e, g, v) == IF Occurrences(e, g, v, "A") > Occurrences(e, g, v, "B") THEN {"a"} ELSE {"b"}

\* The colour of a shared variable in a leaf.
LeafColor(e, g, v) ==
  LET ps == computePSFunction(e, g, v)
  IN CASE e.alg = "mcmillan" -> {"b"}
       [] e.alg = "pudlak" -> {"a", "b"}
       [] e.alg = "mcmillanp" -> {"a"}
       [] e.alg = "ps" -> ps
       [] e.alg = "psw" -> IF ps = {"a"} THEN ps ELSE {"a", "b"}
       [] e.alg = "pss" -> IF ps = {"a"} THEN {"a", "b"} ELSE ps
labelLeaf(e, g, c) == [v \in Shared(e, c) |-> LeafColor(e, g, v)]
\* A variable's colour in a node with colours "color".
getVarColor(e, color, v) == CASE getVarClass(e, v) = "A" -> {"a"}
                              [] getVarClass(e, v) = "B" -> {"b"}
                              [] OTHER -> color[v]

---------------------------------------------------------------------------
\* Leaves.

getRestrictedNodeClause(e, c, color, wanted) ==
  {l \in c : ~isAssumedLiteral(e, -l) /\ getVarColor(e, color, Abs(l)) = wanted}
getInterpolantForOriginalClause(e, c, color, class) ==
  IF class = "A"
  THEN FoldSet(LAMBDA l, f : mkOr(f, LitFormula(e, l)), Falsum, getRestrictedNodeClause(e, c, color, {"b"}))
  ELSE FoldSet(LAMBDA l, f : mkAnd(f, LitFormula(e, -l)), TrueIn(e), getRestrictedNodeClause(e, c, color, {"a"}))
computePartialInterpolantForOriginalClause(e, n, color) ==
  getInterpolantForOriginalClause(e, n.clause, color, IF getClauseColor(e, n.cref) = "B" THEN "B" ELSE "A")
\* A split is of A unless one of its literals is of B and none of A.
computePartialInterpolantForSplitClause(e, n, color) ==
  LET classes == {getVarClass(e, v) : v \in VarOf(n.clause)}
  IN getInterpolantForOriginalClause(e, n.clause, color, IF "B" \in classes /\ "A" \notin classes THEN "B" ELSE "A")

\* The theory solver's interpolant of a lemma: what the negated literals coloured a say of the shared atoms.
\* It may use atoms of its own, of symbols that both groups use.
SharedAtoms(e) == {v \in e.atoms : e.symbols[v] \subseteq e.shared}
getInterpolant(e, c, color) ==
  LET ofA == {-l : l \in {x \in c : "a" \in getVarColor(e, color, Abs(x))}}
      models == {w \in e.worlds : \A l \in ofA : l \in w \/ (l < 0 /\ -l \notin w)}
      seen == {w \cap SharedAtoms(e) : w \in models}
      S == {w \in SUBSET e.atoms : w \cap SharedAtoms(e) \in seen}
  IN Formula(S, IF S \in {{}, SUBSET e.atoms} THEN {} ELSE SharedAtoms(e))
PartialOfLeaf(e, n, color) ==
  CASE n.type = "orig" -> computePartialInterpolantForOriginalClause(e, n, color)
    [] n.type = "theory" -> getInterpolant(e, n.clause, color)
    [] n.type = "split" -> computePartialInterpolantForSplitClause(e, n, color)
    [] n.type = "assumption" -> TrueIn(e)

---------------------------------------------------------------------------
\* Inner nodes; a datum is a node's colours and partial interpolant.

Colors(d, v) == IF v \in DOMAIN d.color THEN d.color[v] ELSE {}
updateColoringfromAnts(d1, d2) == [v \in DOMAIN d1.color \cup DOMAIN d2.color |-> Colors(d1, v) \cup Colors(d2, v)]
clearPivotColoring(color, v) == [x \in DOMAIN color \ {v} |-> color[x]]
\* Faulty: an assumption's literal is a shared one like any other.
PivotColorOfAssumption(e, color, v) == getVarColor(e, color, v)
\* "s" for an assumption, whose literals count as absent.
getPivotColor(e, color, v) == IF isAssumedVar(e, v) THEN {"s"} ELSE getVarColor(e, color, v)
\* Faulty: the literals guard each other's partial interpolant.
CombinedCrossed(e, pivot, c, f1, f2) ==
  CASE c = {"s"} -> IF isAssumedLiteral(e, pivot) THEN f2 ELSE f1
    [] c = {"a"} -> mkOr(f1, f2)
    [] c = {"b"} -> mkAnd(f1, f2)
    [] c = {"a", "b"} -> mkAnd(mkOr(f1, LitFormula(e, -pivot)), mkOr(f2, LitFormula(e, pivot)))
Combined(e, pivot, c, f1, f2) ==
  CASE c = {"s"} -> IF isAssumedLiteral(e, pivot) THEN f2 ELSE f1
    [] c = {"a"} -> mkOr(f1, f2)
    [] c = {"b"} -> mkAnd(f1, f2)
    [] c = {"a", "b"} -> mkAnd(mkOr(f1, LitFormula(e, pivot)), mkOr(f2, LitFormula(e, -pivot)))
compInterpLabelingInner(e, n, d1, d2) ==
  LET color == updateColoringfromAnts(d1, d2)
  IN [color |-> clearPivotColoring(color, n.pivot),
      itp |-> Combined(e, n.pivot, getPivotColor(e, color, n.pivot), d1.itp, d2.itp)]
DatumOf(e, g, data, i) ==
  LET n == g.node[i]
      color == labelLeaf(e, g, n.clause)
  IN IF isLeaf(g, i) THEN [color |-> color, itp |-> PartialOfLeaf(e, n, color)]
     ELSE compInterpLabelingInner(e, n, data[n.ant1], data[n.ant2])
produceSingleInterpolant(e, g) ==
  FoldLeft(LAMBDA data, i : [j \in DOMAIN data \cup {i} |-> IF j = i THEN DatumOf(e, g, data, i) ELSE data[j]],
           << >>, topolSortingTopDown(g))[g.root].itp
=============================================================================
