------------------------------- MODULE Proofs -------------------------------
(***************************************************************************)
(* From the log of the SAT solver to interpolants: after an unsatisfiable  *)
(* check the derivation of the empty clause becomes a graph, variables of  *)
(* no assertion are got rid of, the graph is reduced if that is asked for, *)
(* and interpolants are read off it (InterpolationContext, PGMain.cc).     *)
(* The assertions of the stack, and those every atom occurs in, are kept   *)
(* beside the log (PartitionManager).                                      *)
(***************************************************************************)
EXTENDS ResolutionProof, ProofTransformation, Interpolation

CONSTANT
  Heads   \* bound: the nodes at which a tie goes to the first alternative, a few sets of them

VARIABLES
  asserted,   \* per level of the stack, the clauses asserted with their assertion
  partitions, \* getIPartitions(): the assertions an atom belongs to
  graph,      \* proof_graph, NoGraph while there is none
  light,      \* noPartitionVars
  stage,      \* "none", "lift", "lifted", "ready", "done" or "thrown"
  reduced,    \* the steps of the reduction that are done
  answer      \* the interpolants for each first group

contextVars == <<graph, light, stage, reduced, answer>>
proofVars == <<logVars, asserted, partitions, contextVars>>

NoGraph == [node |-> << >>, root |-> 0, next |-> 0]
ScriptAtoms == DOMAIN problem.symbols
Asserted == UNION {asserted[i] : i \in 1..Len(asserted)}
Parts == {a.part : a \in Asserted}
\* Partitions of a symbol, those of the asserted atoms it is in.
SymbolParts(s) == UNION {partitions[v] : v \in {x \in ScriptAtoms : s \in problem.symbols[x]}}
computeAllowedPartitions(v) == {p \in Parts : \A s \in problem.symbols[v] : p \in SymbolParts(s)}

---------------------------------------------------------------------------
\* The log goes on; what is asserted and what popped is noted.

Logs ==
  /\ stage = "none"
  /\ \/ PropagateClause \/ Conflict \/ TheoryConflict \/ TheoryDeduction \/ Split \/ simplify
     \/ Assume \/ Decide \/ Model \/ CheckKnown \/ Check
  /\ UNCHANGED <<asserted, partitions, contextVars>>
Asserts ==
  /\ stage = "none"
  /\ addOriginalClause
  /\ LET a == [clause |-> problem.script[at + 1].clause, part |-> problem.script[at + 1].part]
     IN /\ asserted' = [asserted EXCEPT ![Len(asserted)] = @ \cup {a}]
        /\ partitions' = [v \in ScriptAtoms |-> partitions[v] \cup (IF v \in VarSet(a.clause) THEN {a.part} ELSE {})]
  /\ UNCHANGED contextVars
Pushes == stage = "none" /\ Push /\ asserted' = Append(asserted, {}) /\ UNCHANGED <<partitions, contextVars>>
\* MainSolver::pop(): the partitions of what is popped are invalidated.
Pops ==
  /\ stage = "none"
  /\ Pop
  /\ asserted' = Front(asserted)
  /\ partitions' = [v \in ScriptAtoms |-> partitions[v] \ {a.part : a \in Last(asserted)}]
  /\ UNCHANGED contextVars

---------------------------------------------------------------------------
\* The graph.

ClausesNow == [c \in DOMAIN clauses \cup {CRef_Undef} |-> IF c = CRef_Undef THEN {} ELSE clauses[c]]
\* ProofGraph() and ensureNoLiteralsWithoutPartition().
OpenContext ==
  /\ stage = "none"
  /\ status = "unsat"
  /\ problem.script[at].do = "check"
  /\ LET g == buildProofGraph(proof, ClausesNow)
         vars == UNION {VarOf(Clause(g, i)) : i \in leaves(g)}
         orphans == {v \in vars \cap ScriptAtoms : partitions[v] = {}}
         mixed == {v \in orphans : computeAllowedPartitions(v) = {}}
     IN /\ partitions' = [v \in ScriptAtoms |-> IF v \in orphans THEN computeAllowedPartitions(v) ELSE partitions[v]]
        /\ light' = mixed
        /\ graph' = IF mixed = {} THEN g ELSE fillProofGraph(g)
        /\ stage' = IF mixed = {} THEN "ready" ELSE "lift"
  /\ UNCHANGED <<logVars, asserted, reduced, answer>>

\* eliminateNoPartitionTheoryVars(), a loop of the lifting at a time.
Lift ==
  /\ stage = "lift"
  /\ \E heads \in Heads :
       LET s == liftVarsToLeaves(graph, light, heads)
       IN graph' = s.g /\ stage' = IF s.done THEN "lift" ELSE "lifted"
  /\ UNCHANGED <<logVars, asserted, partitions, light, reduced, answer>>
JoinLemmas ==
  /\ stage = "lifted"
  /\ LET s == replaceSubproofsWithNoPartitionTheoryVars(graph, light)
     IN graph' = emptyProofGraph(s.g) /\ stage' = IF s.failed THEN "thrown" ELSE "ready"
  /\ UNCHANGED <<logVars, asserted, partitions, light, reduced, answer>>

\* transfProofForReduction(): units first, then two loops of which only the first has traversals.
Plan == <<"units", "recycle", "traverse", "traverse", "traverse", "recycle", "normalize">>
\* switchToRPHashing() reads an option that nothing sets: either order may be the one.
Recycled(g, heads, hashFirst) == IF hashFirst THEN recyclePivotsIter(proofPostStructuralHashing(g), heads)
                                 ELSE proofPostStructuralHashing(recyclePivotsIter(g, heads))
Reduced(g, what, heads, hashFirst) ==
  CASE what = "units" -> recycleUnits(fillProofGraph(g), heads)
    [] what = "recycle" -> Recycled(g, heads, hashFirst)
    [] what = "traverse" -> ReduceOnce(g, heads)
    [] what = "normalize" -> emptyProofGraph(normalizeAntecedentOrder(g))
reduceProofGraph ==
  /\ stage = "ready"
  /\ reduced < Len(Plan)
  /\ \E heads \in Heads, hashFirst \in BOOLEAN :
       /\ Plan[reduced + 1] # "recycle" => hashFirst
       /\ graph' = Reduced(graph, Plan[reduced + 1], heads, hashFirst)
  /\ reduced' = reduced + 1
  /\ UNCHANGED <<logVars, asserted, partitions, light, stage, answer>>

---------------------------------------------------------------------------
\* Interpolants.

Environment(group, alg) ==
  [atoms |-> ScriptAtoms, worlds |-> problem.worlds, mask |-> group, alg |-> alg, assumed |-> DOMAIN assumed,
   parts |-> partitions, clauseParts |-> [c \in DOMAIN mask |-> {mask[c]}],
   symbols |-> problem.symbols,
   shared |-> {s \in UNION {problem.symbols[v] : v \in ScriptAtoms} : getClass(SymbolParts(s), group) = "AB"}]
\* getSingleInterpolant() for every group, one of them at a time.
getSingleInterpolant ==
  /\ stage = "ready"
  /\ reduced \in {0, Len(Plan)}
  /\ \E alg \in Algorithms :
       answer' = [group \in SUBSET Parts \ {{}} |-> produceSingleInterpolant(Environment(group, alg), graph)]
  /\ stage' = "done"
  /\ UNCHANGED <<logVars, asserted, partitions, light, reduced, graph>>
CloseContext ==
  /\ stage = "done"
  /\ graph' = NoGraph /\ light' = {} /\ stage' = "none" /\ reduced' = 0 /\ answer' = << >>
  /\ UNCHANGED <<logVars, asserted, partitions>>

---------------------------------------------------------------------------
Init ==
  /\ InitLog
  /\ asserted = <<{}>>
  /\ partitions = [v \in ScriptAtoms |-> {}]
  /\ graph = NoGraph /\ light = {} /\ stage = "none" /\ reduced = 0 /\ answer = << >>
Next == Logs \/ Asserts \/ Pushes \/ Pops \/ OpenContext \/ Lift \/ JoinLemmas \/ reduceProofGraph
        \/ getSingleInterpolant \/ CloseContext
Spec == Init /\ [][Next]_proofVars

---------------------------------------------------------------------------
\* Properties.

\* The clause a chain derives.
Resolvent(c) ==
  FoldLeft(LAMBDA r, i : mergeClauses(r, clauses[proof[c].cla[i + 1]], proof[c].var[i]), clauses[proof[c].cla[1]],
           [i \in 1..Len(proof[c].var) |-> i])
Valid(c) == \A w \in problem.worlds : \E l \in c : Satisfies(w, l)
\* Every clause that a derivation, a literal of the trail or a current assumption rests on is kept with
\* its own derivation, through restarts of the search, removed learnt clauses and popped levels; a chain
\* derives its clause, and the lemmas it ends in hold in the theory (ResolutionProof, analyze,
\* analyzeFinal, finalizeResolutionProof).
DerivationsKept ==
  /\ \A c \in DOMAIN proof : \A i \in 1..Len(proof[c].cla) : proof[c].cla[i] \in DOMAIN proof \cap DOMAIN clauses
  /\ \A i \in 1..Len(trail) : trail[i].reason \notin {Decided, CRef_Fake} => trail[i].reason \in DOMAIN proof
  /\ \A l \in DOMAIN assumed : proof[assumed[l]].type = "assumption" /\ clauses[assumed[l]] = {l}
  /\ \A c \in DOMAIN proof : proof[c].cla # << >> => Resolvent(c) = ClausesNow[c]
  /\ \A c \in DOMAIN proof : proof[c].type = "theory" => Valid(ClausesNow[c])

IsProof(g) ==
  /\ g.root \in Live(g) /\ Clause(g, g.root) = {}
  /\ \A i \in Reachable(g) :
       IF isLeaf(g, i)
       THEN CASE g.node[i].type = "orig" -> Clause(g, i) = clauses[g.node[i].cref]
              [] g.node[i].type = "theory" -> Valid(Clause(g, i))
              [] g.node[i].type = "split" -> Clause(g, i) \in problem.splits
              [] g.node[i].type = "assumption" -> \E l \in DOMAIN assumed : Clause(g, i) = {l}
       ELSE /\ AntsOf(g, i) \subseteq Live(g)
            /\ {hasOccurrenceBin(Clause(g, a), g.node[i].pivot) : a \in AntsOf(g, i)} = {0, 1}
            /\ \A a \in AntsOf(g, i) : i \in g.node[a].res
  /\ \A i \in Live(g) : \A r \in g.node[i].res : r \in Live(g) /\ i \in AntsOf(g, r)
\* The graph proves the empty clause: leaves are clauses that were asserted, lemmas of the theory, splits or
\* assumptions, a step resolves on its pivot, and the two directions of every edge agree.  Building,
\* lifting, joining lemmas and reducing keep it so, and no lemma is left that cannot be joined (PGBuild.cc,
\* PGRules.cc, PGTransformationAlgorithms.cc, PGHelp.cc checkProof).
ProofRight == stage # "none" => stage # "thrown" /\ IsProof(fillProofGraph(graph))

Meets(w, group) == \A a \in Asserted : a.part \in group => \E l \in a.clause : Satisfies(w, l)
SymbolsOf(group) == UNION {problem.symbols[Var(l)] : l \in UNION {a.clause : a \in {x \in Asserted : x.part \in group}}}
\* Implied by the first group, inconsistent with the rest, over symbols of both.
Separates(f, group) ==
  /\ \A w \in problem.worlds : (Meets(w, group) => w \in f.holds) /\ (w \in f.holds => ~Meets(w, Parts \ group))
  /\ UNION {problem.symbols[v] : v \in f.over} \subseteq SymbolsOf(group) \cap SymbolsOf(Parts \ group)
\* Interpolants of growing groups form a path: each with what its successor's group adds implies the next.
Path(g1, g2) == \A w \in problem.worlds :
                  w \in answer[g1].holds /\ Meets(w, g2 \ g1) => w \in answer[g2].holds
\* What (get-interpolants) prints is an interpolant of each grouping it was asked for, and the answers for
\* successive groups fit together, whatever was reduced, lifted, popped and derived before (solver.cc,
\* C_solver_interpolant; getSingleInterpolant, InterpolationContext.cc).
InterpolantsRight ==
  stage = "done" =>
    /\ \A group \in DOMAIN answer : Separates(answer[group], group)
    /\ \A g1, g2 \in DOMAIN answer : g1 \subseteq g2 => Path(g1, g2)
=============================================================================
