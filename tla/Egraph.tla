------------------------------- MODULE Egraph -------------------------------
(***************************************************************************)
(* The congruence closure (tsolvers/egraph): EgraphSolver.cc, EnodeStore   *)
(* and Explainer.cc.  Terms are nodes; equal nodes share a root.  A table  *)
(* of signatures (a symbol with the roots of its arguments) and a vector   *)
(* of users per root find the terms that become congruent; rings of        *)
(* forbidden partners and bits of distinctions find the roots that may     *)
(* not be merged; a forest of edges, each with its reason, explains.       *)
(* Everything is undone from one stack.                                    *)
(*                                                                         *)
(* A call is broken into the steps of its loops: `todo' holds the calls    *)
(* that a declaration or an assertion still has to make, `pending' the     *)
(* merges of mergeLoop(), `goal' the height backtrackToStackSize() is on   *)
(* its way to.                                                             *)
(***************************************************************************)
EXTENDS TSolver, SequencesExt, FiniteSetsExt, Functions

CONSTANTS
    Nodes,          \* terms with an enode (the atoms are among them)
    Symbol, Args,   \* of a node: its symbol, its arguments
    True, False, Constants,
    Equalities, Distincts,  \* the atoms that are equations, and distinctions of more than two terms
    Early,          \* the atoms of the first assertions, in the order of their clauses
    NoNode, NoLiteral,
    MaxAsserted,    \* bound: literals asserted at a time
    Facts           \* bound: the atoms that may get their value at decision level 0

VARIABLES
    declared,       \* declared, and termToERef
    appears,        \* appearsInUF(): the Boolean terms known to be arguments of functions
    negated,        \* termToNegatedERef
    root, eq_next,  \* of a node: its root, and the ring of its class
    users,          \* parents: the use vector of a node, entries [node, marked]
    index,          \* of a node: the arguments at which it holds a place in a use vector
    sig_tab,        \* entries [sig, node]
    forbid,         \* [list, first]: Elists [e, reason, link] by address, and for a node its own
    dist_classes,
    exp_parent, exp_reason, exp_undo_stack,
    undo_stack, backtrack_points,
    explanation,
    pending, reason, congruence_pending,    \* mergeLoop()
    todo, goal, toReanalyze,
    stack,          \* THandler's: the literals given to this solver, oldest first
    units           \* the SAT solver's: those of decision level 0, in the order of its trail

storeVars == <<declared, appears, negated>>
classVars == <<root, eq_next, users, index, sig_tab, dist_classes>>
expVars == <<exp_parent, exp_reason, exp_undo_stack>>
loopVars == <<pending, reason, congruence_pending>>
vars == <<tsolverVars, storeVars, classVars, forbid, expVars, undo_stack, backtrack_points,
          explanation, loopVars, todo, goal, toReanalyze, stack, units>>

NoGoal == -1
Literals == [tr : Nodes, sgn : BOOLEAN]
Undo(oper, arg) == [oper |-> oper, arg |-> arg]
Std(l) == [type |-> "std", pta |-> l, pol |-> NoNode]       \* Expl
Pol(n) == [type |-> "pol", pta |-> NoLiteral, pol |-> n]

-----------------------------------------------------------------------------
(* Signatures and use vectors. *)

\* The signature of a node under the roots r.
Sig(r, n) == <<Symbol[n], [i \in DOMAIN Args[n] |-> r[Args[n][i]]]>>

lookupSig(tab, r, n) == {s.node : s \in {e \in tab : e.sig = Sig(r, n)}}
WithoutSigs(tab, r, ps) == {e \in tab : \A p \in ps : e.sig # Sig(r, p)}
WithSigs(tab, r, ps) == tab \cup {[sig |-> Sig(r, p), node |-> p] : p \in ps}

\* addToUseVectors(): a place for every argument that is the first of its class.
Places(r, n) == {i \in DOMAIN Args[n] : \A j \in 1..(i - 1) : r[Args[n][j]] # r[Args[n][i]]}
Entry(n) == [node |-> n, marked |-> FALSE]
UsedBy(use, r, ps) ==
    [c \in Nodes |-> use[c] \cup {Entry(p) : p \in {q \in ps : \E i \in Places(r, q) : r[Args[q][i]] = c}}]

\* removeFromUseVectors(), from the places remembered; and the same but for the vector of one root.
NotUsedBy(use, idx, r, ps) ==
    [c \in Nodes |-> use[c] \ {Entry(p) : p \in {q \in ps : \E i \in idx[q] : r[Args[q][i]] = c}}]
NotUsedByExcept(use, idx, r, ps, y) == [NotUsedBy(use, idx, r, ps) EXCEPT ![y] = use[y]]

Valid(use, y) == {e.node : e \in {e \in use[y] : ~ e.marked}}
getParentsSize(n) == Cardinality(users[n])

-----------------------------------------------------------------------------
(* Forbid lists: rings of Elists, a node's own being the one it points at. *)

Ring(next, a) ==
    LET step[k \in 0..Cardinality(DOMAIN next)] == IF k = 0 THEN a ELSE next[step[k - 1]]
    IN  {step[k] : k \in DOMAIN step}

\* The addresses of a ring from its first on.
RingSeq(F, a) ==
    LET links == [x \in DOMAIN F.list |-> F.list[x].link]
        n == Cardinality(Ring(links, a))
        step[k \in 1..n] == IF k = 1 THEN a ELSE links[step[k - 1]]
    IN  step

Fresh(F) == Min((1..(Cardinality(DOMAIN F.list) + 1)) \ DOMAIN F.list)

\* A new Elist that forbids e to the node n, right after n's own (or as the only one).
Forbid(F, n, e, why) ==
    LET x == Fresh(F)
        own == F.first[n]
    IN  IF own = 0
        THEN [list |-> (x :> [e |-> e, reason |-> why, link |-> x]) @@ F.list,
              first |-> [F.first EXCEPT ![n] = x]]
        ELSE [F EXCEPT !.list = (x :> [e |-> e, reason |-> why, link |-> F.list[own].link])
                                @@ [F.list EXCEPT ![own].link = x]]

\* The Elist of n that was added last, removed.
Newest(F, n) == F.list[F.first[n]].link
Without(F, x) == [a \in DOMAIN F.list \ {x} |-> F.list[a]]
Permit(F, n) ==
    LET own == F.first[n]
        x == Newest(F, n)
    IN  IF x = own
        THEN [list |-> Without(F, own), first |-> [F.first EXCEPT ![n] = 0]]
        ELSE [F EXCEPT !.list = Without([F EXCEPT !.list[own].link = F.list[x].link], x)]

\* assertNEq() and undoDisequality().
AddNEq(F, p, q, why) == Forbid(Forbid(F, q, p, why), p, q, why)
undoDisequality(F, x) ==
    LET y == F.list[Newest(F, x)].e
    IN  Permit(Permit(F, x), y)

\* Two rings become one, or one becomes two; an empty one is shared instead.
Swap(F, x, y) ==
    LET a == F.first[x]
        b == F.first[y]
    IN  [F EXCEPT !.list[a].link = F.list[b].link, !.list[b].link = F.list[a].link]
mergeForbidLists(F, x, y) ==
    IF F.first[y] = 0 THEN F
    ELSE IF F.first[x] = 0 THEN [F EXCEPT !.first[x] = F.first[y]]
    ELSE Swap(F, x, y)

\* Bug to detect: a list that was shared is taken for one that was spliced.
unmergeAlwaysSpliced(F, x, y) == IF F.first[y] = 0 THEN F ELSE Swap(F, x, y)
unmergeForbidLists(F, x, y) ==
    IF F.first[x] = F.first[y] /\ F.first[x] # 0 THEN [F EXCEPT !.first[x] = 0]
    ELSE IF F.first[y] = 0 THEN F
    ELSE Swap(F, x, y)

\* unmergeable() of two roots: the reasons why they are not to be merged, none if they may.
DistTerms(p, q) == dist_classes[p] \cap dist_classes[q]
OnLists(p, q) ==
    LET F == forbid
        ps == RingSeq(F, F.first[p])
        qs == RingSeq(F, F.first[q])
        Meets(k) == root[F.list[ps[k]].e] = q \/ root[F.list[qs[k]].e] = p
        hits == {k \in 1..Min({Len(ps), Len(qs)}) : Meets(k)}
        k == Min(hits)
    IN  IF F.first[p] = 0 \/ F.first[q] = 0 \/ hits = {} THEN {}
        ELSE {F.list[IF root[F.list[ps[k]].e] = q THEN ps[k] ELSE qs[k]].reason}
unmergeable(p, q) ==
    IF {p, q} \subseteq Constants THEN {[type |-> "cons", pta |-> NoLiteral, pol |-> NoNode]}
    ELSE IF DistTerms(p, q) # {}
    THEN {Std([tr |-> CHOOSE d \in DistTerms(p, q) : TRUE, sgn |-> TRUE])}
    ELSE OnLists(p, q)

-----------------------------------------------------------------------------
(* Explanations: a forest whose edges have a literal or a congruence for a reason. *)

\* The nodes from n up to the root of its tree.
PathUp(parent, n) ==
    LET step[k \in 1..Cardinality(Nodes)] ==
            IF k = 1 THEN n ELSE IF step[k - 1] = NoNode THEN NoNode ELSE parent[step[k - 1]]
    IN  SelectSeq(step, LAMBDA m : m # NoNode)

\* reRootOn(y), and the new edge from y to x.
Rerooted(parent, y) ==
    LET up == PathUp(parent, y)
    IN  [n \in Nodes |-> IF n = y THEN NoNode
                         ELSE IF \E i \in 2..Len(up) : up[i] = n
                              THEN up[(CHOOSE i \in 2..Len(up) : up[i] = n) - 1] ELSE parent[n]]
RerootedReasons(parent, reasons, y) ==
    LET up == PathUp(parent, y)
    IN  [n \in Nodes |-> IF n = y THEN NoLiteral
                         ELSE IF \E i \in 2..Len(up) : up[i] = n
                              THEN reasons[up[(CHOOSE i \in 2..Len(up) : up[i] = n) - 1]] ELSE reasons[n]]

EqSize(n) == Cardinality(Ring(eq_next, n))
\* storeExplanation(): the smaller class is hung below the other.
Hung(p, q) == IF EqSize(p) < EqSize(q) THEN <<q, p>> ELSE <<p, q>>
storedParent(p, q) ==
    LET e == Hung(p, q) IN [Rerooted(exp_parent, e[2]) EXCEPT ![e[2]] = e[1]]
storedReason(p, q, why) ==
    LET e == Hung(p, q) IN [RerootedReasons(exp_parent, exp_reason, e[2]) EXCEPT ![e[2]] = why]

\* removeExplanation() of an edge, whichever way it points by now.
Lower(parent, e) == IF parent[e[2]] = e[1] THEN e[2] ELSE e[1]
removeExplanation ==
    LET n == Lower(exp_parent, Last(exp_undo_stack))
    IN  /\ exp_parent' = [exp_parent EXCEPT ![n] = NoNode]
        /\ exp_reason' = [exp_reason EXCEPT ![n] = NoLiteral]
        /\ exp_undo_stack' = Front(exp_undo_stack)

\* The lower ends of the edges between two nodes of a tree.
EdgesBetween(parent, p, q) ==
    LET P == ToSet(PathUp(parent, p))
        Q == ToSet(PathUp(parent, q))
    IN  (P \ Q) \cup (Q \ P)

\* Bug to detect: a congruence has no reason.
explainEdges(parent, reasons, p, q) == {reasons[n] : n \in EdgesBetween(parent, p, q)} \ {NoLiteral}

\* explain(): the reasons of the edges, those of the arguments included where it is a congruence.
explain(parent, reasons, p, q) ==
    LET Congruent(n) == {<<Args[n][i], Args[parent[n]][i]>> : i \in DOMAIN Args[n]}
        Below(edges) == edges \cup UNION {UNION {EdgesBetween(parent, c[1], c[2]) : c \in Congruent(n)} :
                                          n \in {n \in edges : reasons[n] = NoLiteral}}
        reached[k \in 0..Cardinality(Nodes)] ==
            IF k = 0 THEN EdgesBetween(parent, p, q) ELSE Below(reached[k - 1])
    IN  {reasons[n] : n \in reached[Cardinality(Nodes)]} \ {NoLiteral}

-----------------------------------------------------------------------------
(* The terms: which are negations, what lies below, what a function takes.  *)

IsNot(n) == Symbol[n] = "not"
Boolean(n) == n \in Atoms \/ IsNot(n)
Base(n) == IF IsNot(n) THEN Args[n][1] ELSE n
NotNodes(n) == {m \in Nodes : IsNot(m) /\ Args[m] = <<n>>}
Partner(n) == IF IsNot(n) THEN Base(n) ELSE CHOOSE m \in NotNodes(n) : TRUE

\* declareTermRecursively(): the arguments first.
PostOrder == LET post[n \in Nodes] == FlattenSeq([i \in DOMAIN Args[n] |-> post[Args[n][i]]]) \o <<n>>
             IN  post
Below(n) == ToSet(PostOrder[n])
BooleanArguments(n) ==
    {Base(b) : b \in UNION {{m \in ToSet(Args[k]) : Boolean(m)} :
                            k \in {k \in Below(n) : ~ IsNot(k)}}}

Late == Atoms \ ToSet(Early)    \* what later assertions, or splits, bring in

Idle == pending = <<>> /\ todo = <<>> /\ goal = NoGoal
EarlyDeclared == ToSet(Early) \subseteq informed
AtStart == backtrack_points = <<>>

Init ==
    /\ TSolverInit
    /\ declared = {True, False}
    /\ appears = UNION {BooleanArguments(a) : a \in ToSet(Early)}
    /\ negated = [n \in Nodes |-> NoNode]
    /\ root = [n \in Nodes |-> n] /\ eq_next = [n \in Nodes |-> n]
    /\ users = [n \in Nodes |-> {}] /\ index = [n \in Nodes |-> {}]
    /\ sig_tab = {}
    /\ forbid = [list |-> <<>>, first |-> [n \in Nodes |-> 0]]
    /\ dist_classes = [n \in Nodes |-> {}]
    /\ exp_parent = [n \in Nodes |-> NoNode] /\ exp_reason = [n \in Nodes |-> NoLiteral]
    /\ exp_undo_stack = <<>> /\ undo_stack = <<>> /\ backtrack_points = <<>>
    /\ explanation = {}
    /\ pending = <<>> /\ reason = NoLiteral /\ congruence_pending = FALSE
    /\ todo = <<>> /\ goal = NoGoal /\ toReanalyze = <<>>
    /\ stack = <<>> /\ units = <<>>

Call(op, x, y, why) == [op |-> op, x |-> x, y |-> y, why |-> why]

\* declareAtom(), of the atoms of the first assertions, of a later one, or of an equation of known
\* terms that a split brings up in the middle of a search.
declareAtom ==
    \E a \in IF EarlyDeclared THEN Late \ informed ELSE {Head(SelectSeq(Early, LAMBDA e : e \notin informed))} :
        /\ Idle /\ ~ has_explanation
        /\ AtStart \/ (a \in Late \cap Equalities /\ ToSet(Args[a]) \subseteq declared)
        /\ appears' = appears \cup BooleanArguments(a)
        /\ todo' = [i \in DOMAIN PostOrder[a] |-> Call("declare", PostOrder[a][i], NoNode, NoLiteral)]
                   \o <<Call("inform", a, NoNode, NoLiteral)>>
        /\ UNCHANGED <<tsolverVars, declared, negated, classVars, forbid, expVars, undo_stack,
                       backtrack_points, explanation, loopVars, goal, toReanalyze, stack, units>>

Now(op) == pending = <<>> /\ todo # <<>> /\ todo[1].op = op

\* constructTerm(): the enodes made for a term, its negation among them where it needs one.
Constructed(n) ==
    IF n \in declared THEN {}
    ELSE {n} \cup {m \in Nodes : Boolean(n) /\ Base(n) \in appears /\ m = Partner(n)}

\* declareTerm(): places in the tables; a Boolean term is forbidden to its negation.
Reanalyzable(ns) == IF AtStart THEN <<>> ELSE [i \in 1..Cardinality(ns) |-> Undo("REANALYZE", SetToSeq(ns)[i])]
declareTerm ==
    /\ Now("declare")
    /\ LET n == todo[1].x
           made == Constructed(n)
           parents == {m \in made : Args[m] # <<>>}
           unseen == {m \in parents : lookupSig(sig_tab, root, m) = {}}
           pair == Cardinality(made) = 2 /\ n \notin Distincts
       IN  /\ declared' = declared \cup made
           /\ sig_tab' = WithSigs(sig_tab, root, unseen)
           /\ users' = UsedBy(users, root, unseen)
           /\ index' = [m \in Nodes |-> IF m \in unseen THEN Places(root, m) ELSE index[m]]
           /\ negated' = IF pair THEN [negated EXCEPT ![n] = Partner(n)] ELSE negated
           /\ forbid' = IF pair THEN AddNEq(forbid, n, Partner(n), Pol(n)) ELSE forbid
           /\ undo_stack' = undo_stack \o Reanalyzable(parents)
                            \o (IF pair THEN <<Undo("DISEQ", Partner(n))>> ELSE <<>>)
           /\ informed' = informed \cup (made \cap {n} \cap Atoms)
    /\ todo' = Tail(todo)
    /\ UNCHANGED <<th_deductions, deductions_next, deductions_marks, polarity, has_explanation, appears,
                   root, eq_next, dist_classes, expVars, backtrack_points, explanation, loopVars,
                   goal, toReanalyze, stack, units>>

setInformed ==
    /\ Now("inform")
    /\ informed' = informed \cup {todo[1].x}
    /\ todo' = Tail(todo)
    /\ UNCHANGED <<th_deductions, deductions_next, deductions_marks, polarity, has_explanation, storeVars,
                   classVars, forbid, expVars, undo_stack, backtrack_points, explanation, loopVars,
                   goal, toReanalyze, stack, units>>

-----------------------------------------------------------------------------
(* assertLit() *)

\* addTrue() and addFalse(): a term joins a constant, its negation the other one.
Constant(b) == IF b THEN True ELSE False
Fix(l) ==
    <<Call("equal", l.tr, Constant(l.sgn), l)>>
    \o (IF negated[l.tr] = NoNode THEN <<>> ELSE <<Call("equal", negated[l.tr], Constant(~ l.sgn), l)>>)

Calls(l) ==
    IF l.tr \in Distincts THEN <<Call("distinct", l.tr, NoNode, l)>>
    ELSE IF l.tr \in Equalities
    THEN <<Call(IF l.sgn THEN "equal" ELSE "differ", Args[l.tr][1], Args[l.tr][2], l)>> \o Fix(l)
    ELSE Fix(l)

Known(l) == l.tr \in polarity /\ \E i \in DOMAIN th_deductions : th_deductions[i] = l

\* The SAT solver tells the literals of level 0 first, in every search in the same order; new ones
\* are found while nothing else is given.  A distinction of more than two terms is one of them, as
\* UFTheory keeps it only as a conjunct of the base frame.
Told(l) ==
    \/ /\ Len(stack) < Len(units) /\ l = units[Len(stack) + 1]
       /\ UNCHANGED units
    \/ /\ stack = units /\ l.tr \in Facts /\ (l.tr \in Distincts => l.sgn)
       /\ units' = Append(units, l)
    \/ /\ Len(stack) >= Len(units) /\ l.tr \notin Distincts
       /\ UNCHANGED units

\* pushBacktrackPoint() and assertLit(), as TSolverHandler calls them.
assertLit ==
    \E l \in [tr : informed, sgn : BOOLEAN] :
        /\ Idle /\ EarlyDeclared /\ ~ has_explanation /\ Len(stack) < MaxAsserted
        /\ \A i \in DOMAIN stack : stack[i].tr # l.tr
        /\ Told(l)
        /\ stack' = Append(stack, l)
        /\ backtrack_points' = Append(backtrack_points, Len(undo_stack))
        /\ deductions_marks' = Append(deductions_marks, Mark)
        /\ IF Known(l) THEN UNCHANGED <<polarity, undo_stack, todo>>
           ELSE /\ polarity' = polarity \cup {l.tr}
                /\ undo_stack' = Append(undo_stack, Undo("SET_POLARITY", l.tr))
                /\ todo' = Calls(l)
        /\ UNCHANGED <<informed, th_deductions, deductions_next, has_explanation, storeVars, classVars,
                       forbid, expVars, explanation, loopVars, goal, toReanalyze>>

\* A conflict, with the literals that doExplain() collects.
Conflict(expl) ==
    /\ explanation' = expl
    /\ has_explanation' = TRUE
    /\ todo' = <<>> /\ pending' = <<>>

\* assertEq(): the merge is pending.
assertEq ==
    /\ Now("equal")
    /\ pending' = <<<<todo[1].x, todo[1].y>>>>
    /\ reason' = todo[1].why /\ congruence_pending' = FALSE
    /\ todo' = Tail(todo)
    /\ UNCHANGED <<tsolverVars, storeVars, classVars, forbid, expVars, undo_stack, backtrack_points,
                   explanation, goal, toReanalyze, stack, units>>

\* assertNEq(): a conflict if the terms are equal, else their roots forbid each other.
assertNEq ==
    /\ Now("differ")
    /\ LET c == todo[1]
           p == root[c.x]
           q == root[c.y]
       IN  IF p = q
           THEN /\ Conflict(explain(exp_parent, exp_reason, c.x, c.y) \cup {c.why})
                /\ UNCHANGED <<forbid, undo_stack>>
           ELSE /\ forbid' = AddNEq(forbid, p, q, Std(c.why))
                /\ undo_stack' = Append(undo_stack, Undo("DISEQ", q))
                /\ todo' = Tail(todo)
                /\ UNCHANGED <<explanation, has_explanation, pending>>
    /\ UNCHANGED <<informed, th_deductions, deductions_next, deductions_marks, polarity, storeVars,
                   classVars, expVars, backtrack_points, reason, congruence_pending, goal, toReanalyze, stack, units>>

\* assertDist(): a conflict if two of the terms are equal, else a bit for each root.
assertDist ==
    /\ Now("distinct")
    /\ LET d == todo[1].x
           args == Args[d]
           Twin(i) == {j \in 1..(i - 1) : root[args[j]] = root[args[i]]}
           twins == {i \in DOMAIN args : Twin(i) # {}}
           i == Min(twins)
       IN  IF twins # {}
           THEN /\ Conflict(explain(exp_parent, exp_reason, args[i], args[Min(Twin(i))]) \cup {todo[1].why})
                /\ UNCHANGED <<dist_classes, undo_stack>>
           ELSE /\ dist_classes' = [n \in Nodes |-> IF \E k \in DOMAIN args : root[args[k]] = n
                                                    THEN dist_classes[n] \cup {d} ELSE dist_classes[n]]
                /\ undo_stack' = Append(undo_stack, Undo("DIST", d))
                /\ todo' = Tail(todo)
                /\ UNCHANGED <<explanation, has_explanation, pending>>
    /\ UNCHANGED <<informed, th_deductions, deductions_next, deductions_marks, polarity, storeVars,
                   root, eq_next, users, index, sig_tab, forbid, expVars, backtrack_points, reason,
                   congruence_pending, goal, toReanalyze, stack, units>>

-----------------------------------------------------------------------------
(* mergeLoop() *)

pendingPair == Last(pending)
Differ == root[pendingPair[1]] # root[pendingPair[2]]
Reasons == unmergeable(root[pendingPair[1]], root[pendingPair[2]])
Merging == pending # <<>> /\ Differ /\ Reasons = {}

mergeNothing ==
    /\ pending # <<>> /\ ~ Differ
    /\ pending' = Front(pending)
    /\ UNCHANGED <<tsolverVars, storeVars, classVars, forbid, expVars, undo_stack, backtrack_points,
                   explanation, reason, congruence_pending, todo, goal, toReanalyze, stack, units>>

WhyMerged == IF congruence_pending THEN NoLiteral ELSE reason

\* The conflict is explained with the new edge in place, which then goes; its tree stays rerooted.
mergeConflict ==
    /\ pending # <<>> /\ Differ /\ Reasons # {}
    /\ LET p == pendingPair[1]
           q == pendingPair[2]
           parent == storedParent(p, q)
           reasons == storedReason(p, q, WhyMerged)
           why == CHOOSE r \in Reasons : TRUE
           args == Args[why.pta.tr]
           Of(n) == args[Max({i \in DOMAIN args : root[args[i]] = root[n]})]
           low == Hung(p, q)[2]
       IN  /\ Conflict(CASE why.type = "cons" -> explain(parent, reasons, root[p], root[q])
                         [] why.type = "pol" -> explain(parent, reasons, why.pol, Partner(why.pol))
                                                \cup {[tr |-> False, sgn |-> TRUE]}
                         [] why.pta.tr \in Distincts -> explain(parent, reasons, Of(p), Of(q)) \cup {why.pta}
                         [] OTHER -> explain(parent, reasons, args[1], args[2]) \cup {why.pta})
           /\ exp_parent' = [parent EXCEPT ![low] = NoNode]
           /\ exp_reason' = [reasons EXCEPT ![low] = NoLiteral]
    /\ UNCHANGED <<informed, th_deductions, deductions_next, deductions_marks, polarity, storeVars,
                   classVars, forbid, exp_undo_stack, undo_stack, backtrack_points, reason,
                   congruence_pending, goal, toReanalyze, stack, units>>

\* merge(): a constant stays a root, else the one with more users does.
Swapped(p, q) == q \in Constants \/ (p \notin Constants /\ getParentsSize(p) < getParentsSize(q))

\* The members of a class, from y on around the ring.
Members(y) == LET n == EqSize(y)
                  step[k \in 1..n] == IF k = 1 THEN y ELSE eq_next[step[k - 1]]
              IN  step

\* Bug to detect: the deduced polarity is not that of the constant.
deduceTrue(x, y) ==
    IF x \notin {True, False} THEN <<>>
    ELSE LET known == SelectSeq(Members(y), LAMBDA v : v \notin polarity /\ ~ IsNot(v))
         IN  [i \in DOMAIN known |-> [tr |-> known[i], sgn |-> TRUE]]

\* deduce(): what is not known of the members of a class that joins a constant.
deduce(x, y) ==
    IF x \notin {True, False} THEN <<>>
    ELSE LET known == SelectSeq(Members(y), LAMBDA v : v \notin polarity /\ ~ IsNot(v))
         IN  [i \in DOMAIN known |-> [tr |-> known[i], sgn |-> x = True]]

\* The rings of two classes become one, or one becomes two.
Spliced(x, y) == [eq_next EXCEPT ![x] = eq_next[y], ![y] = eq_next[x]]

\* mergeEquivalenceClasses(): the roots once the class of y belongs to x.
RootsMerged(x, y) == [n \in Nodes |-> IF n \in Ring(eq_next, y) THEN x ELSE root[n]]

\* Which of the users, taken in an order, find their signature free.
FreeOf(order, tab, r) ==
    {order[i] : i \in {i \in DOMAIN order :
        lookupSig(tab, r, order[i]) = {} /\ \A j \in 1..(i - 1) : Sig(r, order[i]) # Sig(r, order[j])}}

\* processParentsBeforeMerge() takes the users of y out, processParentsAfterMerge() puts them back,
\* in any order, where their new signature is free; the others are congruent to what is there.
ReplaceUsers(y, new) ==
    LET parents == Valid(users, y)
        tab == WithoutSigs(sig_tab, root, parents)
        use == NotUsedByExcept(users, index, root, parents, y)
    IN  \E order \in SetToAllKPermutations(parents) :
          /\ Len(order) = Cardinality(parents)
          /\ LET free == FreeOf(order, tab, new)
                 tab2 == WithSigs(tab, new, free)
                 taken == SelectSeq(order, LAMBDA m : m \notin free)
             IN  /\ pending' = Front(pending)
                               \o [i \in DOMAIN taken |->
                                     <<taken[i], CHOOSE m \in lookupSig(tab2, new, taken[i]) : TRUE>>]
                 /\ sig_tab' = tab2
                 /\ users' = [UsedBy(use, new, free) EXCEPT
                                ![y] = {[node |-> m, marked |-> m \notin free] : m \in parents}]
                 /\ index' = [m \in Nodes |-> IF m \in free THEN Places(new, m) ELSE index[m]]

merge ==
    /\ Merging
    /\ LET p == root[pendingPair[1]]
           q == root[pendingPair[2]]
           x == IF Swapped(p, q) THEN q ELSE p
           y == IF Swapped(p, q) THEN p ELSE q
       IN  /\ StoreDeductions(deduce(x, y))
           /\ forbid' = mergeForbidLists(forbid, x, y)
           /\ dist_classes' = [dist_classes EXCEPT ![x] = dist_classes[x] \cup dist_classes[y]]
           /\ ReplaceUsers(y, RootsMerged(x, y))
           /\ root' = RootsMerged(x, y)
           /\ eq_next' = Spliced(x, y)
           /\ undo_stack' = Append(undo_stack, Undo("MERGE", y))
    /\ exp_parent' = storedParent(pendingPair[1], pendingPair[2])
    /\ exp_reason' = storedReason(pendingPair[1], pendingPair[2], WhyMerged)
    /\ exp_undo_stack' = Append(exp_undo_stack, Hung(pendingPair[1], pendingPair[2]))
    /\ congruence_pending' = TRUE
    /\ UNCHANGED <<informed, deductions_next, deductions_marks, has_explanation, storeVars,
                   backtrack_points, explanation, reason, todo, goal, toReanalyze, stack, units>>

-----------------------------------------------------------------------------
(* Backtracking *)

\* clearSearch(), after each search: it jumps back to level 0, and then takes that back as well.  A
\* search that ended in a conflict at level 0 is the last one.
clearSearch ==
    /\ Idle /\ stack = units /\ stack # <<>> /\ ~ has_explanation
    /\ todo' = [i \in DOMAIN stack |-> Call("pop", NoNode, NoNode, NoLiteral)]
    /\ UNCHANGED <<tsolverVars, storeVars, classVars, forbid, expVars, undo_stack, backtrack_points,
                   explanation, loopVars, goal, toReanalyze, stack, units>>

\* popBacktrackPoint(), up to the loop of backtrackToStackSize(): one of clearSearch(), or a jump back
\* in the search, which ends at level 0 at the latest.
popBacktrackPoint ==
    /\ \/ Now("pop") /\ goal = NoGoal /\ todo' = Tail(todo)
       \/ Idle /\ Len(stack) > Len(units) /\ UNCHANGED todo
    /\ goal' = Last(backtrack_points)
    /\ backtrack_points' = Front(backtrack_points)
    /\ explanation' = {} /\ has_explanation' = FALSE
    /\ toReanalyze' = <<>>
    /\ stack' = Front(stack)
    /\ UNCHANGED <<informed, th_deductions, deductions_next, deductions_marks, polarity, storeVars,
                   classVars, forbid, expVars, undo_stack, loopVars, units>>

Undoing(oper) == goal # NoGoal /\ Len(undo_stack) > goal /\ Last(undo_stack).oper = oper

\* unmergeEquivalenceClasses(): the class of y has y for a root again.
RootsUnmerged(x, y) ==
    [n \in Nodes |-> IF n \in Ring(Spliced(x, y), y) THEN y ELSE root[n]]

\* processParentsBeforeUnMerge() and processParentsAfterUnMerge(): every user of y is back, marked or not.
RestoreUsers(y, old) ==
    LET parents == Valid(users, y)
        kept == {e.node : e \in users[y]}
        use == [NotUsedBy(users, index, root, parents) EXCEPT ![y] = {}]
    IN  /\ sig_tab' = WithSigs(WithoutSigs(sig_tab, root, parents), old, kept)
        /\ users' = UsedBy(use, old, kept)
        /\ index' = [m \in Nodes |-> IF m \in kept THEN Places(old, m) ELSE index[m]]

undoMerge ==
    /\ Undoing("MERGE")
    /\ LET y == Last(undo_stack).arg
           x == root[y]
       IN  /\ RestoreUsers(y, RootsUnmerged(x, y))
           /\ root' = RootsUnmerged(x, y)
           /\ eq_next' = Spliced(x, y)
           /\ dist_classes' = [dist_classes EXCEPT ![x] = dist_classes[x] \ dist_classes[y]]
           /\ forbid' = unmergeForbidLists(forbid, x, y)
    /\ removeExplanation
    /\ undo_stack' = Front(undo_stack)
    /\ UNCHANGED <<tsolverVars, storeVars, backtrack_points, explanation, loopVars, todo, goal,
                   toReanalyze, stack, units>>

undoDiseq ==
    /\ Undoing("DISEQ")
    /\ forbid' = undoDisequality(forbid, Last(undo_stack).arg)
    /\ undo_stack' = Front(undo_stack)
    /\ UNCHANGED <<tsolverVars, storeVars, classVars, expVars, backtrack_points, explanation, loopVars,
                   todo, goal, toReanalyze, stack, units>>

\* undoDistinction() clears the bits of the arguments, though assertDist() set those of their roots.
undoDist ==
    /\ Undoing("DIST")
    /\ LET d == Last(undo_stack).arg
       IN  dist_classes' = [n \in Nodes |-> IF n \in ToSet(Args[d]) THEN dist_classes[n] \ {d} ELSE dist_classes[n]]
    /\ undo_stack' = Front(undo_stack)
    /\ UNCHANGED <<tsolverVars, storeVars, root, eq_next, users, index, sig_tab, forbid, expVars,
                   backtrack_points, explanation, loopVars, todo, goal, toReanalyze, stack, units>>

undoPolarity ==
    /\ Undoing("SET_POLARITY")
    /\ polarity' = polarity \ {Last(undo_stack).arg}
    /\ undo_stack' = Front(undo_stack)
    /\ UNCHANGED <<informed, th_deductions, deductions_next, deductions_marks, has_explanation, storeVars,
                   classVars, forbid, expVars, backtrack_points, explanation, loopVars, todo, goal,
                   toReanalyze, stack, units>>

\* A term declared above the goal leaves the tables if it is the one in them.
undoReanalyze ==
    /\ Undoing("REANALYZE")
    /\ LET n == Last(undo_stack).arg
           here == lookupSig(sig_tab, root, n) \cap {n}
       IN  /\ sig_tab' = WithoutSigs(sig_tab, root, here)
           /\ users' = NotUsedBy(users, index, root, here)
           /\ toReanalyze' = Append(toReanalyze, n)
    /\ undo_stack' = Front(undo_stack)
    /\ UNCHANGED <<tsolverVars, storeVars, root, eq_next, index, dist_classes, forbid, expVars,
                   backtrack_points, explanation, loopVars, todo, goal, stack, units>>

\* What was declared above the goal is looked at again below it; TSolver::popBacktrackPoint().
endBacktrack ==
    /\ goal # NoGoal /\ Len(undo_stack) <= goal
    /\ LET free == FreeOf(toReanalyze, sig_tab, root)
       IN  /\ sig_tab' = WithSigs(sig_tab, root, free)
           /\ users' = UsedBy(users, root, free)
           /\ index' = [m \in Nodes |-> IF m \in free THEN Places(root, m) ELSE index[m]]
    /\ undo_stack' = IF AtStart THEN undo_stack
                     ELSE undo_stack \o [i \in DOMAIN toReanalyze |-> Undo("REANALYZE", toReanalyze[i])]
    /\ PopMarks(1)
    /\ goal' = NoGoal
    /\ toReanalyze' = <<>>
    /\ UNCHANGED <<informed, has_explanation, storeVars, root, eq_next, dist_classes, forbid, expVars,
                   backtrack_points, explanation, loopVars, todo, stack, units>>

\* getDeduction(), until there is none left.
getDeductions ==
    /\ Idle /\ ~ has_explanation
    /\ FetchDeductions
    /\ UNCHANGED <<informed, th_deductions, deductions_marks, polarity, has_explanation, storeVars, classVars,
                   forbid, expVars, undo_stack, backtrack_points, explanation, loopVars, todo, goal,
                   toReanalyze, stack, units>>

Next ==
    \/ declareAtom \/ declareTerm \/ setInformed
    \/ assertLit \/ assertEq \/ assertNEq \/ assertDist
    \/ mergeNothing \/ mergeConflict \/ merge
    \/ popBacktrackPoint \/ clearSearch
    \/ undoMerge \/ undoDiseq \/ undoDist \/ undoPolarity \/ undoReanalyze \/ endBacktrack
    \/ getDeductions

Spec == Init /\ [][Next]_vars

-----------------------------------------------------------------------------
(* What equality is: the least congruence that contains given pairs.       *)

Twins == {c \in Nodes \X Nodes : /\ c[1] # c[2] /\ Args[c[1]] # <<>> /\ Symbol[c[1]] = Symbol[c[2]]
                                /\ Len(Args[c[1]]) = Len(Args[c[2]])}
Joined(f, c) == [n \in Nodes |-> IF f[n] = f[c[2]] THEN f[c[1]] ELSE f[n]]

\* A representative for each node: as long as pairs or congruent nodes are apart, join them.
\* A negation (of those given) is the constant that its term is not.
Closure(pairs, N, negations) ==
    LET Due(f) == pairs
                  \cup {c \in Twins \cap (N \X N) : \A i \in DOMAIN Args[c[1]] : f[Args[c[1]][i]] = f[Args[c[2]][i]]}
                  \cup {<<c[1], Constant(~ c[2])>> : c \in {c \in negations \X BOOLEAN :
                                                      f[Base(c[1])] = f[Constant(c[2])]}}
        close[f \in [Nodes -> Nodes]] ==
            LET apart == {c \in Due(f) : f[c[1]] # f[c[2]]}
            IN  IF apart = {} THEN f ELSE close[FoldSet(LAMBDA c, g : Joined(g, c), f, apart)]
    IN  close[[n \in Nodes |-> n]]

\* What a set of literals says is equal, and what it says is different.
Equal(L) == {<<Args[l.tr][1], Args[l.tr][2]>> : l \in {l \in L : l.tr \in Equalities /\ l.sgn}}
            \cup {<<l.tr, Constant(l.sgn)>> : l \in {l \in L : l.tr \notin Distincts}}
Different(L) ==
    {<<Args[l.tr][1], Args[l.tr][2]>> : l \in {l \in L : l.tr \in Equalities /\ ~ l.sgn}}
    \cup UNION {{<<Args[l.tr][i], Args[l.tr][j]>> : <<i, j>> \in {c \in (DOMAIN Args[l.tr]) \X (DOMAIN Args[l.tr]) : c[1] < c[2]}}
                : l \in {l \in L : l.tr \in Distincts}}
    \cup {<<n, Base(n)>> : n \in {n \in declared : IsNot(n)}}
    \cup {c \in Constants \X Constants : c[1] # c[2]}
Contradicts(L, f) == \E c \in Different(L) : f[c[1]] = f[c[2]]

\* The literals that were worked on, as opposed to those that were known already; and the classes
\* they make, with the negations that assertLit() moves along.
Given == ToSet(stack)
Worked == {l \in Given : \E i \in DOMAIN undo_stack : undo_stack[i] = Undo("SET_POLARITY", l.tr)}
Moved(L) == {<<negated[l.tr], Constant(~ l.sgn)>> : l \in {l \in L : negated[l.tr] # NoNode}}
Classes(L) == Closure(Equal(L) \cup Moved(L), declared \ Equalities, {})

Quiet == Idle /\ ~ has_explanation

\* The literals worked on, and those of level 0 that are still to be told again after clearSearch().
Binding == Worked \cup (ToSet(units) \ Given)

\* Whether the literals of L, with the classes f, say that two terms are different.
SaysDiffer(L, f, m, n) == \E c \in Different(L) : {f[c[1]], f[c[2]]} = {f[m], f[n]}

\* Equal terms share a root, and only they: the classes are the least congruence of the literals
\* worked on, however merges, declarations, backtracking and new searches followed each other
\* (EgraphSolver.cc:403-520, 713-785).  Two roots are kept apart if these literals say that they differ,
\* and only if they do or the other literals of level 0, which every search is told first, do: a bit of
\* a distinction that undoDistinction() leaves behind (730-734) says nothing that does not hold again.
ClosureExact ==
    Quiet =>
        LET f == Classes(Worked)
            g == Classes(Binding)
            terms == declared \ Equalities
        IN  /\ \A m, n \in terms : (root[m] = root[n]) <=> (f[m] = f[n])
            /\ \A m, n \in terms : root[m] # root[n] =>
                   LET apart == unmergeable(root[m], root[n]) # {}
                   IN  /\ SaysDiffer(Worked, root, m, n) => apart
                       /\ apart => SaysDiffer(Binding, g, m, n)

\* A conflict is reported exactly when the literals worked on contradict each other, and its
\* explanation is made of asserted literals that do so by themselves (EgraphSolver.cc:437-503).
ConflictExact ==
    Idle =>
        /\ has_explanation <=> Contradicts(Worked, Classes(Worked))
        /\ has_explanation =>
               LET E == explanation \ {[tr |-> False, sgn |-> TRUE]}
               IN  E \subseteq Worked /\ Contradicts(E, Classes(E))

\* The position in the stack at which a deduction was made.
MadeAt(i) == Max({0} \cup {k \in DOMAIN stack : deductions_marks[k].lim < i})

\* A deduced literal follows from the literals asserted when it was deduced; and when the solver is
\* asked for its reason later on, by asserting the negation (TSolver.cc:76), the reason is made of
\* those alone: the SAT solver resolves on reasons that are older than what they imply.
DeductionsJustified ==
    Idle => \A i \in DOMAIN th_deductions :
        LET l == th_deductions[i]
            before == {stack[k] : k \in 1..MadeAt(i)}
            Denied == before \cup {Negated(l)}
        IN  /\ Contradicts(Denied, Classes(Denied))
            /\ has_explanation /\ Last(stack) = Negated(l) => explanation \subseteq Denied

\* Both: what the SAT solver is told, of conflicts and of literals deduced (getConflict, deduce).
ConflictsAndDeductionsRight == ConflictExact /\ DeductionsJustified

\* A search that has given every atom a value and met no conflict answers "sat": check() has nothing
\* to add (Egraph.h:279).  What equality and negation make of the literals, whatever the code did
\* with them, is then no contradiction.
ClassesMeant(L) == Closure(Equal(L), declared, {n \in declared : IsNot(n)})
SatIsConsistent ==
    Quiet /\ {l.tr : l \in Given} = informed => ~ Contradicts(Given, ClassesMeant(Given))

TypeOK ==
    /\ TSolverTypeOK
    /\ declared \subseteq Nodes /\ appears \subseteq Atoms /\ negated \in [Nodes -> Nodes \cup {NoNode}]
    /\ root \in [Nodes -> Nodes] /\ eq_next \in [Nodes -> Nodes] /\ IsInjective(eq_next)
    /\ users \in [Nodes -> SUBSET [node : Nodes, marked : BOOLEAN]]
    /\ index \in [Nodes -> SUBSET (1..3)]
    /\ \A s, t \in sig_tab : s.sig = t.sig => s = t
    /\ \A n \in Nodes : forbid.first[n] \in {0} \cup DOMAIN forbid.list
    /\ \A a \in DOMAIN forbid.list : forbid.list[a].link \in DOMAIN forbid.list
    /\ dist_classes \in [Nodes -> SUBSET Distincts]
    /\ exp_parent \in [Nodes -> Nodes \cup {NoNode}]
    /\ exp_reason \in [Nodes -> Literals \cup {NoLiteral}]
    /\ explanation \subseteq Literals
    /\ units \in Seq(Literals)
    /\ Len(backtrack_points) = Len(stack) /\ goal \in -1..Len(undo_stack)
=============================================================================
