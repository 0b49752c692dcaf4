----------------------------- MODULE STPSolver -----------------------------
(***************************************************************************)
(* The difference-logic solver (tsolvers/stpsolver).  An atom y - x <= c   *)
(* is an edge from y to x of cost c; its negation is an edge back.  The    *)
(* edges that hold form a graph.  When one is added, a search in both      *)
(* directions finds every declared edge that a path through it implies; an *)
(* assertion contradicts the others exactly when its negation is such an   *)
(* edge.  Each edge carries the time it became true at, and backtracking   *)
(* removes what came after a remembered time.                              *)
(*                                                                         *)
(* The template's two instances differ in the costs.  For IDLSolver a cost *)
(* is a `ptrdiff_t' (SafeInt) and Width and Mantissa matter.  RDLSolver's  *)
(* costs r + d * delta (Delta) are exact: counted in deltas they are the   *)
(* integers again, negating a cost c is -c - 1 for both, and Width and     *)
(* Mantissa are then above every number that can occur.                    *)
(***************************************************************************)
EXTENDS TSolver, SequencesExt, FiniteSetsExt, Functions

CONSTANTS
    Vertices, zero, \* the variables and zero(); a vertex is the variable it stands for
    Assignments,    \* what numbers the variables may stand for: [Vertices -> Int], or what suffices of it
    Parsed,         \* parseRef(): the edge [from, to, c] of an atom, c as the exact number
    Width,          \* bits of ptrdiff_t
    Mantissa,       \* bits of the mantissa of a double
    NoLiteral,      \* PtAsgn_Undef
    Declared,       \* bound: the atoms in the order in which they are declared
    MaxTime,        \* bound: the last timestamp (popping every edge leaves the timestamp as it is)
    MaxSolves       \* bound: how often the solver is cleared for another check

\* The atoms of difference logic: y - x <= c for two variables, or for one and zero().
ASSUME AtomsAssumption ==
    /\ IsFiniteSet(Atoms) /\ IsFiniteSet(Vertices)
    /\ Parsed \in [Atoms -> [from : Vertices, to : Vertices, c : Int]]
    /\ \A a \in Atoms : Parsed[a].from # Parsed[a].to
    /\ zero \in Vertices
    /\ NoLiteral \notin Literal \cup Atoms \cup Vertices

VARIABLES
    edges,              \* the store: edge i is [from, to, cost, neg]
    leqToEdge,          \* mapper: the edge of a declared atom
    edgeToLeq,          \* mapper: the atom of an edge, where it has one
    edgeRefToAsgn,      \* mapper: the literal that set an edge of the graph
    setTime,            \* when the edge became true, 0 if it did not
    addedEdges,         \* the graph: the edges set by a literal, in order
    deductions,         \* the edges that became true as a consequence
    timestamp,
    backtrack_points,
    inv_bpoint, inv_asgn,   \* where the solver became inconsistent, and by which literal
    stack,              \* THandler's: the literals given to this solver, oldest first
    solves,             \* how often the solver was cleared
    thrown              \* an exception has left the solver

graphVars == <<setTime, addedEdges, deductions, timestamp, edgeRefToAsgn>>
storeVars == <<edges, leqToEdge, edgeToLeq>>
conflictVars == <<inv_bpoint, inv_asgn>>
vars == <<tsolverVars, storeVars, graphVars, backtrack_points, conflictVars, stack, solves, thrown>>

-----------------------------------------------------------------------------
(* Costs. *)

MaxInt == 2^(Width - 1) - 1
MinInt == -(2^(Width - 1))
Values == MinInt..MaxInt

\* The second part is arithmetic of powers.
ASSUME WidthAssumption == Width \in Nat \ {0} /\ 0 \in Values

\* Converter::getValue(Number): through a double, which keeps the leading bits, and a cast,
\* which outside the range is undefined (the usual machine instruction yields the least integer).
ToDouble(c) ==
    LET scale == 2^Min({k \in 0..Width : c \in (-(2^(Mantissa + k)) + 1)..(2^(Mantissa + k) - 1)})
        Cut(n) == (n \div scale) * scale
    IN  IF c < 0 THEN -Cut(-c) ELSE Cut(c)

GetValue(c) == IF ToDouble(c) \in Values THEN ToDouble(c) ELSE MinInt

\* A bug to detect: y - x < -c taken for y - x <= -c.
NegateWeakly(c) == -c

\* Converter::negate(): -(c + 1), unchecked; where the sum wraps the sign does so too.
Negate(c) == IF c = MaxInt THEN MinInt ELSE -c - 1

-----------------------------------------------------------------------------
(* Paths.  A search is a record: the open vertices, the next one first,    *)
(* and whether they are a queue or a stack; the current vertex and the     *)
(* edges still to be looked at from there; the vertices seen, their        *)
(* lengths and the edge each was reached by; and whether the sums stayed   *)
(* in range (SafeInt throws when one does not).                            *)

Searches ==
    [open : Seq(Vertices), curr : Vertices, todo : Seq(DOMAIN edges), seen : SUBSET Vertices,
     length : [Vertices -> Values], by : [Vertices -> 0..Len(edges)], inRange : BOOLEAN,
     queue : BOOLEAN]

Ended(s, goal, cost) ==
    \/ ~ s.inRange
    \/ s.todo = <<>> /\ s.open = <<>>
    \/ s.todo = <<>> /\ Head(s.open) = goal /\ s.length[goal] <= cost

\* An edge is followed from its tail to its head.
TailOf(forward, e) == IF forward THEN edges[e].from ELSE edges[e].to
HeadOf(forward, e) == IF forward THEN edges[e].to ELSE edges[e].from

\* The edges of the list at the last open vertex come next.
Scan(s, list) == [s EXCEPT !.open = Tail(@), !.curr = Head(s.open), !.todo = list]

Opened(s, v) == IF s.queue THEN s.open \o <<v>> ELSE <<v>> \o s.open

\* The first edge that is left: nothing, unless it is at the current vertex and shortens a path.
Relax(forward, s) ==
    LET e == Head(s.todo)
        next == HeadOf(forward, e)
        length == s.length[s.curr] + edges[e].cost
        better == next \notin s.seen \/ s.length[next] > length
    IN  IF TailOf(forward, e) # s.curr THEN [s EXCEPT !.todo = Tail(@)]
        ELSE IF length \notin Values THEN [s EXCEPT !.inRange = FALSE]
        ELSE IF ~ better THEN [s EXCEPT !.todo = Tail(@)]
        ELSE [s EXCEPT !.todo = Tail(@), !.open = Opened(s, next), !.seen = @ \cup {next},
                       !.length = [@ EXCEPT ![next] = length], !.by = [@ EXCEPT ![next] = e]]

\* Some vertices open, all lengths 0.
Started(open, curr, seen, queue) ==
    [open |-> open, curr |-> curr, todo |-> <<>>, seen |-> seen,
     length |-> [v \in Vertices |-> 0], by |-> [v \in Vertices |-> 0], inRange |-> TRUE,
     queue |-> queue]

\* The search along the edges of a list, until a goal is reached within a cost.
Search(start, forward, list, goal, cost) ==
    LET run[s \in Searches] ==
            IF Ended(s, goal, cost) THEN s
            ELSE run[IF s.todo = <<>> THEN Scan(s, list) ELSE Relax(forward, s)]
    IN  run[start]

\* dfsSearch()
Reach(list, init, forward) == Search(Started(<<init>>, init, {init}, FALSE), forward, list, NoLiteral, 0)

\* The edges of the graph that were set no later than a time; they are in the order of time.
SetUntil(point) ==
    SubSeq(addedEdges, 1, Max({0} \cup {i \in DOMAIN addedEdges : setTime[addedEdges[i]] <= point}))

\* The number of declared edges at the vertices a search found.
Total(search, init) ==
    MapThenSumSet(LAMBDA v : Cardinality({e \in DOMAIN edges : v \in {edges[e].from, edges[e].to}}),
                  search.seen \ {init})

\* findConsequences(e) in the graph `list': what e implies, and whether every sum was in range.
Consequences(e, list) ==
    LET a == Reach(list, edges[e].from, FALSE)
        b == Reach(list, edges[e].to, TRUE)
        small == IF Total(a, edges[e].from) < Total(b, edges[e].to)
                 THEN [f \in DOMAIN edges |-> a.length[edges[f].from] + edges[e].cost]
                 ELSE [f \in DOMAIN edges |-> b.length[edges[f].to] + edges[e].cost]
        sum == [f \in DOMAIN edges |-> a.length[edges[f].from] + edges[e].cost + b.length[edges[f].to]]
        candidates == {f \in DOMAIN edges \ {e} : edges[f].from \in a.seen /\ edges[f].to \in b.seen}
    IN  [found |-> {f \in candidates : edges[f].cost >= sum[f] /\ setTime[f] = 0},
         inRange |-> a.inRange /\ b.inRange /\ \A f \in candidates : small[f] \in Values /\ sum[f] \in Values]

\* The literals of the path to a vertex, which the edges by which a search reached its vertices lead
\* back along.
PathTo(v, init, search) ==
    LET Walks == [edge : 0..Len(edges), literals : SUBSET Range(edgeRefToAsgn)]
        back[w \in Walks] ==
            IF w.edge = 0 \/ edges[w.edge].from = init THEN w
            ELSE back[[edge |-> search.by[edges[w.edge].from],
                       literals |-> w.literals \cup {edgeRefToAsgn[w.edge]}]]
        last == back[[edge |-> search.by[v], literals |-> {}]]
    IN  last.literals \cup {edgeRefToAsgn[last.edge]}

\* A bug to detect: a path through edges that were set later than e.
LateExplanation(e) ==
    LET init == edges[e].from
        search == Search(Started(<<init>>, init, {}, FALSE), TRUE, addedEdges, edges[e].to, edges[e].cost)
    IN  IF edgeRefToAsgn[e] # NoLiteral
        THEN [literals |-> {edgeRefToAsgn[e]}, inRange |-> TRUE]
        ELSE [literals |-> IF search.inRange THEN PathTo(edges[e].to, init, search) ELSE {},
              inRange |-> search.inRange]

\* findExplanation(e): the literals of a path that implies e, found among the edges set no later.
Explanation(e) ==
    LET init == edges[e].from
        search == Search(Started(<<init>>, init, {}, FALSE), TRUE, SetUntil(setTime[e]), edges[e].to, edges[e].cost)
    IN  IF edgeRefToAsgn[e] # NoLiteral
        THEN [literals |-> {edgeRefToAsgn[e]}, inRange |-> TRUE]
        ELSE [literals |-> IF search.inRange THEN PathTo(edges[e].to, init, search) ELSE {},
              inRange |-> search.inRange]

-----------------------------------------------------------------------------
EdgeOf(l) == IF l.sgn THEN leqToEdge[l.tr] ELSE edges[leqToEdge[l.tr]].neg

isTrue(e) == setTime[e] # 0

Init ==
    /\ TSolverInit
    /\ edges = <<>> /\ leqToEdge = <<>> /\ edgeToLeq = <<>> /\ edgeRefToAsgn = <<>>
    /\ setTime = <<>> /\ addedEdges = <<>> /\ deductions = {} /\ timestamp = 0
    /\ backtrack_points = <<>>
    /\ inv_bpoint = Cardinality(Atoms) + 1      \* size_t(-1): above every number of points
    /\ inv_asgn = NoLiteral
    /\ stack = <<>>
    /\ solves = 0
    /\ thrown = FALSE

\* declareAtom(): all atoms are declared before the first literal is given to a cleared solver.
declareAtom(a) ==
    LET cost == GetValue(Parsed[a].c)
        edge == [from |-> Parsed[a].from, to |-> Parsed[a].to, cost |-> cost, neg |-> Len(edges) + 2]
        back == [from |-> edge.to, to |-> edge.from, cost |-> Negate(cost), neg |-> Len(edges) + 1]
        same == {e \in DOMAIN edges : /\ edges[e].from = edge.from
                                      /\ edges[e].to = edge.to
                                      /\ edges[e].cost = cost}
    IN  /\ a \notin informed
        /\ Len(Declared) > Cardinality(informed) /\ a = Declared[Cardinality(informed) + 1]
        /\ backtrack_points = <<>> /\ ~ thrown
        /\ informed' = informed \cup {a}
        /\ IF same # {}
           THEN /\ leqToEdge' = [b \in informed' |-> IF b = a THEN Min(same) ELSE leqToEdge[b]]
                /\ edgeToLeq' = [edgeToLeq EXCEPT ![Min(same)] = a]
                /\ UNCHANGED <<edges, setTime, edgeRefToAsgn>>
           ELSE /\ edges' = edges \o <<edge, back>>
                /\ setTime' = setTime \o <<0, 0>>
                /\ edgeRefToAsgn' = edgeRefToAsgn \o <<NoLiteral, NoLiteral>>
                /\ leqToEdge' = [b \in informed' |-> IF b = a THEN Len(edges) + 1 ELSE leqToEdge[b]]
                /\ edgeToLeq' = edgeToLeq \o <<a, NoLiteral>>
        /\ UNCHANGED <<th_deductions, deductions_next, deductions_marks, polarity, has_explanation,
                       addedEdges, deductions, timestamp, backtrack_points, conflictVars, stack, solves,
                       thrown>>

\* storeDeduction() for the atoms of the edges that follow from setting an edge: first the atom of
\* the edge's negation, then those of the consequences whose polarity the solver does not know yet.
NewDeductions(set, found) ==
    LET Of(e, sgn) == IF edgeToLeq[e] = NoLiteral THEN {} ELSE {[tr |-> edgeToLeq[e], sgn |-> sgn]}
        implied == UNION {Of(e, TRUE) \cup Of(edges[e].neg, FALSE) : e \in found}
    IN  SetToSeq(Of(edges[set].neg, FALSE)) \o SetToSeq({l \in implied : l.tr \notin polarity})

\* TSolverHandler::assertLit(): a backtrack point, then assertLit().
assertLit(l) ==
    LET set == EdgeOf(l)
        nset == edges[set].neg
        graph == Append(addedEdges, set)
        consequences == Consequences(set, graph)
        time == timestamp + 1
    IN  /\ ~ thrown /\ timestamp < MaxTime
        /\ l.tr \in informed /\ \A i \in DOMAIN stack : stack[i].tr # l.tr
        /\ stack' = Append(stack, l)
        /\ deductions_marks' = Append(deductions_marks, Mark)
        /\ backtrack_points' = Append(backtrack_points, timestamp)
        /\ \/ /\ inv_asgn # NoLiteral \/ isTrue(set)      \* inconsistent already, or nothing new
              /\ UNCHANGED <<th_deductions, polarity, has_explanation, graphVars, conflictVars, thrown>>
           \/ /\ inv_asgn = NoLiteral /\ ~ isTrue(set) /\ isTrue(nset)
              /\ inv_bpoint' = Len(backtrack_points) + 1
              /\ inv_asgn' = l
              /\ has_explanation' = TRUE
              /\ UNCHANGED <<th_deductions, polarity, graphVars, thrown>>
           \/ /\ inv_asgn = NoLiteral /\ ~ isTrue(set) /\ ~ isTrue(nset)
              /\ timestamp' = time
              /\ addedEdges' = graph
              /\ edgeRefToAsgn' = [edgeRefToAsgn EXCEPT ![set] = l]
              /\ \/ /\ consequences.inRange
                    /\ deductions' = deductions \cup consequences.found
                    /\ setTime' = [e \in DOMAIN edges |->
                                      IF e \in consequences.found \cup {set} THEN time ELSE setTime[e]]
                    /\ StoreDeductions(NewDeductions(set, consequences.found))
                    /\ UNCHANGED thrown
                 \/ /\ ~ consequences.inRange       \* std::overflow_error: some may have been set
                    /\ thrown' = TRUE
                    /\ \E found \in SUBSET consequences.found :
                          /\ deductions' = deductions \cup found
                          /\ setTime' = [e \in DOMAIN edges |->
                                            IF e \in found \cup {set} THEN time ELSE setTime[e]]
                    /\ UNCHANGED <<th_deductions, polarity>>
              /\ UNCHANGED <<has_explanation, conflictVars>>
        /\ UNCHANGED <<informed, deductions_next, storeVars, solves>>

\* A bug to detect: the edges that only followed from others stay true.
removeAddedAfter(point) ==
    LET kept == SelectSeq(addedEdges, LAMBDA e : setTime[e] <= point)
        gone == {e \in Range(addedEdges) : setTime[e] > point}
    IN  /\ addedEdges' = kept
        /\ timestamp' = IF kept = <<>> THEN timestamp ELSE setTime[Last(kept)]
        /\ setTime' = [e \in DOMAIN edges |-> IF e \in gone THEN 0 ELSE setTime[e]]
        /\ edgeRefToAsgn' = [e \in DOMAIN edges |-> IF e \in gone THEN NoLiteral ELSE edgeRefToAsgn[e]]
        /\ UNCHANGED deductions

\* removeAfter(): back to a time.
removeAfter(point) ==
    LET kept == SetUntil(point)
        gone == {e \in DOMAIN edges : setTime[e] > point}
    IN  IF addedEdges = <<>> THEN UNCHANGED graphVars
        ELSE /\ addedEdges' = kept
             /\ timestamp' = IF kept = <<>> THEN timestamp ELSE setTime[Last(kept)]
             /\ setTime' = [e \in DOMAIN edges |-> IF e \in gone THEN 0 ELSE setTime[e]]
             /\ edgeRefToAsgn' = [e \in DOMAIN edges |-> IF e \in gone THEN NoLiteral ELSE edgeRefToAsgn[e]]
             /\ deductions' = deductions \ gone

\* popBacktrackPoints(n) of the THandler's backtrack().
popBacktrackPoints(n) ==
    LET left == Len(backtrack_points) - n
    IN  /\ ~ thrown /\ n \in 1..Len(backtrack_points)
        /\ IF inv_bpoint > left
           THEN inv_bpoint' = 0 /\ inv_asgn' = NoLiteral /\ has_explanation' = FALSE
           ELSE UNCHANGED <<conflictVars, has_explanation>>
        /\ removeAfter(backtrack_points[left + 1])
        /\ backtrack_points' = SubSeq(backtrack_points, 1, left)
        /\ PopMarks(n)
        /\ stack' = SubSeq(stack, 1, left)
        /\ UNCHANGED <<informed, storeVars, solves, thrown>>

\* getConflict(): the literal that failed and why its negation holds.  It changes nothing, unless a
\* sum is out of range.
Conflict == Explanation(edges[EdgeOf(inv_asgn)].neg).literals \cup {inv_asgn}

getConflict ==
    /\ ~ thrown /\ has_explanation
    /\ thrown' = ~ Explanation(edges[EdgeOf(inv_asgn)].neg).inRange
    /\ UNCHANGED <<tsolverVars, storeVars, graphVars, backtrack_points, conflictVars, stack, solves>>

\* getReasonFor(l), for a deduced literal that is not on the stack: its negation is asserted, the
\* conflict explained, and the backtrack point popped again, which leaves nothing but inv_bpoint.
Reason(l) == Explanation(EdgeOf(l)).literals \cup {Negated(l)}

getReasonFor(l) ==
    /\ ~ thrown /\ inv_asgn = NoLiteral
    /\ \A i \in DOMAIN stack : stack[i].tr # l.tr
    /\ \/ /\ Explanation(EdgeOf(l)).inRange
          /\ inv_bpoint' = 0
          /\ UNCHANGED <<inv_asgn, has_explanation, deductions_marks, backtrack_points, thrown>>
       \/ /\ ~ Explanation(EdgeOf(l)).inRange
          /\ inv_bpoint' = Len(backtrack_points) + 1
          /\ inv_asgn' = Negated(l)
          /\ has_explanation' = TRUE
          /\ deductions_marks' = Append(deductions_marks, Mark)
          /\ backtrack_points' = Append(backtrack_points, timestamp)
          /\ thrown' = TRUE
    /\ UNCHANGED <<informed, th_deductions, deductions_next, polarity, storeVars, graphVars, stack, solves>>

\* CoreSMTSolver::deduceTheory()
deduceTheory ==
    /\ ~ thrown
    /\ FetchDeductions
    /\ UNCHANGED <<informed, th_deductions, deductions_marks, polarity, has_explanation, storeVars, graphVars,
                   backtrack_points, conflictVars, stack, solves, thrown>>

\* computeModel(), after a search that ended satisfiable: the distances from a point with an edge of
\* cost 0 to every vertex of the graph (bellmanFord), less that of zero() (shiftZero).  The value of a
\* vertex is the inverse.
InGraph == UNION {{edges[e].from, edges[e].to} : e \in Range(addedEdges)}

BellmanFord == Search(Started(SetToSeq(InGraph), zero, InGraph, TRUE), TRUE, addedEdges, NoLiteral, 0)

Distances == [v \in InGraph |-> BellmanFord.length[v]]

ValMap ==
    LET dist == Distances
    IN  [v \in InGraph |-> dist[v] - (IF zero \in InGraph THEN dist[zero] ELSE 0)]

ModelInRange == BellmanFord.inRange /\ LET val == ValMap IN \A v \in InGraph : val[v] \in Values

computeModel ==
    /\ ~ thrown /\ inv_asgn = NoLiteral
    /\ thrown' = ~ ModelInRange
    /\ UNCHANGED <<tsolverVars, storeVars, graphVars, backtrack_points, conflictVars, stack, solves>>

\* clearSolver(), at the start of the next check.  It leaves the deductions and the conflict alone:
\* the search must have taken them back.  (A check that an exception ended has not: the model stops.)
clearSolver ==
    /\ backtrack_points = <<>> /\ ~ thrown
    /\ solves < MaxSolves
    /\ ClearTSolver
    /\ edges' = <<>> /\ leqToEdge' = <<>> /\ edgeToLeq' = <<>> /\ edgeRefToAsgn' = <<>>
    /\ setTime' = <<>> /\ addedEdges' = <<>> /\ timestamp' = 0
    /\ backtrack_points' = <<>>
    /\ stack' = <<>>
    /\ solves' = solves + 1
    /\ UNCHANGED <<deductions, conflictVars, thrown>>

Next ==
    \/ \E a \in Atoms : declareAtom(a)
    \/ \E l \in Literal : assertLit(l)
    \/ \E n \in 1..Cardinality(Atoms) : popBacktrackPoints(n)
    \/ getConflict
    \/ \E i \in DOMAIN th_deductions : getReasonFor(th_deductions[i])
    \/ deduceTheory
    \/ computeModel
    \/ clearSolver

Spec == Init /\ [][Next]_vars

-----------------------------------------------------------------------------
(* What the solver is for.  A constraint is [from, to, c].                 *)

Holds(m, k) == m[k.to] - m[k.from] <= k.c

Models(C) == {m \in Assignments : \A k \in C : Holds(m, k)}

\* A constraint follows from those that a set of assignments satisfies.
Implied(models, k) == \A m \in models : Holds(m, k)

Satisfiable(C) == \E m \in Assignments : \A k \in C : Holds(m, k)

\* The constraint of an edge; those of literals as the solver reads them, and as the user wrote them.
OfEdge(e) == [from |-> edges[e].from, to |-> edges[e].to, c |-> edges[e].cost]

ReadAs(lits) == {OfEdge(EdgeOf(l)) : l \in lits}

Meant(l) == LET k == Parsed[l.tr] IN IF l.sgn THEN k ELSE [from |-> k.to, to |-> k.from, c |-> -k.c - 1]

\* Constants of at most Mantissa bits lose nothing on their way through a double.
Exact(l) == LET c == Parsed[l.tr].c IN ToDouble(c) = c /\ c \in Values

Given == Range(stack)

\* The type of the state.
TypeOK ==
    /\ TSolverTypeOK
    /\ edges \in Seq([from : Vertices, to : Vertices, cost : Values, neg : 1..(2 * Cardinality(Atoms))])
    /\ leqToEdge \in [informed -> DOMAIN edges]
    /\ edgeToLeq \in [DOMAIN edges -> informed \cup {NoLiteral}]
    /\ edgeRefToAsgn \in [DOMAIN edges -> Literal \cup {NoLiteral}]
    /\ setTime \in [DOMAIN edges -> Nat]
    /\ addedEdges \in Seq(DOMAIN edges)
    /\ deductions \subseteq 1..(2 * Cardinality(Atoms))
    /\ timestamp \in Nat
    /\ backtrack_points \in Seq(Nat)
    /\ inv_bpoint \in 0..(Cardinality(Atoms) + 1)
    /\ inv_asgn \in Literal \cup {NoLiteral}
    /\ stack \in Seq(Literal)
    /\ solves \in 0..MaxSolves
    /\ thrown \in BOOLEAN

\* The solver reports a conflict when the constraints given to it, as the user wrote them, are
\* contradictory and only then, after any backtracking, although assertLit() looks at one edge only:
\* every contradiction must have been announced as a consequence of the literals before.  Constants
\* that a double cannot hold are outside this: the solver reasons about other numbers then.
ConflictExact ==
    ~ thrown /\ (\A l \in Given : Exact(l)) =>
        (inv_asgn = NoLiteral <=> Satisfiable({Meant(l) : l \in Given}))

\* The declared edges that hold are those that the given literals imply: findConsequences() misses
\* none, and removeAfter() takes back all that the popped literals implied and nothing else.
TrueEdgesExact ==
    ~ thrown /\ inv_asgn = NoLiteral =>
        LET models == Models(ReadAs(Given))
        IN  \A e \in DOMAIN edges : isTrue(e) <=> Implied(models, OfEdge(e))

\* A conflict is explained by literals that were given and are contradictory by themselves; the reason
\* of a deduced literal by literals that were given before it was deduced (the reasons of the SAT
\* solver would go in circles otherwise) and contradict its negation.
ExplanationsRight ==
    LET Right(lits, last) == lits \ {last} \subseteq Given /\ ~ Satisfiable(ReadAs(lits))
    IN  ~ thrown =>
            /\ has_explanation /\ Explanation(edges[EdgeOf(inv_asgn)].neg).inRange => Right(Conflict, inv_asgn)
            /\ \A i \in DOMAIN th_deductions :
                  LET l == th_deductions[i]
                  IN  (inv_asgn = NoLiteral /\ Explanation(EdgeOf(l)).inRange /\ l \notin Given)
                          => /\ Right(Reason(l), Negated(l))
                             /\ \A m \in Reason(l) \ {Negated(l)} : setTime[EdgeOf(m)] <= setTime[EdgeOf(l)]

\* What the solver tells the SAT solver is right after any backtracking, and the SAT solver hears of
\* every consequence: a literal whose edge was found is among the deductions unless it was given.
DeductionsExact ==
    ~ thrown /\ inv_asgn = NoLiteral =>
        LET models == Models(ReadAs(Given))
        IN
        /\ \A i \in DOMAIN th_deductions : Implied(models, OfEdge(EdgeOf(th_deductions[i])))
        /\ \A l \in Literal :
              (l.tr \in informed /\ edgeToLeq[leqToEdge[l.tr]] = l.tr /\ EdgeOf(l) \in deductions)
                  => l \in Given \cup Range(th_deductions)

\* The model that computeModel() finds satisfies every given literal as the user wrote it.
ModelRight ==
    ~ thrown /\ inv_asgn = NoLiteral /\ ModelInRange =>
        LET val == ValMap
        IN  \A l \in Given :
                LET k == Meant(l)
                IN  Exact(l) => k.to \in InGraph /\ k.from \in InGraph /\ val[k.to] - val[k.from] <= k.c
=============================================================================
