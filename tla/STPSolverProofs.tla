-------------------------- MODULE STPSolverProofs --------------------------
(***************************************************************************)
(* What holds of STPSolver for any finite number of variables and atoms,   *)
(* for costs of any width and however long the searches: the conflicts,    *)
(* the true edges and the deductions are exact, after any backtracking,    *)
(* and the models and the explanations are right.                          *)
(*                                                                         *)
(* First, a tail recursion in which something decreases ends, and keeps    *)
(* what its steps keep; Search() is one.  Then, dfsSearch() finds shortest *)
(* distances, and findConsequences() exactly what a new edge implies.      *)
(* Next, the invariant, and each action keeps it.  Last, the search for a  *)
(* model, the mapper's literals, and the search for an explanation with    *)
(* the walk back along the edges by which it came.                         *)
(***************************************************************************)
EXTENDS STPSolver, TLAPS, FiniteSetTheorems, SequenceTheorems, WellFoundedInduction

-----------------------------------------------------------------------------
(* Recursion that ends.                                                    *)

\* The order of the numbers is well-founded: a set of them has a smallest element.
Less == OpToRel(<, Nat)

\* The natural numbers have no infinite descent, in the form the library's minimality facts ask for.
LEMMA LessWellFounded == IsWellFoundedOn(Less, Nat)
BY NatLessThanWellFounded DEF Less

\* A number that is not below another is at least as large.
LEMMA NotLess == ASSUME NEW x \in Nat, NEW y \in Nat, ~ (<<x, y>> \in Less) PROVE y <= x
<1>1. Less = {p \in Nat \X Nat : p[1] < p[2]}
  BY DEF Less, OpToRel
<1>2. ~ (x < y)
  BY <1>1
<1> QED BY <1>2

\* A set of numbers has a least one.
LEMMA LeastOf == ASSUME NEW S \in SUBSET Nat, S # {} PROVE \E m \in S : \A x \in S : m <= x
<1>1. PICK m \in S : \A x \in S : ~ (<<x, m>> \in Less)
  BY LessWellFounded, WFMin
<1> QED BY <1>1, NotLess

\* What holds of 0, and of a number when it holds of the one before, holds of all.
LEMMA Numbers == ASSUME NEW P \in SUBSET Nat, 0 \in P, \A n \in P : n + 1 \in P PROVE P = Nat
<1> SUFFICES ASSUME Nat \ P # {} PROVE FALSE
  OBVIOUS
<1>1. PICK m \in Nat \ P : \A x \in Nat \ P : m <= x
  BY LeastOf
<1>2. m # 0 /\ m - 1 \in Nat
  BY <1>1
<1>3. m - 1 \in P
  BY <1>1, <1>2
<1> QED BY <1>1, <1>2, <1>3

\* A tail recursion: from each state on to the next, until one is done.
Loops(S, D, F, f) == f = [s \in S |-> IF s \in D THEN s ELSE f[F[s]]]

\* Something decreases with every step; every step keeps something.
Shrinks(S, D, F, mu) == mu \in [S -> Nat] /\ \A s \in S \ D : mu[F[s]] < mu[s]
Keeps(S, D, F, J) == J \in SUBSET S /\ \A s \in J \ D : F[s] \in J

\* It is a function, whether it ends or not.
LEMMA LoopDefined ==
    ASSUME NEW S, NEW D \in SUBSET S, NEW F \in [S -> S]
    PROVE  \E f : Loops(S, D, F, f)
<1> DEFINE Closed == {J \in SUBSET S : \A x \in J \ D : F[x] \in J}
           Orbit(s) == {t \in S : \A J \in Closed : s \in J => t \in J}
           f == [s \in S |-> CHOOSE t : t \in Orbit(s) \cap D]
<1>1. ASSUME NEW s \in D PROVE Orbit(s) \cap D = {s}
  <2>1. {s} \in Closed
    OBVIOUS
  <2> QED BY <2>1
<1>2. ASSUME NEW s \in S \ D PROVE Orbit(s) \cap D = Orbit(F[s]) \cap D
  <2>0. F[s] \in S
    OBVIOUS
  <2>1. ASSUME NEW t \in Orbit(F[s]), NEW J \in Closed, s \in J PROVE t \in J
    <3>1. F[s] \in J
      BY <2>1
    <3> QED BY <2>1, <3>1
  <2>2. ASSUME NEW t \in Orbit(s), t # s PROVE t \in Orbit(F[s])
    <3> SUFFICES ASSUME NEW J \in Closed, F[s] \in J PROVE t \in J
      OBVIOUS
    <3>1. J \cup {s} \in Closed
      <4>1. J \in SUBSET S /\ \A x \in J \ D : F[x] \in J
        OBVIOUS
      <4> QED BY <4>1
    <3>2. t \in J \cup {s}
      BY <3>1
    <3> QED BY <3>2, <2>2
  <2> HIDE DEF Orbit
  <2>3. \A t : t \in Orbit(s) \cap D => t \in Orbit(F[s])
    BY <2>2
  <2>4. \A t : t \in Orbit(F[s]) => t \in Orbit(s)
    BY <2>1 DEF Orbit
  <2> QED BY <2>3, <2>4
<1> HIDE DEF Orbit
<1>3. ASSUME NEW s \in S PROVE f[s] = IF s \in D THEN s ELSE f[F[s]]
  <2>1. CASE s \in D
    <3>1. f[s] = CHOOSE t : t \in {s}
      BY <1>1, <2>1
    <3> QED BY <3>1, <2>1
  <2>2. CASE s \notin D
    <3>1. F[s] \in S /\ Orbit(s) \cap D = Orbit(F[s]) \cap D
      BY <1>2, <2>2
    <3> QED BY <3>1, <2>2
  <2> QED BY <2>1, <2>2
<1>4. f = [s \in S |-> IF s \in D THEN s ELSE f[F[s]]]
  BY <1>3
<1> QED BY <1>4 DEF Loops

\* Where something decreases with every step, what every step keeps holds at the end.
LEMMA LoopEnds ==
    ASSUME NEW S, NEW D \in SUBSET S, NEW F \in [S -> S], NEW f,
           Loops(S, D, F, f),
           NEW mu, Shrinks(S, D, F, mu),
           NEW J, Keeps(S, D, F, J),
           NEW s0 \in J
    PROVE  f[s0] \in J \cap D
<1> USE DEF Shrinks, Keeps
<1> DEFINE Bad == {s \in J : f[s] \notin J \cap D}
           N == {mu[s] : s \in Bad}
<1> SUFFICES ASSUME s0 \in Bad PROVE FALSE
  OBVIOUS
<1>1. N \in SUBSET Nat /\ N # {}
  OBVIOUS
<1>2. PICK s \in Bad : \A x \in Bad : mu[s] <= mu[x]
  <2>1. PICK n \in N : \A x \in N : n <= x
    BY <1>1, LeastOf
  <2>2. PICK s \in Bad : n = mu[s]
    OBVIOUS
  <2> QED BY <2>1, <2>2
<1>3. s \notin D
  BY DEF Loops
<1>4. F[s] \in J /\ f[s] = f[F[s]]
  BY <1>3 DEF Loops
<1>5. F[s] \in Bad
  BY <1>4
<1>6. mu[F[s]] < mu[s] /\ mu[F[s]] \in Nat /\ mu[s] \in Nat
  BY <1>3, <1>4
<1>7. mu[s] <= mu[F[s]]
  BY <1>2, <1>5
<1> QED BY <1>6, <1>7

-----------------------------------------------------------------------------
(* A measure of what is still to be found.                                 *)

\* Numbers up to K, one for each element of V.
Bounded(V, K) == [V -> 0..K]

\* Decreasing some of finitely many bounded numbers cannot go on forever.
Decreases(V, K, mu) ==
    /\ mu \in [Bounded(V, K) -> Nat]
    /\ \A g, h \in Bounded(V, K) :
          (\A v \in V : h[v] <= g[v]) /\ (\E v \in V : h[v] < g[v]) => mu[h] < mu[g]

\* One more number adds its value to the measure.
LEMMA MeasureOfOneMore ==
    ASSUME NEW K \in Nat, NEW V, NEW x \in V, NEW mu, Decreases(V \ {x}, K, mu)
    PROVE  \E nu : Decreases(V, K, nu)
<1> DEFINE W == V \ {x}
           Rest(g) == [v \in W |-> g[v]]
           nu == [g \in Bounded(V, K) |-> mu[Rest(g)] + g[x]]
<1>1. ASSUME NEW g \in Bounded(V, K) PROVE Rest(g) \in Bounded(W, K) /\ g[x] \in Nat
  BY DEF Bounded
<1>2. nu \in [Bounded(V, K) -> Nat]
  <2> SUFFICES ASSUME NEW g \in Bounded(V, K) PROVE mu[Rest(g)] + g[x] \in Nat
    OBVIOUS
  <2>1. mu[Rest(g)] \in Nat /\ g[x] \in Nat
    BY <1>1 DEF Decreases
  <2> QED BY <2>1
<1>3. ASSUME NEW g \in Bounded(V, K), NEW h \in Bounded(V, K),
             \A v \in V : h[v] <= g[v], NEW u \in V, h[u] < g[u]
      PROVE  nu[h] < nu[g]
  <2>1. /\ Rest(g) \in Bounded(W, K) /\ Rest(h) \in Bounded(W, K)
        /\ mu[Rest(g)] \in Nat /\ mu[Rest(h)] \in Nat /\ g[x] \in Nat /\ h[x] \in Nat
    BY <1>1 DEF Decreases
  <2>2. \A v \in W : Rest(h)[v] <= Rest(g)[v]
    BY <1>3
  <2>3. h[x] <= g[x]
    BY <1>3
  <2>4. CASE u \in W
    <3>1. Rest(h)[u] < Rest(g)[u]
      BY <1>3, <2>4
    <3>2. mu[Rest(h)] < mu[Rest(g)]
      BY <2>1, <2>2, <2>4, <3>1 DEF Decreases
    <3> QED BY <3>2, <2>1, <2>3
  <2>5. CASE u = x
    <3>1. CASE Rest(h) = Rest(g)
      BY <3>1, <2>1, <2>5, <1>3
    <3>2. CASE Rest(h) # Rest(g)
      <4>1. PICK w \in W : h[w] # g[w]
        BY <3>2
      <4>2. h[w] \in 0..K /\ g[w] \in 0..K /\ h[w] <= g[w]
        BY <1>3 DEF Bounded
      <4>3. Rest(h)[w] < Rest(g)[w]
        BY <4>1, <4>2
      <4>4. mu[Rest(h)] < mu[Rest(g)]
        BY <2>1, <2>2, <4>3 DEF Decreases
      <4> QED BY <4>4, <2>1, <2>3
    <3> QED BY <3>1, <3>2
  <2> QED BY <2>4, <2>5
<1> HIDE DEF nu
<1>4. Decreases(V, K, nu)
  BY <1>2, <1>3 DEF Decreases
<1> QED BY <1>4

\* There is such a measure for every finite set of numbers.
LEMMA MeasureExists ==
    ASSUME NEW K \in Nat, NEW V, IsFiniteSet(V)
    PROVE  \E mu : Decreases(V, K, mu)
<1> DEFINE P == {n \in Nat : \A U : IsFiniteSet(U) /\ Cardinality(U) = n => \E mu : Decreases(U, K, mu)}
<1>1. 0 \in P
  <2> SUFFICES ASSUME NEW U, IsFiniteSet(U), Cardinality(U) = 0 PROVE \E mu : Decreases(U, K, mu)
    OBVIOUS
  <2>1. U = {}
    BY FS_EmptySet
  <2> DEFINE mu == [g \in Bounded(U, K) |-> 0]
  <2>2. Decreases(U, K, mu)
    BY <2>1 DEF Decreases
  <2> QED BY <2>2
<1>2. ASSUME NEW n \in P PROVE n + 1 \in P
  <2> SUFFICES ASSUME NEW U, IsFiniteSet(U), Cardinality(U) = n + 1 PROVE \E mu : Decreases(U, K, mu)
    OBVIOUS
  <2>1. U # {}
    BY FS_EmptySet
  <2>2. PICK x \in U : TRUE
    BY <2>1
  <2>3. IsFiniteSet(U \ {x}) /\ Cardinality(U \ {x}) = n
    BY <2>2, FS_RemoveElement
  <2>4. PICK mu : Decreases(U \ {x}, K, mu)
    BY <2>3
  <2> QED BY <2>2, <2>4, MeasureOfOneMore
<1>3. P = Nat
  <2> HIDE DEF P
  <2>1. P \in SUBSET Nat
    BY DEF P
  <2> QED BY <1>1, <1>2, <2>1, Numbers
<1>4. Cardinality(V) \in P
  BY <1>3, FS_CardinalityType
<1> QED BY <1>4

-----------------------------------------------------------------------------
(* The steps of a search.                                                  *)

\* The type of the store, and of a list of its edges.
EdgeRecord == [from : Vertices, to : Vertices, cost : Values, neg : Nat]

StoreTyped == edges \in Seq(EdgeRecord)
IsList(list) == list \in Seq(DOMAIN edges)

\* What the steps of a search do to the parts of its record.
Skips(s, t) ==
    /\ t.todo = Tail(s.todo) /\ t.open = s.open /\ t.curr = s.curr /\ t.seen = s.seen
    /\ t.length = s.length /\ t.by = s.by /\ t.inRange = s.inRange

\* A shorter path: its last vertex is opened again.
Improves(s, t, e, next, length) ==
    /\ t.todo = Tail(s.todo) /\ t.curr = s.curr /\ t.seen = s.seen \cup {next}
    /\ t.open \in Seq(Vertices) /\ Len(t.open) = Len(s.open) + 1 /\ Range(t.open) = {next} \cup Range(s.open)
    /\ t.length = [s.length EXCEPT ![next] = length] /\ t.by = [s.by EXCEPT ![next] = e]
    /\ t.inRange = s.inRange

\* What the fields of a declared edge are.
LEMMA EdgesTyped ==
    ASSUME StoreTyped, NEW e \in DOMAIN edges
    PROVE  /\ edges[e].from \in Vertices /\ edges[e].to \in Vertices /\ edges[e].cost \in Values
           /\ edges[e].cost \in Int /\ edges[e].neg \in Nat /\ e \in 1..Len(edges) /\ Len(edges) \in Nat
           /\ \A forward : TailOf(forward, e) \in Vertices /\ HeadOf(forward, e) \in Vertices
<1>1. edges[e] \in EdgeRecord
  BY ElementOfSeq, LenProperties DEF StoreTyped
<1>2. edges[e].cost \in Int
  BY <1>1 DEF EdgeRecord, Values
<1>3. e \in 1..Len(edges) /\ Len(edges) \in Nat
  BY LenProperties DEF StoreTyped
<1> QED BY <1>1, <1>2, <1>3 DEF EdgeRecord, TailOf, HeadOf

\* What the fields of a search are.
LEMMA SearchTyped ==
    ASSUME NEW s \in Searches
    PROVE  /\ s.open \in Seq(Vertices) /\ s.curr \in Vertices /\ s.todo \in Seq(DOMAIN edges)
           /\ s.seen \subseteq Vertices /\ s.length \in [Vertices -> Values]
           /\ s.by \in [Vertices -> 0..Len(edges)] /\ s.inRange \in BOOLEAN /\ s.queue \in BOOLEAN
           /\ \A v \in Vertices : s.length[v] \in Int
BY DEF Searches, Values

\* The elements of two lists one after the other.
LEMMA RangeOfJoined ==
    ASSUME NEW T, NEW p \in Seq(T), NEW q \in Seq(T)
    PROVE  p \o q \in Seq(T) /\ Len(p \o q) = Len(p) + Len(q) /\ Range(p \o q) = Range(p) \cup Range(q)
<1>0. DOMAIN p = 1..Len(p) /\ Len(p) \in Nat /\ DOMAIN q = 1..Len(q) /\ Len(q) \in Nat
  BY LenProperties
<1> DEFINE r == p \o q
<1>1. r \in Seq(T) /\ Len(r) = Len(p) + Len(q)
      /\ \A i \in 1..Len(r) : r[i] = IF i <= Len(p) THEN p[i] ELSE q[i - Len(p)]
  BY ConcatProperties
<1>2. DOMAIN r = 1..(Len(p) + Len(q))
  BY <1>1, LenProperties
<1> HIDE DEF r
<1>3. ASSUME NEW y \in Range(r) PROVE y \in Range(p) \/ y \in Range(q)
  <2>1. PICK i \in 1..(Len(p) + Len(q)) : y = r[i]
    BY <1>2 DEF Range
  <2>2. CASE i <= Len(p)
    <3>1. i \in 1..Len(p) /\ r[i] = p[i]
      BY <2>1, <2>2, <1>1, <1>0
    <3> QED BY <3>1, <2>1, <1>0 DEF Range
  <2>3. CASE i > Len(p)
    <3>1. i - Len(p) \in 1..Len(q) /\ r[i] = q[i - Len(p)]
      BY <2>1, <2>3, <1>1, <1>0
    <3> QED BY <3>1, <2>1, <1>0 DEF Range
  <2> QED BY <2>1, <2>2, <2>3, <1>0
<1>4. ASSUME NEW y \in Range(p) PROVE y \in Range(r)
  <2>1. PICK i \in 1..Len(p) : y = p[i]
    BY <1>0 DEF Range
  <2>2. i \in 1..(Len(p) + Len(q)) /\ r[i] = y
    BY <2>1, <1>1, <1>0
  <2> QED BY <2>2, <1>2 DEF Range
<1>5. ASSUME NEW y \in Range(q) PROVE y \in Range(r)
  <2>1. PICK i \in 1..Len(q) : y = q[i]
    BY <1>0 DEF Range
  <2>2. i + Len(p) \in 1..(Len(p) + Len(q)) /\ ~ i + Len(p) <= Len(p) /\ (i + Len(p)) - Len(p) = i
    BY <2>1, <1>0
  <2>3. r[i + Len(p)] = y
    BY <2>1, <2>2, <1>1
  <2> QED BY <2>2, <2>3, <1>2 DEF Range
<1> QED BY <1>1, <1>3, <1>4, <1>5 DEF r

\* A vertex is opened, on either end.
LEMMA OpenedRight ==
    ASSUME NEW s, s.open \in Seq(Vertices), NEW v \in Vertices
    PROVE  /\ Opened(s, v) \in Seq(Vertices) /\ Len(Opened(s, v)) = Len(s.open) + 1
           /\ Range(Opened(s, v)) = {v} \cup Range(s.open)
<1>1. <<v>> \in Seq(Vertices) /\ Len(<<v>>) = 1 /\ Range(<<v>>) = {v}
  BY DEF Range
<1>2. Len(s.open) \in Nat
  BY LenProperties
<1>3. PICK q \in Seq(Vertices) : q = s.open
  OBVIOUS
<1>4. PICK p \in Seq(Vertices) : p = <<v>> /\ Len(p) = 1 /\ Range(p) = {v}
  BY <1>1
<1>5. Opened(s, v) = q \o p \/ Opened(s, v) = p \o q
  BY <1>3, <1>4 DEF Opened
<1>6. q \o p \in Seq(Vertices) /\ Len(q \o p) = Len(q) + Len(p) /\ Range(q \o p) = Range(q) \cup Range(p)
  BY RangeOfJoined
<1>7. p \o q \in Seq(Vertices) /\ Len(p \o q) = Len(p) + Len(q) /\ Range(p \o q) = Range(p) \cup Range(q)
  BY RangeOfJoined
<1>8. Len(p) + Len(q) = Len(q) + 1 /\ Len(q) + Len(p) = Len(q) + 1
  BY <1>2, <1>3, <1>4
<1> HIDE DEF Opened
<1> QED BY <1>3, <1>4, <1>5, <1>6, <1>7, <1>8

\* One edge looked at.
LEMMA RelaxSteps ==
    ASSUME StoreTyped, NEW forward \in BOOLEAN,
           NEW s \in Searches, s.inRange, s.todo # <<>>
    PROVE  LET t == Relax(forward, s)
               e == Head(s.todo)
               next == HeadOf(forward, e)
               length == s.length[s.curr] + edges[e].cost
           IN  /\ t \in Searches
               /\ e \in DOMAIN edges
               /\ \/ Skips(s, t) /\ TailOf(forward, e) # s.curr
                  \/ Skips(s, t) /\ next \in s.seen /\ s.length[next] <= length
                  \/ t = [s EXCEPT !.inRange = FALSE]
                  \/ /\ Improves(s, t, e, next, length) /\ length \in Values /\ TailOf(forward, e) = s.curr
                     /\ next \notin s.seen \/ length < s.length[next]
<1> DEFINE t == Relax(forward, s)
           e == Head(s.todo)
           next == HeadOf(forward, e)
           length == s.length[s.curr] + edges[e].cost
<1>1. /\ s.open \in Seq(Vertices) /\ s.curr \in Vertices /\ s.todo \in Seq(DOMAIN edges)
      /\ s.seen \subseteq Vertices /\ s.length \in [Vertices -> Values]
      /\ s.by \in [Vertices -> 0..Len(edges)] /\ s.inRange \in BOOLEAN /\ s.queue \in BOOLEAN
      /\ \A v \in Vertices : s.length[v] \in Int
  BY SearchTyped
<1>2. e \in DOMAIN edges /\ Tail(s.todo) \in Seq(DOMAIN edges)
  BY <1>1, HeadTailProperties
<1>3. next \in Vertices /\ edges[e].cost \in Int /\ e \in 1..Len(edges) /\ Len(edges) \in Nat
  BY <1>2, EdgesTyped
<1>4. length \in Int
  BY <1>1, <1>3, SMTT(30)
<1>5. s = [open |-> s.open, curr |-> s.curr, todo |-> s.todo, seen |-> s.seen, length |-> s.length,
           by |-> s.by, inRange |-> s.inRange, queue |-> s.queue]
  BY DEF Searches
<1> DEFINE skip == [s EXCEPT !.todo = Tail(@)]
           better == [s EXCEPT !.todo = Tail(@), !.open = Opened(s, next), !.seen = @ \cup {next},
                               !.length = [@ EXCEPT ![next] = length], !.by = [@ EXCEPT ![next] = e]]
<1>6. skip \in Searches /\ Skips(s, skip)
  BY <1>1, <1>2, <1>5 DEF Searches, Skips
<1>7. [s EXCEPT !.inRange = FALSE] \in Searches
  BY <1>1, <1>5 DEF Searches
<1>8. ASSUME length \in Values PROVE better \in Searches /\ Improves(s, better, e, next, length)
  <2>1. /\ Opened(s, next) \in Seq(Vertices) /\ Len(Opened(s, next)) = Len(s.open) + 1
        /\ Range(Opened(s, next)) = {next} \cup Range(s.open)
    <3> HIDE DEF next
    <3> QED BY <1>1, <1>3, OpenedRight
  <2>2. [s.length EXCEPT ![next] = length] \in [Vertices -> Values]
    BY <1>1, <1>8
  <2>3. [s.by EXCEPT ![next] = e] \in [Vertices -> 0..Len(edges)]
    BY <1>1, <1>3
  <2>4. s.seen \cup {next} \subseteq Vertices
    BY <1>1, <1>3
  <2>5. PICK l1 \in [Vertices -> Values] : l1 = [s.length EXCEPT ![next] = length]
    BY <2>2
  <2>6. PICK b1 \in [Vertices -> 0..Len(edges)] : b1 = [s.by EXCEPT ![next] = e]
    BY <2>3
  <2>7. PICK o1 \in Seq(Vertices) : o1 = Opened(s, next)
    BY <2>1
  <2>8. better = [s EXCEPT !.todo = Tail(s.todo), !.open = o1, !.seen = s.seen \cup {next},
                           !.length = l1, !.by = b1]
    BY <2>5, <2>6, <2>7
  <2> HIDE DEF better, next, length, e
  <2>9. better \in Searches
    BY <2>8, <2>4, <1>1, <1>2 DEF Searches
  <2>10. /\ better.todo = Tail(s.todo) /\ better.open = o1 /\ better.curr = s.curr
         /\ better.seen = s.seen \cup {next} /\ better.length = l1 /\ better.by = b1
         /\ better.inRange = s.inRange
    BY <2>8 DEF Searches
  <2> QED BY <2>1, <2>5, <2>6, <2>7, <2>9, <2>10 DEF Improves
<1>9. t = IF TailOf(forward, e) # s.curr THEN skip
          ELSE IF length \notin Values THEN [s EXCEPT !.inRange = FALSE]
          ELSE IF ~ (next \notin s.seen \/ s.length[next] > length) THEN skip
          ELSE better
  BY DEF Relax
<1>10. s.length[next] \in Int
  BY <1>1, <1>3
<1> HIDE DEF t, e, next, length, skip, better
<1>11. CASE TailOf(forward, e) # s.curr
  BY <1>2, <1>6, <1>9, <1>11 DEF t, e
<1>12. CASE TailOf(forward, e) = s.curr /\ length \notin Values
  BY <1>2, <1>7, <1>9, <1>12 DEF t, e
<1>13. CASE TailOf(forward, e) = s.curr /\ length \in Values /\ ~ (next \notin s.seen \/ s.length[next] > length)
  <2>1. t = skip /\ next \in s.seen /\ s.length[next] <= length
    BY <1>9, <1>13, <1>4, <1>10
  <2> QED BY <2>1, <1>6, <1>2 DEF t, e, next, length
<1>14. CASE TailOf(forward, e) = s.curr /\ length \in Values /\ (next \notin s.seen \/ s.length[next] > length)
  <2>1. t = better /\ (next \notin s.seen \/ length < s.length[next])
    BY <1>9, <1>14, <1>4, <1>10
  <2> QED BY <2>1, <1>8, <1>14, <1>2 DEF t, e, next, length
<1> QED BY <1>11, <1>12, <1>13, <1>14

\* A vertex taken from the open ones.
LEMMA ScanSteps ==
    ASSUME NEW s \in Searches, NEW list, IsList(list), s.open # <<>>
    PROVE  /\ Scan(s, list) \in Searches
           /\ Scan(s, list) = [s EXCEPT !.open = Tail(s.open), !.curr = Head(s.open), !.todo = list]
           /\ Head(s.open) \in Vertices /\ Tail(s.open) \in Seq(Vertices) /\ Len(Tail(s.open)) = Len(s.open) - 1
<1>1. s.open \in Seq(Vertices)
  BY SearchTyped
<1>2. Head(s.open) \in Vertices /\ Tail(s.open) \in Seq(Vertices) /\ Len(Tail(s.open)) = Len(s.open) - 1
  BY <1>1, HeadTailProperties
<1> QED BY <1>2 DEF Scan, Searches, IsList

\* The step of Search().
Following(forward, list, s) == IF s.todo = <<>> THEN Scan(s, list) ELSE Relax(forward, s)

\* What a search has left: improvements, open vertices, edges to look at, and whether it goes on.
Weights == MaxInt - MinInt + 1
Left(s) == [v \in Vertices |-> IF v \in s.seen THEN s.length[v] - MinInt ELSE Weights]
Times(x, y) == x * y
Measure(mu, list, s) ==
    Times(mu[Left(s)] + Len(s.open), Len(list) + 1) + Len(s.todo) + (IF s.inRange THEN 1 ELSE 0)

\* Values is the interval from MinInt to MaxInt, which lies about 0.
LEMMA Bounds ==
    /\ MinInt \in Int /\ MaxInt \in Int /\ MinInt <= 0 /\ 0 <= MaxInt /\ MinInt = -MaxInt - 1
    /\ \A x \in Values : x \in Int /\ MinInt <= x /\ x <= MaxInt
    /\ \A x \in Int : MinInt <= x /\ x <= MaxInt => x \in Values
<1>1. 2^(Width - 1) \in Int
  BY WidthAssumption
<1> QED BY <1>1, WidthAssumption DEF MinInt, MaxInt, Values

\* What a search has left to improve is bounded: a length in range, or one more than all of them.
LEMMA LeftBounded == ASSUME NEW s \in Searches PROVE Weights \in Nat /\ Left(s) \in Bounded(Vertices, Weights)
<1>1. Weights \in Nat
  BY Bounds DEF Weights
<1>2. \A v \in Vertices : s.length[v] \in Values
  BY SearchTyped
<1>3. \A v \in Vertices : (IF v \in s.seen THEN s.length[v] - MinInt ELSE Weights) \in 0..Weights
  BY <1>2, Bounds DEF Weights
<1> QED BY <1>1, <1>3 DEF Left, Bounded

\* The arithmetic of products that the measure needs.
LEMMA Products ==
    \A x, y, k \in Nat :
        /\ Times(x, k) \in Nat
        /\ x <= y => Times(x, k) <= Times(y, k)
        /\ Times(x + 1, k) = Times(x, k) + k
BY DEF Times

\* Every step of Search() leaves less to do, whatever the list of edges and the goal.
LEMMA SearchShrinks ==
    ASSUME StoreTyped, NEW forward \in BOOLEAN, NEW list, IsList(list),
           NEW goal, NEW cost, NEW mu, Decreases(Vertices, Weights, mu),
           NEW s \in Searches, ~ Ended(s, goal, cost)
    PROVE  LET t == Following(forward, list, s)
           IN  /\ t \in Searches /\ Measure(mu, list, s) \in Nat
               /\ Measure(mu, list, t) < Measure(mu, list, s)
<1> DEFINE t == Following(forward, list, s)
           L == Len(list)
           M(x) == mu[Left(x)]
<1>1. s.inRange /\ (s.todo = <<>> => s.open # <<>>)
  BY SearchTyped DEF Ended
<1>2. L \in Nat /\ \A x \in Searches : M(x) \in Nat /\ Len(x.open) \in Nat /\ Len(x.todo) \in Nat
  <2>1. L \in Nat
    BY LenProperties
  <2>2. \A x \in Searches : M(x) \in Nat
    BY LeftBounded DEF Decreases
  <2>3. \A x \in Searches : Len(x.open) \in Nat /\ Len(x.todo) \in Nat
    BY SearchTyped, LenProperties
  <2> QED BY <2>1, <2>2, <2>3
<1>3. \A x \in Searches : Measure(mu, list, x) \in Nat
  <2> SUFFICES ASSUME NEW x \in Searches PROVE Measure(mu, list, x) \in Nat
    OBVIOUS
  <2>1. M(x) \in Nat /\ Len(x.open) \in Nat /\ Len(x.todo) \in Nat /\ L \in Nat
    BY <1>2
  <2> HIDE DEF M, L
  <2>2. Times(M(x) + Len(x.open), L + 1) \in Nat
    <3>1. M(x) + Len(x.open) \in Nat /\ L + 1 \in Nat
      BY <2>1
    <3> QED BY <3>1, Products
  <2>3. Measure(mu, list, x) = Times(M(x) + Len(x.open), L + 1) + Len(x.todo) + (IF x.inRange THEN 1 ELSE 0)
    BY DEF Measure, M, L
  <2>4. PICK n \in Nat : n = Times(M(x) + Len(x.open), L + 1)
    BY <2>2
  <2>5. PICK b \in Nat : b = (IF x.inRange THEN 1 ELSE 0)
    OBVIOUS
  <2>6. PICK k \in Nat : k = Len(x.todo)
    BY <2>1
  <2>7. Measure(mu, list, x) = n + k + b
    BY <2>3, <2>4, <2>5, <2>6
  <2> QED BY <2>7
<1>4. CASE s.todo = <<>>
  <2>1. t = Scan(s, list)
    BY <1>4 DEF Following
  <2>2. /\ t \in Searches
        /\ t = [s EXCEPT !.open = Tail(s.open), !.curr = Head(s.open), !.todo = list]
        /\ Len(Tail(s.open)) = Len(s.open) - 1
    BY <2>1, <1>1, <1>4, ScanSteps
  <2>3. t.seen = s.seen /\ t.length = s.length /\ t.inRange = s.inRange /\ t.open = Tail(s.open) /\ t.todo = list
    BY <2>2 DEF Searches
  <2>4. M(t) = M(s) /\ Len(t.open) = Len(s.open) - 1 /\ Len(t.todo) = L /\ Len(s.todo) = 0
    BY <2>2, <2>3, <1>4 DEF Left
  <2>5. M(s) \in Nat /\ Len(s.open) \in Nat /\ Len(t.open) \in Nat /\ M(t) \in Nat
    BY <1>2, <2>2
  <2> DEFINE x == M(t) + Len(t.open)
             y == M(s) + Len(s.open)
  <2>6. y = x + 1 /\ x \in Nat /\ L + 1 \in Nat
    BY <2>4, <2>5, <1>2
  <2>7. Times(y, L + 1) = Times(x, L + 1) + (L + 1) /\ Times(x, L + 1) \in Nat /\ Times(y, L + 1) \in Nat
    <3> HIDE DEF x, y, M, L
    <3>1. Times(x + 1, L + 1) = Times(x, L + 1) + (L + 1) /\ Times(x, L + 1) \in Nat
      BY <2>6, Products
    <3> QED BY <2>6, <3>1
  <2>8. Measure(mu, list, t) = Times(x, L + 1) + L + (IF s.inRange THEN 1 ELSE 0)
        /\ Measure(mu, list, s) = Times(y, L + 1) + 0 + (IF s.inRange THEN 1 ELSE 0)
    BY <2>3, <2>4 DEF Measure
  <2> HIDE DEF x, y, M, L
  <2>9. Measure(mu, list, t) < Measure(mu, list, s)
    BY <2>7, <2>8, <1>2
  <2> QED BY <2>2, <2>9, <1>3
<1>5. CASE s.todo # <<>>
  <2> DEFINE e == Head(s.todo)
             next == HeadOf(forward, e)
             length == s.length[s.curr] + edges[e].cost
  <2>1. t = Relax(forward, s)
    BY <1>5 DEF Following
  <2>2. /\ t \in Searches
        /\ \/ Skips(s, t)
           \/ t = [s EXCEPT !.inRange = FALSE]
           \/ /\ Improves(s, t, e, next, length) /\ length \in Values
              /\ next \notin s.seen \/ length < s.length[next]
    BY <2>1, <1>1, <1>5, RelaxSteps
  <2>3. e \in DOMAIN edges /\ Len(Tail(s.todo)) = Len(s.todo) - 1
    BY <1>5, SearchTyped, HeadTailProperties
  <2>4. /\ M(s) \in Nat /\ Len(s.open) \in Nat /\ Len(s.todo) \in Nat
        /\ M(t) \in Nat /\ Len(t.open) \in Nat /\ Len(t.todo) \in Nat /\ L \in Nat
    BY <1>2, <2>2
  <2> DEFINE x == M(t) + Len(t.open)
             y == M(s) + Len(s.open)
  <2>5. CASE Skips(s, t)
    <3>1. M(t) = M(s) /\ t.open = s.open /\ t.inRange = s.inRange /\ Len(t.todo) = Len(s.todo) - 1
      BY <2>3, <2>5 DEF Skips, Left
    <3> HIDE DEF M, L
    <3>2. Times(M(s) + Len(s.open), L + 1) \in Nat
      <4>1. M(s) + Len(s.open) \in Nat /\ L + 1 \in Nat
        BY <2>4
      <4> QED BY <4>1, Products
    <3>3. Measure(mu, list, t) < Measure(mu, list, s)
      BY <3>1, <3>2, <2>4 DEF Measure, M, L
    <3> QED BY <3>3, <2>2, <1>3
  <2>6. CASE t = [s EXCEPT !.inRange = FALSE]
    <3>1. M(t) = M(s) /\ t.open = s.open /\ t.inRange = FALSE /\ t.todo = s.todo
      BY <2>6 DEF Left, Searches
    <3> HIDE DEF M, L
    <3>2. Times(M(s) + Len(s.open), L + 1) \in Nat
      <4>1. M(s) + Len(s.open) \in Nat /\ L + 1 \in Nat
        BY <2>4
      <4> QED BY <4>1, Products
    <3>3. Measure(mu, list, t) < Measure(mu, list, s)
      BY <3>1, <3>2, <2>4, <1>1 DEF Measure, M, L
    <3> QED BY <3>3, <2>2, <1>3
  <2>7. CASE /\ Improves(s, t, e, next, length) /\ length \in Values
             /\ next \notin s.seen \/ length < s.length[next]
    <3>1. next \in Vertices
      BY <2>3, EdgesTyped
    <3>2. \A v \in Vertices : Left(t)[v] = IF v = next THEN length - MinInt ELSE Left(s)[v]
      BY <2>7, <3>1, SearchTyped DEF Left, Improves
    <3>3. Left(t)[next] < Left(s)[next]
      <4>1. Left(t)[next] = length - MinInt
        BY <3>1, <3>2
      <4>2. s.length[next] \in Int /\ length \in Int /\ length <= MaxInt
        BY <3>1, SearchTyped, Bounds, <2>7
      <4>3. Left(s)[next] = IF next \in s.seen THEN s.length[next] - MinInt ELSE Weights
        BY <3>1 DEF Left
      <4> HIDE DEF length, next
      <4> QED BY <4>1, <4>2, <4>3, <2>7, Bounds DEF Weights
    <3>4. Left(t) \in Bounded(Vertices, Weights) /\ Left(s) \in Bounded(Vertices, Weights)
      BY LeftBounded, <2>2
    <3>5. \A v \in Vertices : Left(t)[v] <= Left(s)[v]
      <4> SUFFICES ASSUME NEW v \in Vertices PROVE Left(t)[v] <= Left(s)[v]
        OBVIOUS
      <4>1. Left(t)[v] \in 0..Weights /\ Left(s)[v] \in 0..Weights /\ Weights \in Nat
        BY <3>4, LeftBounded DEF Bounded
      <4> HIDE DEF length, next
      <4>2. CASE v = next
        BY <4>1, <4>2, <3>3
      <4>3. CASE v # next
        BY <4>1, <4>3, <3>2
      <4> QED BY <4>2, <4>3
    <3>6. M(t) < M(s)
      BY <3>1, <3>3, <3>4, <3>5 DEF Decreases
    <3>7. t.inRange = s.inRange /\ Len(t.todo) = Len(s.todo) - 1 /\ Len(t.open) = Len(s.open) + 1
      <4>1. Len(t.open) = Len(s.open) + 1
        BY <2>7 DEF Improves
      <4> QED BY <4>1, <2>3, <2>7 DEF Improves
    <3>8. x \in Nat /\ y \in Nat /\ x <= y
      <4> HIDE DEF M, L, t
      <4> QED BY <2>4, <3>6, <3>7, SMTT(30)
    <3>9. Times(x, L + 1) \in Nat /\ Times(y, L + 1) \in Nat /\ Times(x, L + 1) <= Times(y, L + 1)
      <4>1. L + 1 \in Nat
        BY <2>4
      <4> HIDE DEF x, y, M, L
      <4> QED BY <3>8, <4>1, Products
    <3>10. Measure(mu, list, t) = Times(x, L + 1) + Len(t.todo) + (IF t.inRange THEN 1 ELSE 0)
           /\ Measure(mu, list, s) = Times(y, L + 1) + Len(s.todo) + (IF s.inRange THEN 1 ELSE 0)
      BY DEF Measure
    <3> HIDE DEF x, y, M, L
    <3>11. Measure(mu, list, t) < Measure(mu, list, s)
      BY <3>7, <3>9, <3>10, <2>4
    <3> QED BY <3>11, <2>2, <1>3
  <2> QED BY <2>2, <2>5, <2>6, <2>7
<1> QED BY <1>4, <1>5

\* A search ends, in a state that has whatever its steps keep.
LEMMA SearchKeeps ==
    ASSUME StoreTyped, NEW forward \in BOOLEAN, NEW list, IsList(list),
           NEW goal, NEW cost,
           NEW J \in SUBSET Searches, NEW start \in J,
           \A s \in J : ~ Ended(s, goal, cost) => Following(forward, list, s) \in J
    PROVE  Search(start, forward, list, goal, cost) \in {s \in J : Ended(s, goal, cost)}
<1> DEFINE D == {s \in Searches : Ended(s, goal, cost)}
           F == [s \in Searches |-> IF s \in D THEN s ELSE Following(forward, list, s)]
           Runs(f) == f = [s \in Searches |-> IF Ended(s, goal, cost) THEN s ELSE f[Following(forward, list, s)]]
           run == CHOOSE f : Runs(f)
<1>1. PICK mu : Decreases(Vertices, Weights, mu)
  <2>1. Weights \in Nat
    BY Bounds DEF Weights
  <2> QED BY <2>1, MeasureExists, AtomsAssumption
<1>2. ASSUME NEW s \in Searches \ D
      PROVE  /\ Following(forward, list, s) \in Searches /\ Measure(mu, list, s) \in Nat
             /\ Measure(mu, list, Following(forward, list, s)) < Measure(mu, list, s)
  BY <1>1, <1>2, SearchShrinks
<1>3. F \in [Searches -> Searches] /\ D \in SUBSET Searches
  BY <1>2
<1>4. \E f : Runs(f)
  <2>1. PICK f : Loops(Searches, D, F, f)
    <3> HIDE DEF F, D
    <3> QED BY <1>3, LoopDefined
  <2>2. \A s \in Searches : IF s \in D THEN TRUE ELSE F[s] = Following(forward, list, s)
    OBVIOUS
  <2>3. f = [s \in Searches |-> IF Ended(s, goal, cost) THEN s ELSE f[Following(forward, list, s)]]
    BY <2>1, <2>2 DEF Loops
  <2> QED BY <2>3
<1>5. Runs(run)
  BY <1>4
<1>6. Search(start, forward, list, goal, cost) = run[start]
  BY DEF Search, Following
<1>7. Loops(Searches, D, F, run)
  <2> HIDE DEF run
  <2>1. \A s \in Searches : IF s \in D THEN TRUE ELSE F[s] = Following(forward, list, s)
    OBVIOUS
  <2> QED BY <1>5, <2>1 DEF Loops
<1> DEFINE m == [s \in Searches |-> IF s \in D THEN 0 ELSE Measure(mu, list, s) + 1]
<1>8. m \in [Searches -> Nat]
  BY <1>2
<1>9. ASSUME NEW s \in Searches \ D PROVE m[F[s]] < m[s]
  <2>1. F[s] = Following(forward, list, s) /\ F[s] \in Searches
    BY <1>2
  <2>2. m[s] = Measure(mu, list, s) + 1
    OBVIOUS
  <2>3. CASE F[s] \in D
    BY <2>1, <2>2, <2>3, <1>2
  <2>4. CASE F[s] \notin D
    <3>1. m[F[s]] = Measure(mu, list, F[s]) + 1
      BY <2>1, <2>4
    <3>2. Measure(mu, list, F[s]) \in Nat
      BY <2>1, <2>4, <1>2
    <3> QED BY <3>1, <3>2, <2>1, <2>2, <1>2
  <2> QED BY <2>3, <2>4
<1>10. Keeps(Searches, D, F, J)
  BY DEF Keeps
<1>11. Shrinks(Searches, D, F, m)
  BY <1>8, <1>9 DEF Shrinks
<1> HIDE DEF run, F, D, m
<1>12. run[start] \in J \cap D
  BY <1>3, <1>7, <1>10, <1>11, LoopEnds
<1> QED BY <1>6, <1>12 DEF D

-----------------------------------------------------------------------------
(* Shortest distances.                                                     *)

\* The difference that an edge from u to v bounds, when edges are followed forward or backward.
Diff(forward, m, u, v) == IF forward THEN m[v] - m[u] ELSE m[u] - m[v]

\* An assignment satisfies every edge of a list.
Fits(m, list) == \A e \in Range(list) : Holds(m, OfEdge(e))

\* An edge shortens no path any more.
Relaxed(forward, s, e) ==
    /\ HeadOf(forward, e) \in s.seen
    /\ s.length[HeadOf(forward, e)] <= s.length[TailOf(forward, e)] + edges[e].cost

\* What an edge at a vertex that was seen may still be waiting for.
Pending(forward, s, e) ==
    \/ TailOf(forward, e) \in Range(s.open)
    \/ TailOf(forward, e) = s.curr /\ e \in Range(s.todo)
    \/ ~ s.inRange

\* The lengths found are upper bounds for every assignment that satisfies the list.
SoundLengths(forward, list, init, s) ==
    \A m \in [Vertices -> Int] : Fits(m, list) => \A v \in s.seen : Diff(forward, m, init, v) <= s.length[v]

\* What holds of a search at each step: no edge at a vertex that was seen is forgotten.  The vertex it
\* starts from need not count as seen.
CoverOf(forward, list, init) ==
    {s \in Searches :
        /\ s.curr \in s.seen \cup {init} /\ Range(s.open) \subseteq s.seen \cup {init}
        /\ Range(s.todo) \subseteq Range(list)
        /\ \A e \in Range(list) :
              TailOf(forward, e) \in s.seen \cup {init} => Relaxed(forward, s, e) \/ Pending(forward, s, e)}

\* What holds of dfsSearch() besides.
SearchOf(forward, list, init) ==
    {s \in CoverOf(forward, list, init) :
        init \in s.seen /\ s.length[init] <= 0 /\ SoundLengths(forward, list, init, s)}

\* Differences add up along a path, in either direction.
LEMMA DiffAdds ==
    ASSUME NEW forward \in BOOLEAN, NEW m \in [Vertices -> Int],
           NEW u \in Vertices, NEW v \in Vertices, NEW w \in Vertices
    PROVE  /\ Diff(forward, m, u, v) \in Int
           /\ Diff(forward, m, u, w) = Diff(forward, m, u, v) + Diff(forward, m, v, w)
           /\ Diff(forward, m, u, u) = 0
BY DEF Diff

\* An edge bounds the difference from its tail to its head by its cost, in either direction.
LEMMA EdgeBounds ==
    ASSUME StoreTyped, NEW forward \in BOOLEAN, NEW m \in [Vertices -> Int],
           NEW e \in DOMAIN edges
    PROVE  Holds(m, OfEdge(e)) <=> Diff(forward, m, TailOf(forward, e), HeadOf(forward, e)) <= edges[e].cost
<1>1. edges[e].from \in Vertices /\ edges[e].to \in Vertices /\ edges[e].cost \in Int
  BY EdgesTyped
<1> QED BY <1>1 DEF Holds, OfEdge, Diff, TailOf, HeadOf

\* A list is its first element and the others.
LEMMA RangeSplits ==
    ASSUME NEW T, NEW q \in Seq(T)
    PROVE  /\ Range(q) \subseteq T
           /\ q # <<>> => /\ Head(q) \in Range(q)
                          /\ Tail(q) \in Seq(T)
                          /\ Range(q) = {Head(q)} \cup Range(Tail(q))
           /\ q = <<>> => Range(q) = {}
<1>1. DOMAIN q = 1..Len(q) /\ Len(q) \in Nat /\ \A i \in 1..Len(q) : q[i] \in T
  BY LenProperties, ElementOfSeq
<1>2. Range(q) \subseteq T /\ (q = <<>> => Range(q) = {})
  BY <1>1 DEF Range
<1>3. ASSUME q # <<>>
      PROVE  Head(q) \in Range(q) /\ Tail(q) \in Seq(T) /\ Range(q) = {Head(q)} \cup Range(Tail(q))
  <2>1. /\ Head(q) = q[1] /\ Tail(q) \in Seq(T) /\ Len(Tail(q)) = Len(q) - 1
        /\ \A i \in 1..Len(Tail(q)) : Tail(q)[i] = q[i + 1]
    BY <1>3, HeadTailProperties
  <2>2. Len(q) > 0
    BY <1>1, <1>3, EmptySeq
  <2>3. DOMAIN Tail(q) = 1..(Len(q) - 1)
    BY <2>1, LenProperties
  <2>4. ASSUME NEW x \in Range(q) PROVE x = Head(q) \/ x \in Range(Tail(q))
    <3>1. PICK i \in 1..Len(q) : x = q[i]
      BY <1>1 DEF Range
    <3>2. CASE i = 1
      BY <3>1, <3>2, <2>1
    <3>3. CASE i # 1
      <4>1. i - 1 \in 1..(Len(q) - 1) /\ (i - 1) + 1 = i
        BY <3>1, <3>3, <1>1
      <4>2. Tail(q)[i - 1] = x
        BY <4>1, <3>1, <2>1
      <4> QED BY <4>1, <4>2, <2>3 DEF Range
    <3> QED BY <3>2, <3>3
  <2>5. ASSUME NEW x \in Range(Tail(q)) PROVE x \in Range(q)
    <3>1. PICK i \in 1..(Len(q) - 1) : x = Tail(q)[i]
      BY <2>3 DEF Range
    <3>2. x = q[i + 1] /\ i + 1 \in 1..Len(q)
      BY <3>1, <2>1, <1>1
    <3> QED BY <3>2, <1>1 DEF Range
  <2>6. Head(q) \in Range(q)
    BY <2>1, <2>2, <1>1 DEF Range
  <2> QED BY <2>1, <2>4, <2>5, <2>6
<1> QED BY <1>2, <1>3

\* dfsSearch() starts with lengths that are right: 0 at the vertex it starts from.
LEMMA SearchStarts ==
    ASSUME StoreTyped, NEW forward \in BOOLEAN, NEW list, IsList(list),
           NEW init \in Vertices
    PROVE  Started(<<init>>, init, {init}, FALSE) \in SearchOf(forward, list, init)
<1> DEFINE s == Started(<<init>>, init, {init}, FALSE)
<1>1. <<init>> \in Seq(Vertices) /\ <<>> \in Seq(DOMAIN edges)
  OBVIOUS
<1>2. [v \in Vertices |-> 0] \in [Vertices -> Values]
  BY WidthAssumption
<1>3. [v \in Vertices |-> 0] \in [Vertices -> 0..Len(edges)]
  BY LenProperties
<1>4. s \in Searches
  BY <1>1, <1>2, <1>3 DEF Started, Searches
<1>5. /\ s.open = <<init>> /\ s.curr = init /\ s.todo = <<>> /\ s.seen = {init} /\ s.length[init] = 0
  BY DEF Started
<1> HIDE DEF s
<1>6. Range(s.open) = {init} /\ Range(s.todo) = {}
  BY <1>5 DEF Range
<1>7. SoundLengths(forward, list, init, s)
  <2> SUFFICES ASSUME NEW m \in [Vertices -> Int] PROVE Diff(forward, m, init, init) <= s.length[init]
    BY <1>5 DEF SoundLengths
  <2> QED BY <1>5, DiffAdds
<1>8. s \in SearchOf(forward, list, init)
  <2>1. s.length[init] <= 0
    BY <1>5
  <2>2. Range(s.open) \subseteq s.seen /\ Range(s.todo) \subseteq Range(list) /\ init \in s.seen /\ s.curr \in s.seen
    BY <1>5, <1>6
  <2>3. ASSUME NEW e \in Range(list), TailOf(forward, e) \in s.seen \cup {init} PROVE Pending(forward, s, e)
    BY <1>5, <1>6, <2>3 DEF Pending
  <2>4. s \in CoverOf(forward, list, init)
    BY <1>4, <2>2, <2>3 DEF CoverOf
  <2> QED BY <1>7, <2>1, <2>2, <2>4 DEF SearchOf
<1> QED BY <1>8 DEF s

\* Taking the next open vertex forgets no edge.
LEMMA CoverScans ==
    ASSUME StoreTyped, NEW forward \in BOOLEAN, NEW list, IsList(list),
           NEW init \in Vertices, NEW s \in CoverOf(forward, list, init),
           s.todo = <<>>, s.open # <<>>, s.inRange
    PROVE  /\ Scan(s, list) \in CoverOf(forward, list, init)
           /\ LET t == Scan(s, list)
              IN  /\ t.open = Tail(s.open) /\ t.curr = Head(s.open) /\ t.todo = list /\ t.seen = s.seen
                  /\ t.length = s.length /\ t.by = s.by /\ t.inRange = s.inRange
                  /\ Range(s.open) = {t.curr} \cup Range(t.open)
<1> DEFINE t == Scan(s, list)
<1>1. s \in Searches
  BY DEF CoverOf
<1>2. t \in Searches /\ t = [s EXCEPT !.open = Tail(s.open), !.curr = Head(s.open), !.todo = list]
  BY <1>1, ScanSteps
<1>3. /\ t.open = Tail(s.open) /\ t.curr = Head(s.open) /\ t.todo = list /\ t.seen = s.seen
      /\ t.length = s.length /\ t.by = s.by /\ t.inRange = s.inRange
  BY <1>1, <1>2 DEF Searches
<1> HIDE DEF t
<1>4. /\ Range(s.open) = {t.curr} \cup Range(t.open) /\ Range(s.todo) = {}
  <2>1. s.open \in Seq(Vertices) /\ s.todo = <<>>
    BY <1>1, SearchTyped
  <2>2. Range(s.todo) = {}
    BY <2>1 DEF Range
  <2> QED BY <2>1, <2>2, <1>3, RangeSplits
<1>6. ASSUME NEW e \in Range(list), TailOf(forward, e) \in t.seen \cup {init}
      PROVE  Relaxed(forward, t, e) \/ Pending(forward, t, e)
  <2>1. Relaxed(forward, s, e) \/ Pending(forward, s, e)
    BY <1>3, <1>6 DEF CoverOf
  <2> QED BY <2>1, <1>3, <1>4 DEF Relaxed, Pending
<1>7. t \in CoverOf(forward, list, init)
  BY <1>2, <1>3, <1>4, <1>6 DEF CoverOf
<1> QED BY <1>3, <1>4, <1>7 DEF t

\* What looking at an edge does to a search.
RelaxDoes(forward, s, t) ==
    LET e == Head(s.todo)
        next == HeadOf(forward, e)
        length == s.length[s.curr] + edges[e].cost
    IN  \/ Skips(s, t) /\ TailOf(forward, e) # s.curr
        \/ Skips(s, t) /\ next \in s.seen /\ s.length[next] <= length
        \/ t = [s EXCEPT !.inRange = FALSE]
        \/ /\ Improves(s, t, e, next, length) /\ length \in Values /\ TailOf(forward, e) = s.curr
           /\ next \notin s.seen \/ length < s.length[next]

\* Looking at an edge forgets none: what it shortens is opened again.
LEMMA CoverRelaxes ==
    ASSUME StoreTyped, NEW forward \in BOOLEAN, NEW list, IsList(list),
           NEW init \in Vertices, NEW s \in CoverOf(forward, list, init),
           s.todo # <<>>, s.inRange
    PROVE  /\ Relax(forward, s) \in CoverOf(forward, list, init)
           /\ RelaxDoes(forward, s, Relax(forward, s))
           /\ Head(s.todo) \in Range(list) /\ Head(s.todo) \in DOMAIN edges /\ Range(list) \subseteq DOMAIN edges
           /\ Range(s.todo) = {Head(s.todo)} \cup Range(Tail(s.todo))
           /\ HeadOf(forward, Head(s.todo)) \in Vertices /\ s.curr \in Vertices
           /\ edges[Head(s.todo)].cost \in Int /\ s.length[s.curr] \in Int
<1> DEFINE t == Relax(forward, s)
           e == Head(s.todo)
           next == HeadOf(forward, e)
           length == s.length[s.curr] + edges[e].cost
<1>1. /\ s \in Searches
      /\ s.curr \in s.seen \cup {init} /\ Range(s.open) \subseteq s.seen \cup {init}
      /\ Range(s.todo) \subseteq Range(list)
      /\ \A f \in Range(list) :
            TailOf(forward, f) \in s.seen \cup {init} => Relaxed(forward, s, f) \/ Pending(forward, s, f)
  BY DEF CoverOf
<1>2. /\ t \in Searches
      /\ e \in DOMAIN edges
      /\ \/ Skips(s, t) /\ TailOf(forward, e) # s.curr
         \/ Skips(s, t) /\ next \in s.seen /\ s.length[next] <= length
         \/ t = [s EXCEPT !.inRange = FALSE]
         \/ /\ Improves(s, t, e, next, length) /\ length \in Values /\ TailOf(forward, e) = s.curr
            /\ next \notin s.seen \/ length < s.length[next]
  BY <1>1, RelaxSteps
<1>3. Range(s.todo) = {e} \cup Range(Tail(s.todo)) /\ Range(list) \subseteq DOMAIN edges
  <2>1. s.todo \in Seq(DOMAIN edges)
    BY <1>1, SearchTyped
  <2>2. Range(s.todo) = {e} \cup Range(Tail(s.todo))
    BY <2>1, RangeSplits
  <2>3. Range(list) \subseteq DOMAIN edges
    BY RangeSplits DEF IsList
  <2> QED BY <2>2, <2>3
<1>4. next \in Vertices /\ edges[e].cost \in Int /\ s.curr \in Vertices /\ s.length[s.curr] \in Int /\ length \in Int
  <2> HIDE DEF e
  <2>1. next \in Vertices /\ edges[e].cost \in Int
    BY <1>2, EdgesTyped
  <2>2. s.curr \in Vertices /\ s.length[s.curr] \in Int
    BY <1>1, SearchTyped
  <2> QED BY <2>1, <2>2
<1>a. RelaxDoes(forward, s, t)
  BY <1>2 DEF RelaxDoes
<1> HIDE DEF t, e
<1>5. ASSUME Skips(s, t), TailOf(forward, e) # s.curr \/ (next \in s.seen /\ s.length[next] <= length)
      PROVE  t \in CoverOf(forward, list, init)
  <2>1. /\ t.todo = Tail(s.todo) /\ t.open = s.open /\ t.curr = s.curr /\ t.seen = s.seen
        /\ t.length = s.length /\ t.inRange = s.inRange
    BY <1>5 DEF Skips
  <2>3. ASSUME NEW f \in Range(list), TailOf(forward, f) \in t.seen \cup {init}
        PROVE  Relaxed(forward, t, f) \/ Pending(forward, t, f)
    <3>1. Relaxed(forward, s, f) \/ Pending(forward, s, f)
      BY <1>1, <2>1, <2>3
    <3>2. CASE f = e /\ TailOf(forward, e) = s.curr
      BY <1>5, <2>1, <3>2 DEF Relaxed
    <3>3. CASE ~ (f = e /\ TailOf(forward, e) = s.curr)
      BY <3>1, <3>3, <2>1, <1>3 DEF Relaxed, Pending
    <3> QED BY <3>2, <3>3
  <2> QED BY <1>1, <1>2, <1>3, <2>1, <2>3 DEF CoverOf
<1>6. ASSUME t = [s EXCEPT !.inRange = FALSE] PROVE t \in CoverOf(forward, list, init)
  <2>1. /\ t.todo = s.todo /\ t.open = s.open /\ t.curr = s.curr /\ t.seen = s.seen
        /\ t.length = s.length /\ t.inRange = FALSE
    BY <1>1, <1>6 DEF Searches
  <2> QED BY <1>1, <1>2, <2>1 DEF CoverOf, Pending
<1>7. ASSUME Improves(s, t, e, next, length), length \in Values, TailOf(forward, e) = s.curr,
             next \notin s.seen \/ length < s.length[next]
      PROVE  t \in CoverOf(forward, list, init)
  <2>1. /\ t.todo = Tail(s.todo) /\ t.curr = s.curr
        /\ t.seen = s.seen \cup {next} /\ t.inRange = s.inRange
        /\ \A v \in Vertices : t.length[v] = IF v = next THEN length ELSE s.length[v]
    <3>1. /\ t.todo = Tail(s.todo) /\ t.curr = s.curr
          /\ t.seen = s.seen \cup {next} /\ t.inRange = s.inRange
          /\ t.length = [s.length EXCEPT ![next] = length]
      BY <1>7 DEF Improves
    <3>2. s.length \in [Vertices -> Values]
      BY <1>1, SearchTyped
    <3> HIDE DEF next, length
    <3> QED BY <3>1, <3>2
  <2>2. Range(t.open) = {next} \cup Range(s.open)
    BY <1>7 DEF Improves
  <2>5. ASSUME NEW f \in Range(list), TailOf(forward, f) \in t.seen \cup {init}
        PROVE  Relaxed(forward, t, f) \/ Pending(forward, t, f)
    <3>0. f \in DOMAIN edges /\ TailOf(forward, f) \in Vertices /\ HeadOf(forward, f) \in Vertices /\ edges[f].cost \in Int
      BY <1>3, EdgesTyped
    <3>1. CASE TailOf(forward, f) = next
      BY <3>1, <2>2 DEF Pending
    <3>2. CASE TailOf(forward, f) # next
      <4>1. /\ TailOf(forward, f) \in s.seen \cup {init}
            /\ t.length[TailOf(forward, f)] = s.length[TailOf(forward, f)]
        BY <3>0, <3>2, <2>1, <2>5
      <4>2. CASE f = e
        BY <4>1, <4>2, <2>1, <1>4, <1>7 DEF Relaxed
      <4>3. CASE f # e
        <5>1. Relaxed(forward, s, f) \/ Pending(forward, s, f)
          BY <4>1, <1>1
        <5>2. CASE Pending(forward, s, f)
          BY <5>2, <4>3, <2>1, <2>2, <1>3 DEF Pending
        <5>3. CASE Relaxed(forward, s, f)
          <6> DEFINE h == HeadOf(forward, f)
          <6>1. h \in s.seen /\ s.length[h] <= s.length[TailOf(forward, f)] + edges[f].cost
            BY <5>3 DEF Relaxed
          <6>2. s.length[h] \in Int /\ t.length[h] <= s.length[h] /\ s.length[TailOf(forward, f)] \in Int
            <7>1. s.length[h] \in Int /\ s.length[TailOf(forward, f)] \in Int
              BY <1>1, <3>0, SearchTyped
            <7>2. t.length[h] = IF h = next THEN length ELSE s.length[h]
              BY <2>1, <3>0
            <7>3. h = next => length < s.length[h]
              BY <1>7, <6>1
            <7> HIDE DEF h, next, length
            <7> QED BY <7>1, <7>2, <7>3, <1>4
          <6>3. t.length[h] \in Int
            BY <1>2, <3>0, SearchTyped
          <6>4. t.length[h] <= t.length[TailOf(forward, f)] + edges[f].cost
            <7> HIDE DEF h
            <7> QED BY <6>1, <6>2, <6>3, <4>1, <3>0
          <6> QED BY <6>1, <6>4, <2>1 DEF Relaxed
        <5> QED BY <5>1, <5>2, <5>3
      <4> QED BY <4>2, <4>3
    <3> QED BY <3>1, <3>2
  <2>6. /\ t.curr \in t.seen \cup {init} /\ Range(t.open) \subseteq t.seen \cup {init}
        /\ Range(t.todo) \subseteq Range(list)
    BY <1>1, <1>3, <2>1, <2>2
  <2> QED BY <1>2, <2>5, <2>6 DEF CoverOf
<1>8. t \in CoverOf(forward, list, init)
  BY <1>2, <1>5, <1>6, <1>7
<1> QED BY <1>1, <1>2, <1>3, <1>4, <1>8, <1>a DEF t, e

\* The length of a path that ends with an edge is an upper bound if that of the path before it is.
LEMMA SoundRelaxes ==
    ASSUME StoreTyped, NEW forward \in BOOLEAN, NEW list, IsList(list),
           NEW init \in Vertices, NEW s \in CoverOf(forward, list, init),
           s.todo # <<>>, s.inRange,
           SoundLengths(forward, list, init, s), init \notin s.seen => s.length[init] = 0
    PROVE  SoundLengths(forward, list, init, Relax(forward, s))
<1> DEFINE t == Relax(forward, s)
           e == Head(s.todo)
           next == HeadOf(forward, e)
           length == s.length[s.curr] + edges[e].cost
<1>1. /\ RelaxDoes(forward, s, t) /\ e \in Range(list) /\ e \in DOMAIN edges
      /\ next \in Vertices /\ s.curr \in Vertices
      /\ edges[e].cost \in Int /\ s.length[s.curr] \in Int
  BY CoverRelaxes
<1>2. s \in Searches /\ s.curr \in s.seen \cup {init}
  BY DEF CoverOf
<1> HIDE DEF t, e
<1>3. CASE Skips(s, t)
  BY <1>3 DEF Skips, SoundLengths, t
<1>4. CASE t = [s EXCEPT !.inRange = FALSE]
  <2>1. t.seen = s.seen /\ t.length = s.length
    BY <1>2, <1>4 DEF Searches
  <2> QED BY <2>1 DEF SoundLengths, t
<1>5. CASE Improves(s, t, e, next, length) /\ TailOf(forward, e) = s.curr
  <2>1. /\ t.seen = s.seen \cup {next}
        /\ \A v \in Vertices : t.length[v] = IF v = next THEN length ELSE s.length[v]
    <3>1. t.seen = s.seen \cup {next} /\ t.length = [s.length EXCEPT ![next] = length]
      BY <1>5 DEF Improves
    <3>2. s.length \in [Vertices -> Values]
      BY <1>2, SearchTyped
    <3> HIDE DEF next, length
    <3> QED BY <3>1, <3>2
  <2> SUFFICES ASSUME NEW m \in [Vertices -> Int], Fits(m, list), NEW v \in t.seen
               PROVE  Diff(forward, m, init, v) <= t.length[v]
    BY DEF SoundLengths, t
  <2>2. CASE v # next
    <3>1. v \in s.seen /\ v \in Vertices
      BY <2>1, <2>2, <1>2, SearchTyped
    <3> QED BY <3>1, <2>1, <2>2 DEF SoundLengths
  <2>3. CASE v = next
    <3>1. Diff(forward, m, init, s.curr) <= s.length[s.curr]
      <4>1. CASE s.curr \in s.seen
        BY <4>1 DEF SoundLengths
      <4>2. CASE s.curr \notin s.seen
        <5>1. s.curr = init /\ s.length[s.curr] = 0
          BY <4>2, <1>2
        <5>2. Diff(forward, m, init, init) = 0
          BY DiffAdds
        <5> QED BY <5>1, <5>2
      <4> QED BY <4>1, <4>2
    <3>2. Holds(m, OfEdge(e))
      BY <1>1 DEF Fits
    <3>3. Diff(forward, m, s.curr, next) <= edges[e].cost
      BY <3>2, <1>1, <1>5, EdgeBounds
    <3>4. /\ Diff(forward, m, init, next) = Diff(forward, m, init, s.curr) + Diff(forward, m, s.curr, next)
          /\ Diff(forward, m, init, s.curr) \in Int /\ Diff(forward, m, s.curr, next) \in Int
      <4>1. next \in Vertices /\ s.curr \in Vertices
        BY <1>1
      <4> DEFINE u == s.curr
      <4>3. u \in Vertices
        BY <4>1
      <4> HIDE DEF next, u
      <4>4. /\ Diff(forward, m, init, next) = Diff(forward, m, init, u) + Diff(forward, m, u, next)
            /\ Diff(forward, m, init, u) \in Int /\ Diff(forward, m, u, next) \in Int
        BY <4>1, <4>3, DiffAdds
      <4> QED BY <4>4 DEF u
    <3>5. t.length[v] = s.length[s.curr] + edges[e].cost
      BY <2>1, <2>3, <1>1
    <3> QED BY <3>1, <3>3, <3>4, <3>5, <2>3, <1>1
  <2> QED BY <2>2, <2>3
<1> QED BY <1>1, <1>3, <1>4, <1>5 DEF RelaxDoes, e

\* Looking at an edge keeps what dfsSearch() has found right.
LEMMA SearchRelaxes ==
    ASSUME StoreTyped, NEW forward \in BOOLEAN, NEW list, IsList(list),
           NEW init \in Vertices, NEW s \in SearchOf(forward, list, init),
           s.todo # <<>>, s.inRange
    PROVE  Relax(forward, s) \in SearchOf(forward, list, init)
<1> DEFINE t == Relax(forward, s)
           e == Head(s.todo)
           next == HeadOf(forward, e)
           length == s.length[s.curr] + edges[e].cost
<1>1. /\ s \in CoverOf(forward, list, init) /\ s \in Searches
      /\ init \in s.seen /\ s.length[init] <= 0 /\ SoundLengths(forward, list, init, s)
  BY DEF SearchOf, CoverOf
<1>2. /\ t \in CoverOf(forward, list, init) /\ RelaxDoes(forward, s, t)
      /\ next \in Vertices /\ edges[e].cost \in Int /\ s.length[s.curr] \in Int
  BY <1>1, CoverRelaxes
<1>3. SoundLengths(forward, list, init, t)
  BY <1>1, SoundRelaxes
<1> HIDE DEF t, e
<1>4. init \in t.seen /\ t.length[init] <= 0
  <2>1. CASE Skips(s, t)
    BY <1>1, <2>1 DEF Skips
  <2>2. CASE t = [s EXCEPT !.inRange = FALSE]
    BY <1>1, <2>2 DEF Searches
  <2>3. CASE Improves(s, t, e, next, length) /\ (next \notin s.seen \/ length < s.length[next])
    <3>1. /\ t.seen = s.seen \cup {next}
          /\ \A v \in Vertices : t.length[v] = IF v = next THEN length ELSE s.length[v]
      <4>1. t.seen = s.seen \cup {next} /\ t.length = [s.length EXCEPT ![next] = length]
        BY <2>3 DEF Improves
      <4>2. s.length \in [Vertices -> Values]
        BY <1>1, SearchTyped
      <4> HIDE DEF next, length
      <4> QED BY <4>1, <4>2
    <3>2. s.length[init] \in Int /\ (next = init => length < s.length[init])
      BY <1>1, <2>3, SearchTyped
    <3>3. length \in Int
      BY <1>2
    <3> HIDE DEF next, length
    <3> QED BY <3>1, <3>2, <3>3, <1>1
  <2> QED BY <1>2, <2>1, <2>2, <2>3 DEF RelaxDoes, e
<1> QED BY <1>2, <1>3, <1>4 DEF SearchOf, t

\* dfsSearch() ends with the shortest distances to what can be reached, if the sums stay in range.
LEMMA ReachRight ==
    ASSUME StoreTyped, NEW forward \in BOOLEAN, NEW list, IsList(list),
           NEW init \in Vertices
    PROVE  LET r == Reach(list, init, forward)
           IN  /\ r \in Searches /\ init \in r.seen /\ r.length[init] <= 0
               /\ SoundLengths(forward, list, init, r)
               /\ r.inRange => \A e \in Range(list) : TailOf(forward, e) \in r.seen => Relaxed(forward, r, e)
<1> DEFINE J == SearchOf(forward, list, init)
           r == Reach(list, init, forward)
<1>1. J \in SUBSET Searches
  BY DEF SearchOf, CoverOf
<1>2. Started(<<init>>, init, {init}, FALSE) \in J
  BY SearchStarts
<1>3. ASSUME NEW s \in J, ~ Ended(s, NoLiteral, 0) PROVE Following(forward, list, s) \in J
  <2>1. s.inRange /\ (s.todo = <<>> => s.open # <<>>) /\ s \in CoverOf(forward, list, init)
    BY <1>1, <1>3, SearchTyped DEF Ended, SearchOf
  <2> HIDE DEF J
  <2>2. CASE s.todo = <<>>
    BY <2>1, <2>2, CoverScans DEF Following, J, SearchOf, SoundLengths
  <2>3. CASE s.todo # <<>>
    BY <2>1, <2>3, SearchRelaxes DEF Following, J
  <2> QED BY <2>2, <2>3
<1>4. r \in {s \in J : Ended(s, NoLiteral, 0)}
  <2> HIDE DEF J
  <2> QED BY <1>1, <1>2, <1>3, SearchKeeps DEF Reach
<1>5. r \in J /\ Ended(r, NoLiteral, 0)
  BY <1>4
<1> HIDE DEF r
<1>6. ASSUME r.inRange PROVE r.todo = <<>> /\ r.open = <<>>
  <2>1. r.open # <<>> => Head(r.open) \in Vertices
    BY <1>1, <1>5, SearchTyped, HeadTailProperties
  <2> QED BY <1>5, <1>6, <2>1, AtomsAssumption DEF Ended
<1>7. /\ r \in Searches /\ init \in r.seen /\ r.length[init] <= 0 /\ SoundLengths(forward, list, init, r)
      /\ \A e \in Range(list) : TailOf(forward, e) \in r.seen => Relaxed(forward, r, e) \/ Pending(forward, r, e)
  BY <1>5 DEF SearchOf, CoverOf
<1>8. ASSUME r.inRange, NEW e \in Range(list) PROVE ~ Pending(forward, r, e)
  <2>1. Range(r.todo) = {} /\ Range(r.open) = {}
    BY <1>6, <1>8 DEF Range
  <2> QED BY <1>8, <2>1 DEF Pending
<1> QED BY <1>7, <1>8 DEF r

\* Finitely many numbers have a bound.
LEMMA BoundExists ==
    ASSUME NEW V, IsFiniteSet(V), NEW m \in [V -> Int]
    PROVE  \E B \in Nat : \A v \in V : m[v] <= B /\ -B <= m[v]
<1> DEFINE Within(U, B) == \A v \in U : m[v] <= B /\ -B <= m[v]
           P == {n \in Nat : \A U \in SUBSET V : IsFiniteSet(U) /\ Cardinality(U) = n => \E B \in Nat : Within(U, B)}
<1>1. 0 \in P
  <2> SUFFICES ASSUME NEW U \in SUBSET V, IsFiniteSet(U), Cardinality(U) = 0 PROVE \E B \in Nat : Within(U, B)
    OBVIOUS
  <2>1. U = {}
    BY FS_EmptySet
  <2> QED BY <2>1
<1>2. ASSUME NEW n \in P PROVE n + 1 \in P
  <2> SUFFICES ASSUME NEW U \in SUBSET V, IsFiniteSet(U), Cardinality(U) = n + 1
               PROVE  \E B \in Nat : Within(U, B)
    OBVIOUS
  <2>1. U # {}
    <3>1. n \in Nat
      OBVIOUS
    <3> HIDE DEF P
    <3> QED BY <3>1, FS_EmptySet
  <2>2. PICK x \in U : TRUE
    BY <2>1
  <2>3. IsFiniteSet(U \ {x}) /\ Cardinality(U \ {x}) = n /\ U \ {x} \in SUBSET V
    <3>1. n \in Nat
      OBVIOUS
    <3> HIDE DEF P
    <3>2. IsFiniteSet(U \ {x}) /\ Cardinality(U \ {x}) = Cardinality(U) - 1
      BY <2>2, FS_RemoveElement
    <3> QED BY <3>1, <3>2
  <2>4. PICK B \in Nat : Within(U \ {x}, B)
    BY <2>3
  <2>5. m[x] \in Int
    BY <2>2
  <2>6. PICK C \in Nat : B <= C /\ m[x] <= C /\ -C <= m[x]
    <3>1. CASE m[x] >= 0
      BY <3>1, <2>5
    <3>2. CASE m[x] < 0
      <4>1. B - m[x] \in Nat
        BY <3>2, <2>5
      <4> QED BY <4>1, <3>2, <2>5
    <3> QED BY <3>1, <3>2, <2>5
  <2>7. ASSUME NEW v \in U PROVE m[v] <= C /\ -C <= m[v]
    <3>1. CASE v = x
      BY <3>1, <2>6
    <3>2. CASE v # x
      <4>1. m[v] <= B /\ -B <= m[v] /\ m[v] \in Int
        BY <3>2, <2>4
      <4> QED BY <4>1, <2>6
    <3> QED BY <3>1, <3>2
  <2> QED BY <2>7
<1>3. P = Nat
  <2> HIDE DEF P
  <2>1. P \in SUBSET Nat
    BY DEF P
  <2> QED BY <1>1, <1>2, <2>1, Numbers
<1>4. Cardinality(V) \in P /\ V \in SUBSET V
  BY <1>3, FS_CardinalityType
<1>5. \E B \in Nat : Within(V, B)
  BY <1>4
<1> QED BY <1>5

\* An assignment seen in the direction of a search.
Along(forward, m, v) == IF forward THEN m[v] ELSE -m[v]

\* Lengths that respect every edge of a list.
Potential(forward, list, L) ==
    /\ L \in [Vertices -> Int]
    /\ \A g \in Range(list) : L[HeadOf(forward, g)] <= L[TailOf(forward, g)] + edges[g].cost

\* What a search found extends to all vertices, those it did not reach as far away as one likes.
LEMMA PotentialExists ==
    ASSUME StoreTyped, NEW forward \in BOOLEAN, NEW list, IsList(list),
           NEW r \in Searches,
           \A g \in Range(list) : TailOf(forward, g) \in r.seen => Relaxed(forward, r, g),
           NEW m \in [Vertices -> Int], Fits(m, list), NEW K \in Nat
    PROVE  \E L : /\ Potential(forward, list, L)
                  /\ \A v \in Vertices : IF v \in r.seen THEN L[v] = r.length[v] ELSE K <= L[v]
<1>1. PICK B \in Nat : \A v \in Vertices : m[v] <= B /\ -B <= m[v]
  BY BoundExists, AtomsAssumption
<1>2. PICK C \in Nat : C = MaxInt - MinInt + B + K
  BY Bounds
<1> DEFINE L == [v \in Vertices |-> IF v \in r.seen THEN r.length[v] ELSE Along(forward, m, v) + C]
<1>3. \A v \in Vertices : /\ Along(forward, m, v) \in Int
                          /\ -B <= Along(forward, m, v)
                          /\ r.length[v] \in Int /\ r.length[v] <= MaxInt
  <2> SUFFICES ASSUME NEW v \in Vertices
               PROVE  /\ Along(forward, m, v) \in Int
                      /\ -B <= Along(forward, m, v)
                      /\ r.length[v] \in Int /\ r.length[v] <= MaxInt
    OBVIOUS
  <2>1. m[v] \in Int /\ m[v] <= B /\ -B <= m[v]
    BY <1>1
  <2>2. r.length[v] \in Values
    BY SearchTyped
  <2> QED BY <2>1, <2>2, Bounds DEF Along
<1>4. L \in [Vertices -> Int]
  <2> SUFFICES ASSUME NEW v \in Vertices
               PROVE  (IF v \in r.seen THEN r.length[v] ELSE Along(forward, m, v) + C) \in Int
    OBVIOUS
  <2> QED BY <1>3
<1>5. \A v \in Vertices : IF v \in r.seen THEN L[v] = r.length[v] ELSE L[v] = Along(forward, m, v) + C /\ K <= L[v]
  <2> SUFFICES ASSUME NEW v \in Vertices, v \notin r.seen PROVE K <= Along(forward, m, v) + C
    OBVIOUS
  <2> QED BY <1>2, <1>3, Bounds
<1> HIDE DEF L
<1>6. ASSUME NEW g \in Range(list) PROVE L[HeadOf(forward, g)] <= L[TailOf(forward, g)] + edges[g].cost
  <2> DEFINE h == HeadOf(forward, g)
             t == TailOf(forward, g)
             c == edges[g].cost
  <2>1. g \in DOMAIN edges
    BY RangeSplits DEF IsList
  <2>2. h \in Vertices /\ t \in Vertices /\ c \in Int /\ c \in Values
    BY <2>1, EdgesTyped
  <2>3. Diff(forward, m, t, h) <= c
    BY <2>1, EdgeBounds DEF Fits
  <2>4. Along(forward, m, h) - Along(forward, m, t) <= c
    <3>1. m[h] \in Int /\ m[t] \in Int
      BY <2>2
    <3> HIDE DEF h, t, c
    <3> QED BY <2>3, <3>1, <2>2 DEF Diff, Along
  <2>5. t \in r.seen => h \in r.seen /\ r.length[h] <= r.length[t] + c
    BY DEF Relaxed
  <2> HIDE DEF h, t, c
  <2>a. /\ h \in r.seen => L[h] = r.length[h]
        /\ t \in r.seen => L[t] = r.length[t]
        /\ h \notin r.seen => L[h] = Along(forward, m, h) + C
        /\ t \notin r.seen => L[t] = Along(forward, m, t) + C
    BY <2>2, <1>5
  <2>b. /\ Along(forward, m, h) \in Int /\ Along(forward, m, t) \in Int /\ -B <= Along(forward, m, t)
        /\ r.length[h] \in Int /\ r.length[t] \in Int /\ r.length[h] <= MaxInt
    BY <2>2, <1>3
  <2>d. MinInt <= c /\ MinInt \in Int /\ MaxInt \in Int
    BY <2>2, Bounds
  <2>6. L[h] <= L[t] + c
    <3>1. CASE t \in r.seen
      BY <3>1, <2>5, <2>a
    <3>2. CASE t \notin r.seen /\ h \in r.seen
      BY <3>2, <2>2, <2>a, <2>b, <2>d, <1>2
    <3>3. CASE t \notin r.seen /\ h \notin r.seen
      BY <3>3, <2>2, <2>4, <2>a, <2>b, <1>2, Bounds
    <3> QED BY <3>1, <3>2, <3>3
  <2> QED BY <2>6 DEF h, t, c
<1> QED BY <1>4, <1>5, <1>6 DEF Potential

-----------------------------------------------------------------------------
(* The consequences of an edge.                                            *)

\* The larger and the smaller of two numbers.
MaxOf(x, y) == IF x <= y THEN y ELSE x
MinOf(x, y) == IF x <= y THEN x ELSE y

\* Where the ways to an edge and from it leave a constraint open, a solution of the others that
\* violates it becomes one that respects the edge too and still violates it.
LEMMA Glue ==
    ASSUME StoreTyped, NEW list, IsList(list), NEW e \in Range(list), NEW f \in DOMAIN edges,
           NEW La, Potential(FALSE, list, La), La[edges[e].from] <= 0,
           NEW Lb, Potential(TRUE, list, Lb), Lb[edges[e].to] <= 0,
           edges[f].cost < La[edges[f].from] + edges[e].cost + Lb[edges[f].to],
           NEW m0 \in [Vertices -> Int], \A g \in Range(list) \ {e} : Holds(m0, OfEdge(g)),
           ~ Holds(m0, OfEdge(f))
    PROVE  \E m \in [Vertices -> Int] : Fits(m, list) /\ ~ Holds(m, OfEdge(f))
<1> DEFINE fe == edges[e].from
           te == edges[e].to
           ce == edges[e].cost
           ff == edges[f].from
           tf == edges[f].to
           x == [v \in Vertices |-> MaxOf(m0[v] - m0[ff], La[ff] - La[v])]
           y == [v \in Vertices |-> x[fe] + ce + Lb[v] - Lb[te]]
           m == [v \in Vertices |-> MinOf(x[v], y[v])]
<1>1. e \in DOMAIN edges /\ Range(list) \subseteq DOMAIN edges
  BY RangeSplits DEF IsList
<1>2. /\ fe \in Vertices /\ te \in Vertices /\ ce \in Int /\ ff \in Vertices /\ tf \in Vertices
      /\ edges[f].cost \in Int
  BY <1>1, EdgesTyped
<1>3. La \in [Vertices -> Int] /\ Lb \in [Vertices -> Int]
  BY DEF Potential
<1>4. \A v \in Vertices : La[v] \in Int /\ Lb[v] \in Int /\ m0[v] \in Int
  BY <1>3
<1> HIDE DEF fe, te, ce, ff, tf
<1>5. ASSUME NEW v \in Vertices
      PROVE  /\ x[v] \in Int
             /\ m0[v] - m0[ff] <= x[v] /\ La[ff] - La[v] <= x[v]
             /\ x[v] = m0[v] - m0[ff] \/ x[v] = La[ff] - La[v]
  <2>1. x[v] = MaxOf(m0[v] - m0[ff], La[ff] - La[v])
    OBVIOUS
  <2>2. m0[v] \in Int /\ m0[ff] \in Int /\ La[v] \in Int /\ La[ff] \in Int
    BY <1>2, <1>4
  <2> HIDE DEF x
  <2> QED BY <2>1, <2>2 DEF MaxOf
<1> HIDE DEF x
<1>6. ASSUME NEW v \in Vertices PROVE y[v] = x[fe] + ce + Lb[v] - Lb[te] /\ y[v] \in Int
  <2>1. y[v] = x[fe] + ce + Lb[v] - Lb[te]
    OBVIOUS
  <2>2. x[fe] \in Int /\ Lb[v] \in Int /\ Lb[te] \in Int
    BY <1>2, <1>4, <1>5
  <2> HIDE DEF y
  <2> QED BY <2>1, <2>2, <1>2
<1> HIDE DEF y
<1>8. ASSUME NEW v \in Vertices
      PROVE  m[v] \in Int /\ m[v] <= x[v] /\ m[v] <= y[v] /\ (m[v] = x[v] \/ m[v] = y[v])
  <2>1. m[v] = MinOf(x[v], y[v]) /\ x[v] \in Int /\ y[v] \in Int
    BY <1>5, <1>6
  <2> HIDE DEF m
  <2> QED BY <2>1 DEF MinOf
<1>7. m \in [Vertices -> Int]
  BY <1>8
<1> HIDE DEF m
<1>9. ASSUME NEW g \in Range(list) PROVE Holds(m, OfEdge(g))
  <2> DEFINE p == edges[g].from
             q == edges[g].to
             c == edges[g].cost
  <2>1. p \in Vertices /\ q \in Vertices /\ c \in Int
    BY <1>1, EdgesTyped
  <2>2. La[p] <= La[q] + c
    BY DEF Potential, HeadOf, TailOf
  <2>3. Lb[q] <= Lb[p] + c
    BY DEF Potential, HeadOf, TailOf
  <2>4. g # e => m0[q] - m0[p] <= c
    BY DEF Holds, OfEdge
  <2>5. g = e => p = fe /\ q = te /\ c = ce
    BY DEF fe, te, ce
  <2> HIDE DEF p, q, c
  <2>a. /\ La[p] \in Int /\ La[q] \in Int /\ Lb[p] \in Int /\ Lb[q] \in Int /\ Lb[te] \in Int
        /\ m0[p] \in Int /\ m0[q] \in Int /\ m0[ff] \in Int /\ La[ff] \in Int /\ x[fe] \in Int
    BY <2>1, <1>2, <1>4, <1>5
  <2>b. /\ y[q] = x[fe] + ce + Lb[q] - Lb[te] /\ y[p] = x[fe] + ce + Lb[p] - Lb[te]
        /\ x[p] \in Int /\ x[q] \in Int /\ y[p] \in Int /\ y[q] \in Int
    BY <2>1, <1>5, <1>6
  <2>d. /\ m[p] \in Int /\ (m[p] = x[p] \/ m[p] = y[p])
        /\ m[q] \in Int /\ m[q] <= x[q] /\ m[q] <= y[q]
    BY <2>1, <1>8
  <2>6. y[q] <= y[p] + c
    BY <2>1, <2>3, <2>a, <2>b, <1>2
  <2>7. m[q] <= m[p] + c
    <3>1. CASE g # e
      <4>1. /\ m0[p] - m0[ff] <= x[p] /\ La[ff] - La[p] <= x[p]
            /\ x[q] = m0[q] - m0[ff] \/ x[q] = La[ff] - La[q]
        BY <2>1, <1>5
      <4>2. x[q] <= x[p] + c
        BY <4>1, <2>1, <2>2, <2>4, <3>1, <2>a, <2>b
      <4> QED BY <4>2, <2>1, <2>6, <2>b, <2>d
    <3>2. CASE g = e
      <4>1. y[q] <= x[p] + c
        BY <3>2, <2>5, <2>a, <2>b, <1>2
      <4> QED BY <4>1, <2>1, <2>6, <2>b, <2>d
    <3> QED BY <3>1, <3>2
  <2>8. m[q] - m[p] <= c
    BY <2>1, <2>7, <2>d
  <2> QED BY <2>8 DEF Holds, OfEdge, p, q, c
<1>10. ~ Holds(m, OfEdge(f))
  <2>1. edges[f].cost < m0[tf] - m0[ff]
    <3>1. ~ (m0[tf] - m0[ff] <= edges[f].cost)
      BY DEF Holds, OfEdge, ff, tf
    <3>2. m0[tf] \in Int /\ m0[ff] \in Int
      BY <1>2, <1>4
    <3> QED BY <3>1, <3>2, <1>2
  <2>2. edges[f].cost < La[ff] + ce + Lb[tf] /\ La[fe] <= 0 /\ Lb[te] <= 0
    BY DEF ff, tf, ce, fe, te
  <2>a. /\ La[ff] \in Int /\ La[fe] \in Int /\ Lb[tf] \in Int /\ Lb[te] \in Int
        /\ m0[tf] \in Int /\ m0[ff] \in Int /\ x[ff] \in Int /\ x[tf] \in Int /\ x[fe] \in Int
    BY <1>2, <1>4, <1>5
  <2>b. /\ x[ff] = m0[ff] - m0[ff] \/ x[ff] = La[ff] - La[ff]
        /\ m0[tf] - m0[ff] <= x[tf] /\ La[ff] - La[fe] <= x[fe]
    BY <1>2, <1>5
  <2>d. y[tf] = x[fe] + ce + Lb[tf] - Lb[te] /\ y[tf] \in Int
    BY <1>2, <1>6
  <2>f. /\ m[ff] \in Int /\ m[ff] <= x[ff]
        /\ m[tf] \in Int /\ (m[tf] = x[tf] \/ m[tf] = y[tf])
    BY <1>2, <1>8
  <2>3. x[ff] <= 0
    BY <2>a, <2>b
  <2>4. edges[f].cost < x[tf] /\ La[ff] <= x[fe]
    BY <2>1, <2>2, <2>a, <2>b, <1>2
  <2>5. edges[f].cost < y[tf]
    BY <2>2, <2>4, <2>a, <2>d, <1>2
  <2>6. edges[f].cost < m[tf] /\ m[ff] <= 0
    BY <2>3, <2>4, <2>5, <2>a, <2>f, <1>2
  <2>7. ~ (m[tf] - m[ff] <= edges[f].cost)
    BY <2>6, <2>f, <1>2, SMTT(30)
  <2> QED BY <2>7 DEF Holds, OfEdge, ff, tf
<1> QED BY <1>7, <1>9, <1>10 DEF Fits

\* findConsequences() finds what a new edge implies together with the others, and nothing else.
LEMMA ConsequencesRight ==
    ASSUME StoreTyped, NEW list, IsList(list), NEW e \in Range(list),
           Consequences(e, list).inRange,
           \E m \in [Vertices -> Int] : Fits(m, list)
    PROVE  LET found == Consequences(e, list).found
           IN  /\ found \subseteq {f \in DOMAIN edges \ {e} : setTime[f] = 0}
               /\ \A f \in found, m \in [Vertices -> Int] : Fits(m, list) => Holds(m, OfEdge(f))
               /\ \A f \in DOMAIN edges \ {e}, m0 \in [Vertices -> Int] :
                     setTime[f] = 0 /\ f \notin found
                     /\ (\A g \in Range(list) \ {e} : Holds(m0, OfEdge(g))) /\ ~ Holds(m0, OfEdge(f))
                     => \E m \in [Vertices -> Int] : Fits(m, list) /\ ~ Holds(m, OfEdge(f))
<1> DEFINE fe == edges[e].from
           te == edges[e].to
           ce == edges[e].cost
           a == Reach(list, fe, FALSE)
           b == Reach(list, te, TRUE)
           found == Consequences(e, list).found
           Sum(f) == a.length[edges[f].from] + ce + b.length[edges[f].to]
<1>1. /\ a.inRange /\ b.inRange
      /\ found = {f \in DOMAIN edges \ {e} : /\ edges[f].from \in a.seen /\ edges[f].to \in b.seen
                                            /\ edges[f].cost >= Sum(f) /\ setTime[f] = 0}
  BY DEF Consequences
<1>2. e \in DOMAIN edges /\ Range(list) \subseteq DOMAIN edges
  BY RangeSplits DEF IsList
<1>3. fe \in Vertices /\ te \in Vertices /\ ce \in Int /\ ce \in Values
  BY <1>2, EdgesTyped
<1> HIDE DEF found, fe, te, ce
<1>4. /\ a \in Searches /\ fe \in a.seen /\ a.length[fe] <= 0 /\ SoundLengths(FALSE, list, fe, a)
      /\ \A g \in Range(list) : TailOf(FALSE, g) \in a.seen => Relaxed(FALSE, a, g)
  BY <1>1, <1>3, ReachRight
<1>5. /\ b \in Searches /\ te \in b.seen /\ b.length[te] <= 0 /\ SoundLengths(TRUE, list, te, b)
      /\ \A g \in Range(list) : TailOf(TRUE, g) \in b.seen => Relaxed(TRUE, b, g)
  BY <1>1, <1>3, ReachRight
<1> HIDE DEF a, b
<1>6. /\ \A v \in Vertices : /\ a.length[v] \in Int /\ MinInt <= a.length[v]
                             /\ b.length[v] \in Int /\ MinInt <= b.length[v]
      /\ a.seen \subseteq Vertices /\ b.seen \subseteq Vertices
  <2>1. a.length \in [Vertices -> Values] /\ b.length \in [Vertices -> Values]
    BY <1>4, <1>5, SearchTyped
  <2> QED BY <2>1, <1>4, <1>5, SearchTyped, Bounds
<1>7. ASSUME NEW f \in found, NEW m \in [Vertices -> Int], Fits(m, list) PROVE Holds(m, OfEdge(f))
  <2> DEFINE ff == edges[f].from
             tf == edges[f].to
  <2>1. ff \in a.seen /\ tf \in b.seen /\ edges[f].cost >= Sum(f) /\ f \in DOMAIN edges
    BY <1>1
  <2>2. Diff(FALSE, m, fe, ff) <= a.length[ff] /\ Diff(TRUE, m, te, tf) <= b.length[tf]
    BY <2>1, <1>4, <1>5, <1>7 DEF SoundLengths
  <2>3. m[fe] - m[ff] <= a.length[ff] /\ m[tf] - m[te] <= b.length[tf]
    BY <2>2 DEF Diff
  <2>4. m[te] - m[fe] <= ce
    BY <1>7 DEF Fits, Holds, OfEdge, te, fe, ce
  <2>5. ff \in Vertices /\ tf \in Vertices /\ edges[f].cost \in Int
    BY <2>1, EdgesTyped
  <2>6. /\ m[fe] \in Int /\ m[te] \in Int /\ m[ff] \in Int /\ m[tf] \in Int
        /\ a.length[ff] \in Int /\ b.length[tf] \in Int
    BY <2>5, <1>3, <1>6
  <2>7. a.length[ff] + ce + b.length[tf] <= edges[f].cost
    BY <2>1, <2>5, <2>6, <1>3
  <2> HIDE DEF ff, tf, Sum
  <2>8. m[tf] - m[ff] <= edges[f].cost
    BY <2>3, <2>4, <2>5, <2>6, <2>7, <1>3
  <2> QED BY <2>8 DEF Holds, OfEdge, ff, tf
<1>8. ASSUME NEW f \in DOMAIN edges \ {e}, NEW m0 \in [Vertices -> Int], setTime[f] = 0, f \notin found,
             \A g \in Range(list) \ {e} : Holds(m0, OfEdge(g)), ~ Holds(m0, OfEdge(f))
      PROVE  \E m \in [Vertices -> Int] : Fits(m, list) /\ ~ Holds(m, OfEdge(f))
  <2> DEFINE ff == edges[f].from
             tf == edges[f].to
  <2>1. ff \in Vertices /\ tf \in Vertices /\ edges[f].cost \in Int /\ edges[f].cost \in Values
    BY EdgesTyped
  <2>2. PICK K \in Nat : K = MaxInt - 2 * MinInt + 1
    BY Bounds
  <2>3. PICK m1 \in [Vertices -> Int] : Fits(m1, list)
    OBVIOUS
  <2>4. PICK La : /\ Potential(FALSE, list, La)
                  /\ \A v \in Vertices : IF v \in a.seen THEN La[v] = a.length[v] ELSE K <= La[v]
    BY <2>3, <1>4, PotentialExists
  <2>5. PICK Lb : /\ Potential(TRUE, list, Lb)
                  /\ \A v \in Vertices : IF v \in b.seen THEN Lb[v] = b.length[v] ELSE K <= Lb[v]
    BY <2>3, <1>5, PotentialExists
  <2>6. La[ff] \in Int /\ Lb[tf] \in Int
    BY <2>1, <2>4, <2>5 DEF Potential
  <2>7. La[fe] <= 0 /\ Lb[te] <= 0
    BY <2>4, <2>5, <1>3, <1>4, <1>5
  <2>8. edges[f].cost <= MaxInt /\ MinInt <= ce
    BY <2>1, <1>3, Bounds
  <2>9. edges[f].cost < La[ff] + ce + Lb[tf]
    <3>1. CASE ff \in a.seen /\ tf \in b.seen
      <4>1. edges[f].cost < a.length[ff] + ce + b.length[tf]
        <5>1. ~ (edges[f].cost >= a.length[ff] + ce + b.length[tf])
          BY <3>1, <1>1, <1>8
        <5> QED BY <5>1, <2>1, <1>3, <1>6
      <4> QED BY <4>1, <3>1, <2>1, <2>4, <2>5
    <3>2. CASE ~ (ff \in a.seen /\ tf \in b.seen)
      <4>1. MinInt <= La[ff] /\ MinInt <= Lb[tf] /\ (K <= La[ff] \/ K <= Lb[tf])
        <5>1. MinInt <= K
          BY <2>2, Bounds
        <5>2. IF ff \in a.seen THEN La[ff] = a.length[ff] ELSE K <= La[ff]
          BY <2>1, <2>4
        <5>3. IF tf \in b.seen THEN Lb[tf] = b.length[tf] ELSE K <= Lb[tf]
          BY <2>1, <2>5
        <5>4. MinInt <= a.length[ff] /\ MinInt <= b.length[tf]
          BY <2>1, <1>6
        <5> HIDE DEF ff, tf
        <5> QED BY <5>1, <5>2, <5>3, <5>4, <3>2, <2>6, Bounds
      <4> HIDE DEF ff, tf
      <4> QED BY <4>1, <2>1, <2>2, <2>6, <2>8, <1>3, Bounds
    <3> QED BY <3>1, <3>2
  <2> QED BY <2>4, <2>5, <2>7, <2>9, <1>8, Glue DEF ff, tf, ce, fe, te
<1>9. found \subseteq {f \in DOMAIN edges \ {e} : setTime[f] = 0}
  BY <1>1
<1> QED BY <1>7, <1>8, <1>9, SMTT(30) DEF found

-----------------------------------------------------------------------------
(* The inductive invariant.                                                *)

\* The store: an edge and its negation point at each other; the mapper knows the edge of an atom.
NegationRight(e) ==
    LET n == edges[e].neg
    IN  /\ n \in DOMAIN edges
        /\ edges[n].neg = e
        /\ edges[n].from = edges[e].to
        /\ edges[n].to = edges[e].from
        /\ edges[n].cost = -edges[e].cost - 1

StoreRight ==
    /\ StoreTyped
    /\ \A e \in DOMAIN edges : edges[e].from # edges[e].to /\ NegationRight(e)
    /\ informed \subseteq Atoms
    /\ leqToEdge \in [informed -> DOMAIN edges]
    /\ \A a \in informed : /\ edges[leqToEdge[a]].from = Parsed[a].from
                           /\ edges[leqToEdge[a]].to = Parsed[a].to
                           /\ edges[leqToEdge[a]].cost = GetValue(Parsed[a].c)
    /\ edgeToLeq \in [DOMAIN edges -> informed \cup {NoLiteral}]
    /\ \A e \in DOMAIN edges : edgeToLeq[e] # NoLiteral => leqToEdge[edgeToLeq[e]] = e

\* An assignment satisfies the constraint of an edge; those of the graph as it was at a time.
Obeys(m, e) == Holds(m, OfEdge(e))
ObeysUntil(m, t) == \A g \in Range(addedEdges) : setTime[g] <= t => Obeys(m, g)

\* The times: the edges of the graph were set one after another, the last one at the present time.
TimesOrdered ==
    /\ timestamp \in Nat
    /\ setTime \in [DOMAIN edges -> Nat]
    /\ \A e \in DOMAIN edges : setTime[e] <= timestamp
    /\ IsList(addedEdges)
    /\ \A i \in DOMAIN addedEdges : 0 < setTime[addedEdges[i]]
    /\ \A i, j \in DOMAIN addedEdges : i < j => setTime[addedEdges[i]] < setTime[addedEdges[j]]
    /\ addedEdges # <<>> => setTime[addedEdges[Len(addedEdges)]] = timestamp

\* At every time so far, an edge had become true exactly if the graph of that time implied it.
TimesExact ==
    \A e \in DOMAIN edges, t \in 0..timestamp :
        (0 < setTime[e] /\ setTime[e] <= t) <=> \A m \in Assignments : ObeysUntil(m, t) => Obeys(m, e)

\* The graph, which is always satisfiable.
GraphRight == TimesOrdered /\ TimesExact /\ \E m \in Assignments : ObeysUntil(m, timestamp)

\* The backtrack points lie in the order of time, and a literal's edge became true after its point.
PointsOrdered ==
    /\ backtrack_points \in Seq(Nat) /\ stack \in Seq(Literal)
    /\ Len(stack) = Len(backtrack_points)
    /\ \A i \in DOMAIN backtrack_points : backtrack_points[i] <= timestamp
    /\ \A i, j \in DOMAIN backtrack_points : i <= j => backtrack_points[i] <= backtrack_points[j]
    /\ \A i \in DOMAIN backtrack_points :
          (\E g \in Range(addedEdges) : setTime[g] <= backtrack_points[i])
              => \E g \in Range(addedEdges) : setTime[g] = backtrack_points[i]

\* The literals up to a conflict hold and make up the graph.
StackRight ==
    /\ \A i \in DOMAIN stack : stack[i].tr \in informed
    /\ inv_bpoint \in Nat
    /\ \A i \in DOMAIN stack :
          inv_asgn = NoLiteral \/ i < inv_bpoint =>
              /\ 0 < setTime[EdgeOf(stack[i])]
              /\ \A k \in DOMAIN backtrack_points : i < k => setTime[EdgeOf(stack[i])] <= backtrack_points[k]
    /\ \A g \in Range(addedEdges) :
          \E i \in DOMAIN stack : EdgeOf(stack[i]) = g /\ backtrack_points[i] < setTime[g]
    /\ inv_asgn # NoLiteral =>
          /\ inv_bpoint \in DOMAIN stack /\ stack[inv_bpoint] = inv_asgn
          /\ 0 < setTime[edges[EdgeOf(inv_asgn)].neg]
          /\ setTime[edges[EdgeOf(inv_asgn)].neg] <= backtrack_points[inv_bpoint]

\* The marks: one for each backtrack point, at growing numbers of deductions.
MarksOrdered ==
    /\ th_deductions \in Seq(Literal) /\ deductions_next \in Nat
    /\ deductions_marks \in Seq([lim : Nat, next : Nat])
    /\ Len(deductions_marks) = Len(backtrack_points)
    /\ \A i \in DOMAIN deductions_marks : deductions_marks[i].lim <= Len(th_deductions)
    /\ \A i, j \in DOMAIN deductions_marks : i <= j => deductions_marks[i].lim <= deductions_marks[j].lim
    /\ IF deductions_marks = <<>> THEN th_deductions = <<>> ELSE deductions_marks[1].lim = 0

\* The atom that an edge has is its own.
Known(l) == l.tr \in informed /\ edgeToLeq[leqToEdge[l.tr]] = l.tr

\* What was deduced before a point became true before it, and every literal of an edge that became
\* true as a consequence is listed before the points that it is older than.
DeductionsKept ==
    /\ \A j \in DOMAIN th_deductions :
          /\ th_deductions[j].tr \in informed
          /\ 0 < setTime[EdgeOf(th_deductions[j])]
          /\ \A i \in DOMAIN deductions_marks :
                j <= deductions_marks[i].lim => setTime[EdgeOf(th_deductions[j])] <= backtrack_points[i]
    /\ polarity \subseteq {th_deductions[j].tr : j \in DOMAIN th_deductions}
    /\ \A e \in deductions : e \in DOMAIN edges /\ 0 < setTime[e]
    /\ \A l \in Literal :
          Known(l) /\ EdgeOf(l) \in deductions =>
              /\ \E j \in DOMAIN th_deductions : th_deductions[j] = l
              /\ \A i \in DOMAIN deductions_marks :
                    setTime[EdgeOf(l)] <= backtrack_points[i]
                        => \E j \in 1..deductions_marks[i].lim : th_deductions[j] = l

\* All of it; an exception leaves the solver in a state about which nothing is claimed.
SolverRight == StoreRight /\ GraphRight /\ PointsOrdered /\ StackRight /\ MarksOrdered /\ DeductionsKept

SolverInv == ~ thrown => SolverRight

\* The variables may stand for any numbers.
AllAssignments == Assignments = [Vertices -> Int]

\* Min() is the least element of a set of numbers.
LEMMA Smallest ==
    ASSUME NEW S \in SUBSET Nat, S # {}
    PROVE  Min(S) \in S /\ \A x \in S : Min(S) <= x
<1>1. PICK m \in S : \A x \in S : m <= x
  BY LeastOf
<1> QED BY <1>1 DEF Min

\* Max() is the greatest element of a bounded set of numbers.
LEMMA Largest ==
    ASSUME NEW S \in SUBSET Nat, S # {}, NEW n \in Nat, \A x \in S : x <= n
    PROVE  Max(S) \in S /\ \A x \in S : x <= Max(S)
<1> DEFINE T == {k \in Nat : \A x \in S : x <= k}
<1>1. PICK m \in T : \A k \in T : m <= k
  <2>1. n \in T /\ T \in SUBSET Nat
    OBVIOUS
  <2> QED BY <2>1, LeastOf
<1>2. m \in S
  <2> SUFFICES ASSUME m \notin S PROVE FALSE
    OBVIOUS
  <2>1. PICK y \in S : TRUE
    OBVIOUS
  <2>2. y \in Nat /\ m \in Nat /\ y <= m /\ y # m
    BY <1>1
  <2>3. \A x \in S : x <= m - 1
    BY <1>1
  <2>4. m - 1 \in T
    BY <2>2, <2>3
  <2> QED BY <1>1, <2>2, <2>4
<1>3. \A x \in S : m >= x
  BY <1>1
<1> QED BY <1>2, <1>3 DEF Max

\* Times grow along the graph, so the edges kept are its beginning.
LEMMA SetUntilRight ==
    ASSUME TimesOrdered, NEW point \in Nat
    PROVE  LET kept == SetUntil(point)
           IN  /\ IsList(kept) /\ Len(kept) <= Len(addedEdges)
               /\ DOMAIN kept = 1..Len(kept) /\ DOMAIN addedEdges = 1..Len(addedEdges)
               /\ Len(kept) \in Nat /\ Len(addedEdges) \in Nat
               /\ \A i \in 1..Len(kept) : kept[i] = addedEdges[i]
               /\ \A i \in 1..Len(addedEdges) : setTime[addedEdges[i]] <= point <=> i <= Len(kept)
               /\ Range(kept) = {g \in Range(addedEdges) : setTime[g] <= point}
<1> DEFINE I == {i \in DOMAIN addedEdges : setTime[addedEdges[i]] <= point}
           n == Max({0} \cup I)
           kept == SetUntil(point)
<1>1. addedEdges \in Seq(DOMAIN edges) /\ DOMAIN addedEdges = 1..Len(addedEdges) /\ Len(addedEdges) \in Nat
  BY LenProperties DEF TimesOrdered, IsList
<1>2. \A i \in 1..Len(addedEdges) : addedEdges[i] \in DOMAIN edges /\ setTime[addedEdges[i]] \in Nat
  <2>1. \A i \in 1..Len(addedEdges) : addedEdges[i] \in DOMAIN edges
    BY <1>1, ElementOfSeq
  <2> QED BY <2>1 DEF TimesOrdered
<1>3. n \in {0} \cup I /\ \A i \in {0} \cup I : i <= n
  <2>1. {0} \cup I \in SUBSET Nat /\ {0} \cup I # {} /\ \A i \in {0} \cup I : i <= Len(addedEdges)
    BY <1>1
  <2> HIDE DEF I
  <2> QED BY <2>1, <1>1, Largest
<1>4. n \in 0..Len(addedEdges)
  BY <1>1, <1>3
<1> HIDE DEF n
<1>5. kept = SubSeq(addedEdges, 1, n)
  BY DEF SetUntil, n
<1> HIDE DEF kept
<1>6. /\ kept \in Seq(DOMAIN edges) /\ Len(kept) = n /\ DOMAIN kept = 1..n
      /\ \A i \in 1..n : kept[i] = addedEdges[i]
  <2>1. \A i \in 1..n : addedEdges[i] \in DOMAIN edges
    BY <1>1, <1>2, <1>4
  <2>2. n \in Int /\ 1 \in Int
    BY <1>4
  <2>3. /\ kept \in Seq(DOMAIN edges)
        /\ Len(kept) = IF 1 <= n THEN n - 1 + 1 ELSE 0
        /\ \A i \in 1..(n - 1 + 1) : kept[i] = addedEdges[1 + i - 1]
    BY <2>1, <2>2, <1>5, SubSeqProperties
  <2>4. Len(kept) = n
    BY <2>3, <1>4
  <2>5. DOMAIN kept = 1..Len(kept)
    BY <2>3, LenProperties
  <2>6. \A i \in 1..n : kept[i] = addedEdges[i]
    <3> SUFFICES ASSUME NEW i \in 1..n PROVE kept[i] = addedEdges[i]
      OBVIOUS
    <3>1. i \in 1..(n - 1 + 1) /\ 1 + i - 1 = i
      BY <1>4
    <3> QED BY <2>3, <3>1
  <2> QED BY <2>3, <2>4, <2>5, <2>6
<1>7. ASSUME NEW i \in 1..Len(addedEdges) PROVE setTime[addedEdges[i]] <= point <=> i <= n
  <2>1. ASSUME setTime[addedEdges[i]] <= point PROVE i <= n
    BY <2>1, <1>1, <1>3
  <2>2. ASSUME i <= n PROVE setTime[addedEdges[i]] <= point
    <3>1. n \in I /\ n \in 1..Len(addedEdges) /\ n # 0
      BY <2>2, <1>1, <1>3, <1>4
    <3>2. setTime[addedEdges[n]] <= point
      BY <3>1
    <3>3. CASE i = n
      BY <3>2, <3>3
    <3>4. CASE i # n
      <4>1. i < n
        BY <2>2, <3>4, <1>4
      <4>2. setTime[addedEdges[i]] < setTime[addedEdges[n]]
        BY <3>1, <4>1, <1>1 DEF TimesOrdered
      <4>3. setTime[addedEdges[i]] \in Nat /\ setTime[addedEdges[n]] \in Nat
        BY <3>1, <1>2
      <4> QED BY <3>2, <4>2, <4>3
    <3> QED BY <3>3, <3>4
  <2> QED BY <2>1, <2>2
<1>8. Range(kept) = {g \in Range(addedEdges) : setTime[g] <= point}
  <2>1. ASSUME NEW g \in Range(kept) PROVE g \in Range(addedEdges) /\ setTime[g] <= point
    <3>1. PICK i \in 1..n : g = kept[i]
      BY <1>6 DEF Range
    <3>2. i \in 1..Len(addedEdges) /\ g = addedEdges[i] /\ i <= n
      BY <3>1, <1>4, <1>6, <1>1
    <3> QED BY <3>2, <1>1, <1>7 DEF Range
  <2>2. ASSUME NEW g \in Range(addedEdges), setTime[g] <= point PROVE g \in Range(kept)
    <3>1. PICK i \in 1..Len(addedEdges) : g = addedEdges[i]
      BY <1>1 DEF Range
    <3>2. i \in 1..n
      BY <2>2, <3>1, <1>4, <1>7
    <3> QED BY <3>1, <3>2, <1>6 DEF Range
  <2> QED BY <2>1, <2>2
<1>9. Len(kept) <= Len(addedEdges) /\ Len(kept) \in Nat
  BY <1>1, <1>4, <1>6
<1> QED BY <1>1, <1>6, <1>7, <1>8, <1>9 DEF kept, IsList

-----------------------------------------------------------------------------
(* A new edge.                                                             *)

\* What a list is with one element more.
LEMMA AppendRange ==
    ASSUME NEW T, NEW q \in Seq(T), NEW x \in T
    PROVE  /\ Append(q, x) \in Seq(T) /\ Len(Append(q, x)) = Len(q) + 1 /\ Len(q) \in Nat
           /\ DOMAIN Append(q, x) = 1..(Len(q) + 1) /\ DOMAIN q = 1..Len(q)
           /\ \A i \in 1..Len(q) : Append(q, x)[i] = q[i]
           /\ Append(q, x)[Len(q) + 1] = x
           /\ Range(Append(q, x)) = Range(q) \cup {x}
<1> DEFINE r == Append(q, x)
<1>1. r \in Seq(T) /\ Len(r) = Len(q) + 1 /\ (\A i \in 1..Len(q) : r[i] = q[i]) /\ r[Len(q) + 1] = x
  BY AppendProperties
<1>2. Len(q) \in Nat /\ DOMAIN q = 1..Len(q) /\ DOMAIN r = 1..(Len(q) + 1)
  BY <1>1, LenProperties
<1> HIDE DEF r
<1>3. ASSUME NEW y \in Range(r) PROVE y \in Range(q) \/ y = x
  <2>1. PICK i \in 1..(Len(q) + 1) : y = r[i]
    BY <1>2 DEF Range
  <2>2. CASE i = Len(q) + 1
    BY <2>1, <2>2, <1>1
  <2>3. CASE i # Len(q) + 1
    <3>1. i \in 1..Len(q)
      BY <2>1, <2>3, <1>2
    <3> QED BY <2>1, <3>1, <1>1, <1>2 DEF Range
  <2> QED BY <2>2, <2>3
<1>4. ASSUME NEW y \in Range(q) PROVE y \in Range(r)
  <2>1. PICK i \in 1..Len(q) : y = q[i]
    BY <1>2 DEF Range
  <2>2. i \in 1..(Len(q) + 1) /\ r[i] = y
    BY <2>1, <1>1, <1>2
  <2> QED BY <2>2, <1>2 DEF Range
<1>5. x \in Range(r)
  <2>1. Len(q) + 1 \in 1..(Len(q) + 1)
    BY <1>2
  <2> QED BY <2>1, <1>1, <1>2 DEF Range
<1>6. Range(r) = Range(q) \cup {x}
  BY <1>3, <1>4, <1>5
<1> QED BY <1>1, <1>2, <1>6 DEF r

\* What the graph is like before.
LEMMA GraphFacts ==
    ASSUME GraphRight
    PROVE  /\ addedEdges \in Seq(DOMAIN edges)
           /\ \A g \in Range(addedEdges) : g \in DOMAIN edges /\ 0 < setTime[g] /\ setTime[g] <= timestamp
           /\ timestamp \in Nat /\ \A e \in DOMAIN edges : setTime[e] \in Nat /\ setTime[e] <= timestamp
           /\ \A m : ObeysUntil(m, timestamp) <=> \A g \in Range(addedEdges) : Obeys(m, g)
           /\ \A e \in DOMAIN edges :
                 setTime[e] # 0 <=>
                     \A m \in Assignments : (\A g \in Range(addedEdges) : Obeys(m, g)) => Obeys(m, e)
           /\ \E m \in Assignments : \A g \in Range(addedEdges) : Obeys(m, g)
<1>1. addedEdges \in Seq(DOMAIN edges) /\ DOMAIN addedEdges = 1..Len(addedEdges)
  BY LenProperties DEF GraphRight, TimesOrdered, IsList
<1>2. timestamp \in Nat /\ \A e \in DOMAIN edges : setTime[e] \in Nat /\ setTime[e] <= timestamp
  BY DEF GraphRight, TimesOrdered
<1>3. ASSUME NEW g \in Range(addedEdges) PROVE g \in DOMAIN edges /\ 0 < setTime[g] /\ setTime[g] <= timestamp
  <2>1. PICK i \in DOMAIN addedEdges : g = addedEdges[i]
    BY DEF Range
  <2>2. 0 < setTime[g]
    BY <2>1 DEF GraphRight, TimesOrdered
  <2>3. g \in DOMAIN edges
    BY <2>1, <1>1, ElementOfSeq
  <2> QED BY <2>2, <2>3, <1>2
<1>4. ASSUME NEW m PROVE ObeysUntil(m, timestamp) <=> \A g \in Range(addedEdges) : Obeys(m, g)
  BY <1>3 DEF ObeysUntil
<1>5. ASSUME NEW e \in DOMAIN edges
      PROVE  setTime[e] # 0 <=>
                 \A m \in Assignments : (\A g \in Range(addedEdges) : Obeys(m, g)) => Obeys(m, e)
  <2>1. (0 < setTime[e] /\ setTime[e] <= timestamp) <=> \A m \in Assignments : ObeysUntil(m, timestamp) => Obeys(m, e)
    <3>1. timestamp \in 0..timestamp
      BY <1>2
    <3> QED BY <3>1 DEF GraphRight, TimesExact
  <2>2. (0 < setTime[e] /\ setTime[e] <= timestamp) <=> setTime[e] # 0
    BY <1>2
  <2> QED BY <2>1, <2>2, <1>4
<1>6. \E m \in Assignments : \A g \in Range(addedEdges) : Obeys(m, g)
  BY <1>4 DEF GraphRight
<1> QED BY <1>1, <1>2, <1>3, <1>4, <1>5, <1>6

\* An assignment violates a constraint exactly when it satisfies the negation.
LEMMA NegatedEdge ==
    ASSUME StoreRight, AllAssignments, NEW e \in DOMAIN edges, NEW m \in Assignments
    PROVE  /\ edges[e].neg \in DOMAIN edges /\ edges[edges[e].neg].neg = e
           /\ Obeys(m, edges[e].neg) <=> ~ Obeys(m, e)
<1> DEFINE n == edges[e].neg
<1>1. NegationRight(e) /\ StoreTyped
  BY DEF StoreRight
<1>2. edges[e].from \in Vertices /\ edges[e].to \in Vertices /\ edges[e].cost \in Int
  BY <1>1, EdgesTyped
<1>3. m[edges[e].from] \in Int /\ m[edges[e].to] \in Int
  BY <1>2 DEF AllAssignments
<1>4. /\ n \in DOMAIN edges /\ edges[n].neg = e /\ edges[n].from = edges[e].to /\ edges[n].to = edges[e].from
      /\ edges[n].cost = -edges[e].cost - 1
  BY <1>1 DEF NegationRight
<1> HIDE DEF n
<1>5. Obeys(m, n) <=> m[edges[e].from] - m[edges[e].to] <= -edges[e].cost - 1
  BY <1>4 DEF Obeys, Holds, OfEdge
<1>6. Obeys(m, e) <=> m[edges[e].to] - m[edges[e].from] <= edges[e].cost
  BY DEF Obeys, Holds, OfEdge
<1>7. Obeys(m, n) <=> ~ Obeys(m, e)
  BY <1>2, <1>3, <1>5, <1>6
<1> QED BY <1>4, <1>7 DEF n

\* An edge that is neither true nor false joins the graph, with all that it implies.
LEMMA NewEdge ==
    ASSUME AllAssignments, StoreRight, GraphRight, NEW s \in DOMAIN edges, ~ isTrue(s), ~ isTrue(edges[s].neg),
           Consequences(s, Append(addedEdges, s)).inRange
    PROVE  LET found == Consequences(s, Append(addedEdges, s)).found
               Both(m) == (\A g \in Range(addedEdges) : Obeys(m, g)) /\ Obeys(m, s)
           IN  /\ \A f \in found : f \in DOMAIN edges /\ setTime[f] = 0 /\ f # s
               /\ \E m \in Assignments : Both(m)
               /\ \A e \in DOMAIN edges :
                     (setTime[e] # 0 \/ e \in found \/ e = s) <=> \A m \in Assignments : Both(m) => Obeys(m, e)
<1> DEFINE list == Append(addedEdges, s)
           found == Consequences(s, list).found
           Both(m) == (\A g \in Range(addedEdges) : Obeys(m, g)) /\ Obeys(m, s)
<1>1. IsList(list) /\ Range(list) = Range(addedEdges) \cup {s}
  BY GraphFacts, AppendRange DEF IsList
<1>2. \A m : Fits(m, list) <=> Both(m)
  BY <1>1 DEF Fits, Obeys
<1>3. PICK m1 \in Assignments : Both(m1)
  <2>1. PICK m \in Assignments : (\A g \in Range(addedEdges) : Obeys(m, g)) /\ ~ Obeys(m, edges[s].neg)
    <3>1. edges[s].neg \in DOMAIN edges
      BY DEF StoreRight, NegationRight
    <3>2. setTime[edges[s].neg] = 0
      BY DEF isTrue
    <3> QED BY <3>1, <3>2, GraphFacts
  <2>2. Obeys(m, s)
    BY <2>1, NegatedEdge
  <2> QED BY <2>1, <2>2
<1>4. StoreTyped /\ s \in Range(list) /\ \E m \in [Vertices -> Int] : Fits(m, list)
  BY <1>1, <1>2, <1>3 DEF StoreRight, AllAssignments
<1> HIDE DEF list, found
<1>5. /\ found \subseteq {f \in DOMAIN edges \ {s} : setTime[f] = 0}
      /\ \A f \in found, m \in [Vertices -> Int] : Fits(m, list) => Holds(m, OfEdge(f))
      /\ \A f \in DOMAIN edges \ {s}, m0 \in [Vertices -> Int] :
            setTime[f] = 0 /\ f \notin found
            /\ (\A g \in Range(list) \ {s} : Holds(m0, OfEdge(g))) /\ ~ Holds(m0, OfEdge(f))
            => \E m \in [Vertices -> Int] : Fits(m, list) /\ ~ Holds(m, OfEdge(f))
  BY <1>1, <1>4, ConsequencesRight DEF list, found
<1>6. ASSUME NEW e \in DOMAIN edges, setTime[e] # 0 \/ e \in found \/ e = s, NEW m \in Assignments, Both(m)
      PROVE  Obeys(m, e)
  <2>1. CASE setTime[e] # 0
    BY <2>1, <1>6, GraphFacts
  <2>2. CASE e \in found
    BY <2>2, <1>2, <1>5, <1>6 DEF Obeys, AllAssignments
  <2> QED BY <2>1, <2>2, <1>6
<1>7. ASSUME NEW e \in DOMAIN edges, setTime[e] = 0, e \notin found, e # s
      PROVE  \E m \in Assignments : Both(m) /\ ~ Obeys(m, e)
  <2>1. PICK m0 \in Assignments : (\A g \in Range(addedEdges) : Obeys(m0, g)) /\ ~ Obeys(m0, e)
    BY <1>7, GraphFacts
  <2>2. m0 \in [Vertices -> Int] /\ (\A g \in Range(list) \ {s} : Holds(m0, OfEdge(g))) /\ ~ Holds(m0, OfEdge(e))
    BY <2>1, <1>1 DEF Obeys, AllAssignments
  <2>3. PICK m \in [Vertices -> Int] : Fits(m, list) /\ ~ Holds(m, OfEdge(e))
    BY <2>2, <1>5, <1>7
  <2> QED BY <2>3, <1>2 DEF Obeys, AllAssignments
<1>8. \A f \in found : f \in DOMAIN edges /\ setTime[f] = 0 /\ f # s
  BY <1>5
<1>9. ASSUME NEW e \in DOMAIN edges
      PROVE  (setTime[e] # 0 \/ e \in found \/ e = s) <=> \A m \in Assignments : Both(m) => Obeys(m, e)
  <2> HIDE DEF Both
  <2> QED BY <1>6, <1>7
<1>10. \E m \in Assignments : Both(m)
  BY <1>3
<1> QED BY <1>8, <1>9, <1>10 DEF list, found

-----------------------------------------------------------------------------
(* Nothing given: construction, declaration, clearSolver().                *)

\* There are finitely many literals.
LEMMA LiteralsFinite == ASSUME NEW S \in SUBSET Literal PROVE IsFiniteSet(S)
<1> DEFINE P == Atoms \X BOOLEAN
           f == [p \in P |-> [tr |-> p[1], sgn |-> p[2]]]
<1>1. IsFiniteSet(BOOLEAN)
  <2>1. BOOLEAN = {TRUE} \cup {FALSE}
    OBVIOUS
  <2>2. IsFiniteSet({TRUE}) /\ IsFiniteSet({FALSE})
    BY FS_Singleton
  <2>3. IsFiniteSet({TRUE} \cup {FALSE})
    BY <2>2, FS_Union
  <2> QED BY <2>1, <2>3
<1>2. IsFiniteSet(P)
  BY <1>1, FS_Product, AtomsAssumption
<1>3. f \in Surjection(P, Literal)
  <2>1. f \in [P -> Literal]
    BY DEF Literal
  <2>2. \A l \in Literal : \E p \in P : f[p] = l
    <3> SUFFICES ASSUME NEW l \in Literal PROVE \E p \in P : f[p] = l
      OBVIOUS
    <3>1. <<l.tr, l.sgn>> \in P /\ f[<<l.tr, l.sgn>>] = l
      BY DEF Literal
    <3> QED BY <3>1
  <2> QED BY <2>1, <2>2 DEF Surjection
<1>4. IsFiniteSet(Literal)
  BY <1>2, <1>3, FS_Surjection
<1> QED BY <1>4, FS_Subset

\* SetToSeq() lists what is in the set.
LEMMA Listed ==
    ASSUME NEW S, IsFiniteSet(S)
    PROVE  SetToSeq(S) \in Seq(S) /\ \A x \in S : \E i \in DOMAIN SetToSeq(S) : SetToSeq(S)[i] = x
<1> DEFINE n == Cardinality(S)
           s == SetToSeq(S)
<1>1. IsFiniteSet(S) /\ n \in Nat
  BY FS_CardinalityType
<1>2. \E f \in Bijection(1..n, S) : TRUE
  BY <1>1, FS_NatBijection, FS_CountingElements, FS_CardinalityType DEF ExistsBijection
<1>3. s \in [1..n -> S] /\ IsInjective(s)
  <2>1. \E f \in [1..n -> S] : IsInjective(f)
    BY <1>2 DEF Bijection, Injection, IsInjective
  <2> QED BY <2>1 DEF SetToSeq
<1>4. s \in Seq(S) /\ Len(s) = n
  BY <1>1, <1>3
<1>5. s \in Injection(1..n, S)
  BY <1>3 DEF Injection, IsInjective
<1>6. IsFiniteSet(1..n) /\ Cardinality(1..n) = n
  BY <1>1, FS_Interval
<1>7. s \in Surjection(1..n, S)
  BY <1>1, <1>5, <1>6, FS_Injection
<1> QED BY <1>1, <1>3, <1>4, <1>7 DEF Surjection

\* A constraint alone is never implied: a variable is not compared with itself.
LEMMA NothingImpliesAnEdge ==
    ASSUME AllAssignments, StoreRight, NEW e \in DOMAIN edges
    PROVE  \E m \in Assignments : ~ Obeys(m, e)
<1> DEFINE m == [v \in Vertices |-> IF v = edges[e].to THEN edges[e].cost + 1 ELSE 0]
<1>1. edges[e].from \in Vertices /\ edges[e].to \in Vertices /\ edges[e].cost \in Int
  BY EdgesTyped DEF StoreRight
<1>2. edges[e].from # edges[e].to
  BY DEF StoreRight
<1>3. m \in Assignments /\ m[edges[e].to] = edges[e].cost + 1 /\ m[edges[e].from] = 0
  BY <1>1, <1>2 DEF AllAssignments
<1> HIDE DEF m
<1>4. Obeys(m, e) <=> m[edges[e].to] - m[edges[e].from] <= edges[e].cost
  BY DEF Obeys, Holds, OfEdge
<1>5. ~ Obeys(m, e)
  BY <1>1, <1>3, <1>4
<1> QED BY <1>3, <1>5

\* An empty graph is right when no edge is true.
GraphEmpty == addedEdges = <<>> /\ timestamp \in Nat /\ setTime \in [DOMAIN edges -> {0}]

\* Then nothing is given, and no declared edge is implied.
LEMMA EmptyGraphRight == AllAssignments /\ StoreRight /\ GraphEmpty => GraphRight
<1> SUFFICES ASSUME AllAssignments, StoreRight, GraphEmpty PROVE GraphRight
  OBVIOUS
<1>1. TimesOrdered
  BY DEF TimesOrdered, GraphEmpty, IsList
<1>2. \A m, t : ObeysUntil(m, t)
  BY DEF ObeysUntil, GraphEmpty, Range
<1>3. TimesExact
  BY <1>2, NothingImpliesAnEdge DEF TimesExact, GraphEmpty
<1>4. \E m \in Assignments : TRUE
  <2>1. [v \in Vertices |-> 0] \in [Vertices -> Int]
    OBVIOUS
  <2> QED BY <2>1 DEF AllAssignments
<1> QED BY <1>1, <1>2, <1>3, <1>4 DEF GraphRight

\* Without backtrack points there is nothing left of what was given.
LEMMA NothingLeft ==
    ASSUME AllAssignments, SolverRight, backtrack_points = <<>>
    PROVE  /\ stack = <<>> /\ deductions_marks = <<>> /\ th_deductions = <<>> /\ polarity = {}
           /\ GraphEmpty /\ deductions = {} /\ inv_asgn = NoLiteral
<1>1. stack \in Seq(Literal) /\ Len(stack) = 0
  BY DEF SolverRight, PointsOrdered
<1>2. stack = <<>> /\ DOMAIN stack = {}
  BY <1>1, EmptySeq
<1>3. deductions_marks \in Seq([lim : Nat, next : Nat]) /\ Len(deductions_marks) = 0
  BY DEF SolverRight, MarksOrdered
<1>4. deductions_marks = <<>>
  BY <1>3, EmptySeq
<1>5. th_deductions = <<>>
  BY <1>4 DEF SolverRight, MarksOrdered
<1>6. polarity = {}
  BY <1>5 DEF SolverRight, DeductionsKept
<1>7. inv_asgn = NoLiteral
  BY <1>2 DEF SolverRight, StackRight
<1>8. Range(addedEdges) = {}
  BY <1>2 DEF SolverRight, StackRight
<1>9. addedEdges = <<>>
  <2>1. addedEdges \in Seq(DOMAIN edges)
    BY DEF SolverRight, GraphRight, TimesOrdered, IsList
  <2>2. \A i \in DOMAIN addedEdges : addedEdges[i] \in Range(addedEdges)
    BY DEF Range
  <2>3. DOMAIN addedEdges = {}
    BY <1>8, <2>2
  <2>4. Len(addedEdges) \in Nat /\ DOMAIN addedEdges = 1..Len(addedEdges)
    BY <2>1, LenProperties
  <2>5. Len(addedEdges) = 0
    <3> SUFFICES ASSUME Len(addedEdges) # 0 PROVE FALSE
      OBVIOUS
    <3>1. 1 \in 1..Len(addedEdges)
      BY <2>4
    <3> QED BY <3>1, <2>3, <2>4
  <2> QED BY <2>1, <2>5, EmptySeq
<1>10. ASSUME NEW e \in DOMAIN edges PROVE setTime[e] = 0
  <2>1. PICK m \in Assignments : ~ Obeys(m, e)
    BY NothingImpliesAnEdge DEF SolverRight
  <2>2. GraphRight
    BY DEF SolverRight
  <2> QED BY <1>8, <2>1, <2>2, GraphFacts
<1>11. GraphEmpty
  <2>1. timestamp \in Nat /\ setTime \in [DOMAIN edges -> Nat]
    BY DEF SolverRight, GraphRight, TimesOrdered
  <2>2. setTime \in [DOMAIN edges -> {0}]
    BY <2>1, <1>10
  <2> QED BY <2>1, <2>2, <1>9 DEF GraphEmpty
<1>12. deductions = {}
  BY <1>10 DEF SolverRight, DeductionsKept
<1> QED BY <1>2, <1>4, <1>5, <1>6, <1>7, <1>11, <1>12

\* Nothing given and nothing deduced.
Fresh ==
    /\ stack = <<>> /\ backtrack_points = <<>> /\ deductions_marks = <<>> /\ th_deductions = <<>>
    /\ deductions_next \in Nat /\ polarity = {}
    /\ GraphEmpty /\ deductions = {} /\ inv_asgn = NoLiteral /\ inv_bpoint \in Nat

\* A solver like that is right: the state after construction and after clearSolver().
LEMMA FreshRight == AllAssignments /\ StoreRight /\ Fresh => SolverRight
<1> SUFFICES ASSUME AllAssignments, StoreRight, Fresh PROVE SolverRight
  OBVIOUS
<1>1. GraphRight
  BY EmptyGraphRight DEF Fresh
<1>2. PointsOrdered
  BY DEF Fresh, GraphEmpty, PointsOrdered, Range
<1>3. StackRight
  BY DEF Fresh, GraphEmpty, StackRight, Range
<1>4. MarksOrdered
  BY DEF Fresh, MarksOrdered
<1>5. DeductionsKept
  BY DEF Fresh, DeductionsKept
<1> QED BY <1>1, <1>2, <1>3, <1>4, <1>5 DEF SolverRight

\* The same of the next state.
LEMMA FreshRightLater == AllAssignments /\ StoreRight' /\ Fresh' => SolverRight'
<1>1. AllAssignments' <=> AllAssignments
  BY DEF AllAssignments
<1> QED BY <1>1, FreshRight, PTL

\* Costs are numbers that fit, and so are the costs of negations.
LEMMA CostsFit ==
    /\ \A c : GetValue(c) \in Values
    /\ \A c \in Values : c \in Int /\ Negate(c) \in Values /\ Negate(c) = -c - 1
<1> DEFINE P == 2^(Width - 1)
<1>1. P \in Int
  <2>1. Width - 1 \in Nat
    BY WidthAssumption
  <2> QED BY <2>1
<1>2. MaxInt = P - 1 /\ MinInt = -P
  BY DEF MaxInt, MinInt
<1> HIDE DEF P
<1>3. \A c \in Values : c \in Int /\ -P <= c /\ c <= P - 1
  BY <1>1, <1>2 DEF Values
<1>4. \A c \in Int : -P <= c /\ c <= P - 1 => c \in Values
  BY <1>1, <1>2 DEF Values
<1>5. -P \in Int /\ -P <= -P /\ -P <= P - 1
  BY <1>1, <1>3, WidthAssumption
<1>6. MinInt \in Values
  BY <1>2, <1>4, <1>5
<1>7. ASSUME NEW c PROVE GetValue(c) \in Values
  BY <1>6 DEF GetValue
<1>8. ASSUME NEW c \in Values PROVE Negate(c) = -c - 1
  <2>1. CASE c = MaxInt
    BY <1>1, <1>2, <1>3, <2>1 DEF Negate
  <2>2. CASE c # MaxInt
    BY <2>2 DEF Negate
  <2> QED BY <2>1, <2>2
<1>9. ASSUME NEW c \in Values PROVE -c - 1 \in Values
  <2>1. c \in Int /\ -P <= c /\ c <= P - 1
    BY <1>3
  <2>2. -c - 1 \in Int /\ -P <= -c - 1 /\ -c - 1 <= P - 1
    BY <1>1, <2>1
  <2> QED BY <2>2, <1>4
<1> QED BY <1>3, <1>7, <1>8, <1>9

\* The solver is right when it is constructed.
LEMMA StartsRight == ASSUME AllAssignments, Init PROVE SolverRight
<1>1. StoreRight
  BY EmptySeq DEF Init, TSolverInit, StoreRight, StoreTyped
<1>2. Fresh
  <2>1. Cardinality(Atoms) \in Nat
    BY AtomsAssumption, FS_CardinalityType
  <2> QED BY <2>1 DEF Init, TSolverInit, Fresh, GraphEmpty
<1> QED BY <1>1, <1>2, FreshRight

\* clearSolver() leaves the solver right, although it leaves the deductions and the conflict alone.
LEMMA ClearRight == ASSUME AllAssignments, SolverRight, clearSolver PROVE SolverRight'
<1>1. StoreRight'
  <2>1. edges' = <<>> /\ leqToEdge' = <<>> /\ edgeToLeq' = <<>> /\ informed' = {}
    BY DEF clearSolver, ClearTSolver
  <2> QED BY <2>1, EmptySeq DEF StoreRight, StoreTyped, NegationRight
<1>2. inv_asgn = NoLiteral /\ deductions = {} /\ polarity = {}
  BY NothingLeft DEF clearSolver
<1>3. inv_bpoint \in Nat
  BY DEF SolverRight, StackRight
<1>4. Fresh'
  BY <1>2, <1>3 DEF clearSolver, ClearTSolver, conflictVars, Fresh, GraphEmpty
<1> QED BY <1>1, <1>4, FreshRightLater

\* Another atom for an edge that there is already.
LEMMA SharedEdge ==
    ASSUME StoreRight, NEW a \in Atoms, a \notin informed, NEW e \in DOMAIN edges,
           edges[e].from = Parsed[a].from, edges[e].to = Parsed[a].to, edges[e].cost = GetValue(Parsed[a].c),
           informed' = informed \cup {a}, UNCHANGED edges,
           leqToEdge' = [b \in informed' |-> IF b = a THEN e ELSE leqToEdge[b]],
           edgeToLeq' = [edgeToLeq EXCEPT ![e] = a]
    PROVE  StoreRight'
<1>1. StoreTyped' /\ \A d \in DOMAIN edges' : edges'[d].from # edges'[d].to /\ NegationRight(d)'
  BY DEF StoreRight, StoreTyped, NegationRight
<1>2. informed' \subseteq Atoms
  BY DEF StoreRight
<1>3. leqToEdge' \in [informed' -> DOMAIN edges']
  BY DEF StoreRight
<1>4. \A b \in informed' : /\ edges'[leqToEdge'[b]].from = Parsed[b].from
                           /\ edges'[leqToEdge'[b]].to = Parsed[b].to
                           /\ edges'[leqToEdge'[b]].cost = GetValue(Parsed[b].c)
  BY DEF StoreRight
<1>5. edgeToLeq' \in [DOMAIN edges' -> informed' \cup {NoLiteral}]
  BY DEF StoreRight
<1>6. \A d \in DOMAIN edges' : edgeToLeq'[d] # NoLiteral => leqToEdge'[edgeToLeq'[d]] = d
  BY DEF StoreRight
<1> QED BY <1>1, <1>2, <1>3, <1>4, <1>5, <1>6 DEF StoreRight

\* What a list is with two elements more.
LEMMA AppendPair ==
    ASSUME NEW T, NEW q \in Seq(T), NEW x \in T, NEW y \in T
    PROVE  LET r == q \o <<x, y>>
           IN  /\ r \in Seq(T) /\ Len(q) \in Nat /\ Len(r) = Len(q) + 2
               /\ DOMAIN q = 1..Len(q) /\ DOMAIN r = 1..(Len(q) + 2)
               /\ \A i \in 1..Len(q) : r[i] = q[i]
               /\ r[Len(q) + 1] = x /\ r[Len(q) + 2] = y
<1> DEFINE two == <<x, y>>
           r == q \o two
<1>1. two \in Seq(T) /\ Len(two) = 2 /\ two[1] = x /\ two[2] = y
  OBVIOUS
<1>2. Len(q) \in Nat /\ DOMAIN q = 1..Len(q)
  BY LenProperties
<1> HIDE DEF two
<1>3. /\ r \in Seq(T) /\ Len(r) = Len(q) + Len(two)
      /\ \A i \in 1..(Len(q) + Len(two)) : r[i] = IF i <= Len(q) THEN q[i] ELSE two[i - Len(q)]
  BY <1>1, ConcatProperties
<1> HIDE DEF r
<1>4. Len(r) = Len(q) + 2 /\ DOMAIN r = 1..(Len(q) + 2)
  BY <1>1, <1>3, LenProperties
<1>5. \A i \in 1..Len(q) : r[i] = q[i]
  BY <1>1, <1>2, <1>3
<1>6. r[Len(q) + 1] = x
  <2>1. Len(q) + 1 \in 1..(Len(q) + 2) /\ ~ (Len(q) + 1 <= Len(q)) /\ Len(q) + 1 - Len(q) = 1
    BY <1>2
  <2> QED BY <1>1, <1>3, <2>1
<1>7. r[Len(q) + 2] = y
  <2>1. Len(q) + 2 \in 1..(Len(q) + 2) /\ ~ (Len(q) + 2 <= Len(q)) /\ Len(q) + 2 - Len(q) = 2
    BY <1>2
  <2> QED BY <1>1, <1>3, <2>1
<1> QED BY <1>2, <1>3, <1>4, <1>5, <1>6, <1>7 DEF r, two

\* A map of the first n numbers, and what it is with two values more.
Longer(q, x, y) == q \o <<x, y>>

\* What a list of n values is like with two more.
Grown(r, T, n, q, x, y) ==
    /\ r \in [1..(n + 2) -> T]
    /\ \A i \in 1..n : r[i] = q[i]
    /\ r[n + 1] = x /\ r[n + 2] = y

\* The same of a map of numbers.
LEMMA AppendTwo ==
    ASSUME NEW T, NEW n \in Nat, NEW q \in [1..n -> T], NEW x \in T, NEW y \in T
    PROVE  Grown(Longer(q, x, y), T, n, q, x, y)
<1> DEFINE r == Longer(q, x, y)
<1>1. q \in Seq(T) /\ Len(q) = n
  OBVIOUS
<1>2. /\ r \in Seq(T) /\ Len(r) = Len(q) + 2 /\ DOMAIN r = 1..(Len(q) + 2)
      /\ \A i \in 1..Len(q) : r[i] = q[i]
      /\ r[Len(q) + 1] = x /\ r[Len(q) + 2] = y
  BY <1>1, AppendPair DEF Longer
<1> HIDE DEF r
<1>3. /\ r \in Seq(T) /\ DOMAIN r = 1..(n + 2)
      /\ \A i \in 1..n : r[i] = q[i]
      /\ r[n + 1] = x /\ r[n + 2] = y
  BY <1>1, <1>2
<1>4. r \in [1..(n + 2) -> T]
  <2>1. \A i \in 1..(n + 2) : r[i] \in T
    BY <1>3, ElementOfSeq
  <2>2. r = [i \in 1..(n + 2) |-> r[i]]
    <3>1. r = [i \in DOMAIN r |-> r[i]]
      BY <1>3, SMTT(30)
    <3> QED BY <3>1, <1>3
  <2> QED BY <2>1, <2>2
<1>5. Grown(r, T, n, q, x, y)
  BY <1>3, <1>4, SMTT(30) DEF Grown
<1> QED BY <1>5 DEF r

\* A new edge in the store, and its negation.
LEMMA NewPair ==
    ASSUME StoreRight, NEW a \in Atoms, a \notin informed, NEW edge, NEW back,
           edge = [from |-> Parsed[a].from, to |-> Parsed[a].to, cost |-> GetValue(Parsed[a].c),
                   neg |-> Len(edges) + 2],
           back = [from |-> Parsed[a].to, to |-> Parsed[a].from, cost |-> Negate(GetValue(Parsed[a].c)),
                   neg |-> Len(edges) + 1],
           informed' = informed \cup {a}, edges' = edges \o <<edge, back>>,
           leqToEdge' = [b \in informed' |-> IF b = a THEN Len(edges) + 1 ELSE leqToEdge[b]],
           edgeToLeq' = edgeToLeq \o <<a, NoLiteral>>,
           setTime \in [DOMAIN edges -> {0}], setTime' = setTime \o <<0, 0>>
    PROVE  StoreRight' /\ setTime' \in [DOMAIN edges' -> {0}]
<1> DEFINE n == Len(edges)
           cost == GetValue(Parsed[a].c)
<1>1. edges \in Seq(EdgeRecord) /\ n \in Nat
  BY LenProperties DEF StoreRight, StoreTyped
<1>2. cost \in Values /\ cost \in Int /\ Negate(cost) \in Values /\ Negate(cost) = -cost - 1
  BY CostsFit
<1>3. Parsed[a].from \in Vertices /\ Parsed[a].to \in Vertices /\ Parsed[a].from # Parsed[a].to
  BY AtomsAssumption
<1> HIDE DEF cost
<1>4. edge \in EdgeRecord /\ back \in EdgeRecord
  BY <1>1, <1>2, <1>3 DEF EdgeRecord, cost
<1>5. /\ edges' \in Seq(EdgeRecord) /\ Len(edges') = n + 2
      /\ DOMAIN edges = 1..n /\ DOMAIN edges' = 1..(n + 2)
      /\ \A i \in 1..n : edges'[i] = edges[i]
      /\ edges'[n + 1] = edge /\ edges'[n + 2] = back
  BY <1>1, <1>4, AppendPair DEF n
<1>6. /\ edge.from = Parsed[a].from /\ edge.to = Parsed[a].to /\ edge.cost = cost /\ edge.neg = n + 2
      /\ back.from = Parsed[a].to /\ back.to = Parsed[a].from /\ back.cost = -cost - 1 /\ back.neg = n + 1
  BY <1>2 DEF cost
<1> HIDE DEF n
<1>7. ASSUME NEW d \in DOMAIN edges' PROVE edges'[d].from # edges'[d].to /\ NegationRight(d)'
  <2>1. CASE d \in 1..n
    <3>1. edges[d].from # edges[d].to /\ NegationRight(d)
      BY <2>1, <1>5 DEF StoreRight
    <3>2. edges[d].neg \in 1..n /\ edges[d].neg \in 1..(n + 2)
      BY <3>1, <1>5, <1>1 DEF NegationRight
    <3> QED BY <2>1, <3>1, <3>2, <1>5 DEF NegationRight
  <2>2. CASE d = n + 1
    <3>1. edges'[d] = edge /\ edges'[edge.neg] = back /\ n + 2 \in 1..(n + 2)
      BY SMTT(30), <2>2, <1>1, <1>5, <1>6
    <3> QED BY <2>2, <3>1, <1>3, <1>5, <1>6, ZenonT(60) DEF NegationRight
  <2>3. CASE d = n + 2
    <3>1. edges'[d] = back /\ edges'[back.neg] = edge /\ n + 1 \in 1..(n + 2)
      BY <2>3, <1>1, <1>5, <1>6
    <3>2. -(-cost - 1) - 1 = cost
      BY <1>2
    <3>3. edges'[d].neg = n + 1 /\ edges'[d].from = edge.to /\ edges'[d].to = edge.from
          /\ edges'[d].cost = -cost - 1
      BY <3>1, <1>6
    <3>4. edges'[n + 1] = edge /\ edge.cost = -(edges'[d].cost) - 1
      BY <3>2, <3>3, <1>5, <1>6
    <3>5. NegationRight(d)'
      BY <2>3, <3>1, <3>3, <3>4, <1>5, <1>6, ZenonT(60) DEF NegationRight
    <3> QED BY <3>3, <3>5, <1>3, <1>6
  <2> QED BY <2>1, <2>2, <2>3, <1>1, <1>5, SMTT(30)
<1>8. StoreTyped'
  BY <1>5 DEF StoreTyped
<1>9. informed' \subseteq Atoms
  BY DEF StoreRight
<1>10. n + 1 \in DOMAIN edges' /\ DOMAIN edges \subseteq DOMAIN edges'
  BY <1>1, <1>5
<1>11. leqToEdge' \in [informed' -> DOMAIN edges']
  BY <1>10 DEF StoreRight, n
<1>12. \A b \in informed' : /\ edges'[leqToEdge'[b]].from = Parsed[b].from
                            /\ edges'[leqToEdge'[b]].to = Parsed[b].to
                            /\ edges'[leqToEdge'[b]].cost = GetValue(Parsed[b].c)
  <2> SUFFICES ASSUME NEW b \in informed'
               PROVE  /\ edges'[leqToEdge'[b]].from = Parsed[b].from
                      /\ edges'[leqToEdge'[b]].to = Parsed[b].to
                      /\ edges'[leqToEdge'[b]].cost = GetValue(Parsed[b].c)
    OBVIOUS
  <2>1. CASE b = a
    <3>1. leqToEdge'[b] = n + 1
      BY <2>1 DEF n
    <3> QED BY <2>1, <3>1, <1>5, <1>6 DEF cost
  <2>2. CASE b # a
    <3>1. b \in informed /\ leqToEdge'[b] = leqToEdge[b] /\ leqToEdge[b] \in DOMAIN edges
      BY <2>2 DEF StoreRight
    <3>2. edges'[leqToEdge'[b]] = edges[leqToEdge[b]]
      BY <3>1, <1>5
    <3> QED BY <3>1, <3>2 DEF StoreRight
  <2> QED BY <2>1, <2>2
<1>13. /\ edgeToLeq' \in [1..(n + 2) -> informed' \cup {NoLiteral}]
       /\ \A i \in 1..n : edgeToLeq'[i] = edgeToLeq[i]
       /\ edgeToLeq'[n + 1] = a /\ edgeToLeq'[n + 2] = NoLiteral
  <2>1. edgeToLeq \in [1..n -> informed \cup {NoLiteral}]
    BY <1>5 DEF StoreRight
  <2>2. edgeToLeq \in [1..n -> informed' \cup {NoLiteral}]
    BY <2>1
  <2>3. a \in informed' \cup {NoLiteral} /\ NoLiteral \in informed' \cup {NoLiteral}
    OBVIOUS
  <2>4. edgeToLeq' = Longer(edgeToLeq, a, NoLiteral)
    BY DEF Longer
  <2> DEFINE T == informed' \cup {NoLiteral}
  <2>5. edgeToLeq \in [1..n -> T] /\ a \in T /\ NoLiteral \in T
    BY <2>2, <2>3
  <2> HIDE DEF T
  <2>6. Grown(Longer(edgeToLeq, a, NoLiteral), T, n, edgeToLeq, a, NoLiteral)
    BY <2>5, <1>1, AppendTwo
  <2>7. Grown(edgeToLeq', T, n, edgeToLeq, a, NoLiteral)
    BY <2>4, <2>6
  <2> QED BY <2>7 DEF Grown, T
<1>14. edgeToLeq' \in [DOMAIN edges' -> informed' \cup {NoLiteral}]
  BY <1>5, <1>13
<1>15. ASSUME NEW d \in DOMAIN edges', edgeToLeq'[d] # NoLiteral PROVE leqToEdge'[edgeToLeq'[d]] = d
  <2>1. CASE d \in 1..n
    <3>1. edgeToLeq'[d] = edgeToLeq[d] /\ d \in DOMAIN edges
      BY <2>1, <1>5, <1>13
    <3>2. edgeToLeq[d] # NoLiteral /\ edgeToLeq[d] \in informed \cup {NoLiteral} /\ leqToEdge[edgeToLeq[d]] = d
      BY <3>1, <1>15 DEF StoreRight
    <3>3. leqToEdge'[edgeToLeq[d]] = leqToEdge[edgeToLeq[d]]
      BY <3>2
    <3> QED BY <3>1, <3>2, <3>3
  <2>2. CASE d = n + 1
    <3>1. edgeToLeq'[d] = a /\ a \in informed'
      BY <2>2, <1>13
    <3>2. leqToEdge'[a] = n + 1
      BY <3>1 DEF n
    <3> QED BY <2>2, <3>1, <3>2
  <2> QED BY <2>1, <2>2, <1>1, <1>5, <1>13, <1>15, SMTT(30)
<1>16. setTime' \in [DOMAIN edges' -> {0}]
  <2>1. setTime \in [1..n -> {0}]
    BY <1>5
  <2>2. 0 \in {0}
    OBVIOUS
  <2>3. setTime' = Longer(setTime, 0, 0)
    BY DEF Longer
  <2>4. Grown(setTime', {0}, n, setTime, 0, 0)
    BY <2>1, <2>2, <2>3, <1>1, AppendTwo
  <2> QED BY <2>4, <1>5 DEF Grown
<1> QED BY <1>7, <1>8, <1>9, <1>11, <1>12, <1>14, <1>15, <1>16 DEF StoreRight

\* declareAtom() leaves the solver right, whether the atom has a new edge or shares one.
LEMMA DeclareRight ==
    ASSUME AllAssignments, SolverRight, NEW a \in Atoms, declareAtom(a)
    PROVE  SolverRight'
<1> DEFINE cost == GetValue(Parsed[a].c)
           edge == [from |-> Parsed[a].from, to |-> Parsed[a].to, cost |-> cost, neg |-> Len(edges) + 2]
           back == [from |-> edge.to, to |-> edge.from, cost |-> Negate(cost), neg |-> Len(edges) + 1]
           same == {e \in DOMAIN edges : /\ edges[e].from = edge.from
                                         /\ edges[e].to = edge.to
                                         /\ edges[e].cost = cost}
<1>1. /\ stack = <<>> /\ deductions_marks = <<>> /\ th_deductions = <<>> /\ polarity = {}
      /\ GraphEmpty /\ deductions = {} /\ inv_asgn = NoLiteral /\ backtrack_points = <<>>
      /\ deductions_next \in Nat /\ inv_bpoint \in Nat
  <2>1. backtrack_points = <<>>
    BY DEF declareAtom
  <2>2. deductions_next \in Nat /\ inv_bpoint \in Nat
    BY DEF SolverRight, MarksOrdered, StackRight
  <2> QED BY <2>1, <2>2, NothingLeft
<1>2. StoreRight' /\ setTime' \in [DOMAIN edges' -> {0}]
  <2>1. StoreRight /\ setTime \in [DOMAIN edges -> {0}]
    BY <1>1 DEF SolverRight, GraphEmpty
  <2>2. a \notin informed /\ informed' = informed \cup {a}
    BY DEF declareAtom
  <2>3. CASE same # {}
    <3>1. /\ leqToEdge' = [b \in informed' |-> IF b = a THEN Min(same) ELSE leqToEdge[b]]
          /\ edgeToLeq' = [edgeToLeq EXCEPT ![Min(same)] = a]
          /\ UNCHANGED <<edges, setTime>>
      BY <2>3 DEF declareAtom
    <3>2. same \in SUBSET Nat
      <4>1. DOMAIN edges = 1..Len(edges)
        BY <2>1, LenProperties DEF StoreRight, StoreTyped
      <4> QED BY <4>1
    <3>3. Min(same) \in same
      <4> HIDE DEF same
      <4> QED BY <2>3, <3>2, Smallest
    <3>4. /\ Min(same) \in DOMAIN edges /\ edges[Min(same)].from = Parsed[a].from
          /\ edges[Min(same)].to = Parsed[a].to /\ edges[Min(same)].cost = GetValue(Parsed[a].c)
      BY <3>3
    <3> HIDE DEF same
    <3>5. StoreRight'
      BY <2>1, <2>2, <3>1, <3>4, SharedEdge
    <3> QED BY <2>1, <3>1, <3>5
  <2>4. CASE same = {}
    <3>1. /\ edges' = edges \o <<edge, back>>
          /\ setTime' = setTime \o <<0, 0>>
          /\ leqToEdge' = [b \in informed' |-> IF b = a THEN Len(edges) + 1 ELSE leqToEdge[b]]
          /\ edgeToLeq' = edgeToLeq \o <<a, NoLiteral>>
      BY <2>4 DEF declareAtom
    <3>2. back = [from |-> Parsed[a].to, to |-> Parsed[a].from, cost |-> Negate(GetValue(Parsed[a].c)),
                  neg |-> Len(edges) + 1]
      OBVIOUS
    <3>3. edge = [from |-> Parsed[a].from, to |-> Parsed[a].to, cost |-> GetValue(Parsed[a].c),
                  neg |-> Len(edges) + 2]
      OBVIOUS
    <3> HIDE DEF edge, back
    <3> QED BY <2>1, <2>2, <3>1, <3>2, <3>3, NewPair
  <2> QED BY <2>3, <2>4
<1>3. UNCHANGED <<th_deductions, deductions_next, deductions_marks, polarity,
                  addedEdges, deductions, timestamp, backtrack_points, inv_bpoint, inv_asgn, stack>>
  BY DEF declareAtom, conflictVars
<1>4. GraphEmpty'
  BY <1>1, <1>2, <1>3 DEF GraphEmpty
<1>5. Fresh'
  BY <1>1, <1>3, <1>4 DEF Fresh
<1> QED BY <1>2, <1>5, FreshRightLater

-----------------------------------------------------------------------------
(* An assertion.                                                           *)

\* The edges of the literals of an informed atom.
LEMMA EdgeOfLiteral ==
    ASSUME StoreRight, NEW l \in Literal, l.tr \in informed
    PROVE  /\ EdgeOf(l) \in DOMAIN edges /\ edges[EdgeOf(l)].neg \in DOMAIN edges
           /\ EdgeOf(Negated(l)) = edges[EdgeOf(l)].neg
           /\ Known(l) => edgeToLeq[IF l.sgn THEN EdgeOf(l) ELSE edges[EdgeOf(l)].neg] = l.tr
<1> DEFINE e == leqToEdge[l.tr]
<1>1. e \in DOMAIN edges
  BY DEF StoreRight
<1>2. edges[e].neg \in DOMAIN edges /\ edges[edges[e].neg].neg = e
  BY <1>1 DEF StoreRight, NegationRight
<1>3. l.sgn \in BOOLEAN
  BY DEF Literal
<1>4. CASE l.sgn
  BY <1>1, <1>2, <1>4 DEF EdgeOf, Negated, Known
<1>5. CASE ~ l.sgn
  BY <1>1, <1>2, <1>5 DEF EdgeOf, Negated, Known
<1> QED BY <1>3, <1>4, <1>5

\* What an assertion does to the list of points, whatever its outcome.
PointAdded(l) ==
    /\ stack' = Append(stack, l) /\ backtrack_points' = Append(backtrack_points, timestamp)
    /\ deductions_marks' = Append(deductions_marks, Mark)
    /\ UNCHANGED <<informed, edges, leqToEdge, edgeToLeq, deductions_next>>

\* The graph gets nothing, or an edge at a later time; what is true stays so.
GraphGrows(set) ==
    /\ timestamp' \in Nat /\ timestamp <= timestamp'
    /\ setTime' \in [DOMAIN edges -> Nat]
    /\ \A e \in DOMAIN edges : setTime[e] # 0 => setTime'[e] = setTime[e]
    /\ \/ Range(addedEdges') = Range(addedEdges)
       \/ Range(addedEdges') = Range(addedEdges) \cup {set} /\ timestamp < setTime'[set]

\* A point at the present time keeps the points in order.
LEMMA PointAddedRight ==
    ASSUME PointsOrdered, GraphRight, NEW l \in Literal, PointAdded(l), NEW s \in DOMAIN edges, GraphGrows(s)
    PROVE  /\ PointsOrdered'
           /\ Len(stack) \in Nat /\ Len(backtrack_points) = Len(stack)
           /\ DOMAIN stack = 1..Len(stack) /\ DOMAIN stack' = 1..(Len(stack) + 1)
           /\ DOMAIN backtrack_points = 1..Len(stack) /\ DOMAIN backtrack_points' = 1..(Len(stack) + 1)
           /\ \A i \in 1..Len(stack) : stack'[i] = stack[i] /\ backtrack_points'[i] = backtrack_points[i]
           /\ stack'[Len(stack) + 1] = l /\ backtrack_points'[Len(stack) + 1] = timestamp
<1> DEFINE n == Len(stack)
<1>1. stack \in Seq(Literal) /\ backtrack_points \in Seq(Nat) /\ Len(backtrack_points) = n
  BY DEF PointsOrdered
<1>2. /\ timestamp \in Nat /\ timestamp' \in Nat /\ timestamp <= timestamp'
      /\ \A e \in DOMAIN edges : setTime[e] \in Nat /\ setTime[e] <= timestamp
  BY GraphFacts DEF GraphGrows
<1>3. /\ stack' \in Seq(Literal) /\ Len(stack') = n + 1 /\ n \in Nat
      /\ DOMAIN stack = 1..n /\ DOMAIN stack' = 1..(n + 1)
      /\ \A i \in 1..n : stack'[i] = stack[i]
      /\ stack'[n + 1] = l
  BY <1>1, AppendRange DEF PointAdded
<1>4. /\ backtrack_points' \in Seq(Nat) /\ Len(backtrack_points') = n + 1
      /\ DOMAIN backtrack_points = 1..n /\ DOMAIN backtrack_points' = 1..(n + 1)
      /\ \A i \in 1..n : backtrack_points'[i] = backtrack_points[i]
      /\ backtrack_points'[n + 1] = timestamp
  BY <1>1, <1>2, AppendRange DEF PointAdded
<1> HIDE DEF n
<1>5. \A i \in 1..n : backtrack_points[i] \in Nat /\ backtrack_points[i] <= timestamp
  <2>1. \A i \in 1..n : backtrack_points[i] \in Nat
    BY <1>1, <1>4, ElementOfSeq
  <2> QED BY <2>1, <1>4 DEF PointsOrdered
<1>6. \A i \in 1..(n + 1) : backtrack_points'[i] \in Nat /\ backtrack_points'[i] <= timestamp
  <2> SUFFICES ASSUME NEW i \in 1..(n + 1) PROVE backtrack_points'[i] \in Nat /\ backtrack_points'[i] <= timestamp
    OBVIOUS
  <2>1. CASE i = n + 1
    BY <2>1, <1>2, <1>4
  <2>2. CASE i # n + 1
    <3>1. i \in 1..n
      BY <2>2, <1>3
    <3> QED BY <3>1, <1>4, <1>5
  <2> QED BY <2>1, <2>2
<1>7. \A i, j \in 1..(n + 1) : i <= j => backtrack_points'[i] <= backtrack_points'[j]
  <2> SUFFICES ASSUME NEW i \in 1..(n + 1), NEW j \in 1..(n + 1), i <= j
               PROVE  backtrack_points'[i] <= backtrack_points'[j]
    OBVIOUS
  <2>1. CASE j = n + 1
    BY <2>1, <1>4, <1>6
  <2>2. CASE j # n + 1
    <3>1. i \in 1..n /\ j \in 1..n
      BY <2>2, <1>3
    <3> QED BY <3>1, <1>4 DEF PointsOrdered
  <2> QED BY <2>1, <2>2
<1>8. \A g \in Range(addedEdges) : /\ g \in Range(addedEdges') /\ setTime'[g] = setTime[g]
                                   /\ setTime[g] \in Nat /\ setTime[g] <= timestamp
  BY <1>2, GraphFacts DEF GraphGrows
<1>9. \A g \in Range(addedEdges') : setTime'[g] <= timestamp => g \in Range(addedEdges)
  <2> SUFFICES ASSUME NEW g \in Range(addedEdges'), setTime'[g] <= timestamp, g \notin Range(addedEdges)
               PROVE  FALSE
    OBVIOUS
  <2>1. g = s /\ timestamp < setTime'[s] /\ setTime'[s] \in Nat
    BY DEF GraphGrows
  <2> QED BY <2>1, <1>2
<1>10. \A g \in Range(addedEdges') : setTime'[g] \in Nat
  <2> SUFFICES ASSUME NEW g \in Range(addedEdges') PROVE g \in DOMAIN edges
    BY DEF GraphGrows
  <2> QED BY GraphFacts DEF GraphGrows
<1>11. ASSUME NEW i \in 1..(n + 1), \E g \in Range(addedEdges') : setTime'[g] <= backtrack_points'[i]
       PROVE  \E g \in Range(addedEdges') : setTime'[g] = backtrack_points'[i]
  <2>1. PICK g \in Range(addedEdges') : setTime'[g] <= backtrack_points'[i]
    BY <1>11
  <2>2. setTime'[g] \in Nat /\ backtrack_points'[i] \in Nat /\ backtrack_points'[i] <= timestamp
    BY <1>6, <1>10
  <2>3. setTime'[g] <= timestamp
    BY <2>1, <2>2, <1>2
  <2>4. g \in Range(addedEdges) /\ setTime[g] <= backtrack_points'[i]
    BY <2>1, <2>3, <1>8, <1>9
  <2>5. CASE i = n + 1
    <3>1. addedEdges # <<>> /\ addedEdges \in Seq(DOMAIN edges)
      BY <2>4, GraphFacts DEF Range
    <3>2. Len(addedEdges) \in DOMAIN addedEdges
      <4>1. Len(addedEdges) \in Nat /\ Len(addedEdges) # 0 /\ DOMAIN addedEdges = 1..Len(addedEdges)
        BY <3>1, LenProperties, EmptySeq
      <4> QED BY <4>1
    <3>3. setTime[addedEdges[Len(addedEdges)]] = timestamp /\ addedEdges[Len(addedEdges)] \in Range(addedEdges)
      BY <3>1, <3>2 DEF GraphRight, TimesOrdered, Range
    <3> QED BY <3>3, <2>5, <1>4, <1>8
  <2>6. CASE i # n + 1
    <3>1. i \in 1..n
      BY <2>6, <1>3
    <3>2. PICK h \in Range(addedEdges) : setTime[h] = backtrack_points[i]
      BY <3>1, <2>4, <1>4 DEF PointsOrdered
    <3> QED BY <3>1, <3>2, <1>4, <1>8
  <2> QED BY <2>5, <2>6
<1>12. \A i \in 1..(n + 1) : backtrack_points'[i] <= timestamp'
  BY <1>2, <1>6
<1>13. PointsOrdered'
  BY <1>3, <1>4, <1>7, <1>11, <1>12 DEF PointsOrdered
<1> QED BY <1>1, <1>3, <1>4, <1>13 DEF n

\* The outcome of an assertion: nothing in an inconsistent solver, an edge that is true, or a conflict.
Outcome(l) ==
    \/ inv_asgn # NoLiteral /\ UNCHANGED conflictVars
    \/ inv_asgn = NoLiteral /\ UNCHANGED conflictVars /\ 0 < setTime'[EdgeOf(l)]
    \/ /\ inv_asgn = NoLiteral /\ isTrue(edges[EdgeOf(l)].neg)
       /\ Range(addedEdges') = Range(addedEdges) /\ UNCHANGED <<setTime, timestamp>>
       /\ inv_bpoint' = Len(backtrack_points) + 1 /\ inv_asgn' = l

\* The conflict, the literals and the graph agree after an assertion too.
LEMMA StackGrowsRight ==
    ASSUME StoreRight, StackRight, PointsOrdered, GraphRight, NEW l \in Literal, l.tr \in informed,
           PointAdded(l), GraphGrows(EdgeOf(l)), Outcome(l)
    PROVE  StackRight'
<1> DEFINE n == Len(stack)
           s == EdgeOf(l)
           Time(i) == setTime'[EdgeOf(stack'[i])]
<1>1. /\ n \in Nat /\ Len(backtrack_points) = n
      /\ DOMAIN stack = 1..n /\ DOMAIN stack' = 1..(n + 1)
      /\ DOMAIN backtrack_points = 1..n /\ DOMAIN backtrack_points' = 1..(n + 1)
      /\ \A i \in 1..n : stack'[i] = stack[i] /\ backtrack_points'[i] = backtrack_points[i]
      /\ stack'[n + 1] = l /\ backtrack_points'[n + 1] = timestamp
  BY EdgeOfLiteral, PointAddedRight
<1>2. /\ timestamp \in Nat
      /\ \A e \in DOMAIN edges : setTime[e] \in Nat /\ setTime[e] <= timestamp
      /\ \A e \in DOMAIN edges : 0 < setTime[e] => setTime'[e] = setTime[e]
  <2>1. timestamp \in Nat /\ \A e \in DOMAIN edges : setTime[e] \in Nat /\ setTime[e] <= timestamp
    BY GraphFacts
  <2> QED BY <2>1 DEF GraphGrows
<1>3. stack \in Seq(Literal) /\ \A i \in 1..n : stack[i] \in Literal /\ stack[i].tr \in informed
  <2>1. stack \in Seq(Literal)
    BY DEF PointsOrdered
  <2> QED BY <2>1, <1>1, ElementOfSeq DEF StackRight
<1>4. \A i \in 1..n : EdgeOf(stack[i]) \in DOMAIN edges
  BY <1>3, EdgeOfLiteral
<1>5. s \in DOMAIN edges /\ edges[s].neg \in DOMAIN edges
  BY EdgeOfLiteral
<1>6. \A i \in 1..(n + 1) : i = n + 1 \/ i \in 1..n
  BY <1>1
<1>7. inv_bpoint \in Nat /\ (inv_asgn # NoLiteral => inv_bpoint \in 1..n)
  BY <1>1 DEF StackRight
<1> HIDE DEF n
<1>8. inv_bpoint' \in Nat
  BY <1>1, <1>7 DEF Outcome, conflictVars
<1>9. \A i \in 1..(n + 1) : stack'[i].tr \in informed
  BY <1>1, <1>3, <1>6
<1>10. ASSUME NEW i \in 1..(n + 1), inv_asgn' = NoLiteral \/ i < inv_bpoint'
       PROVE  0 < Time(i) /\ \A k \in 1..(n + 1) : i < k => Time(i) <= backtrack_points'[k]
  <2>1. CASE i \in 1..n
    <3>1. inv_asgn = NoLiteral \/ i < inv_bpoint
      BY <1>10 DEF Outcome, conflictVars
    <3>2. /\ 0 < setTime[EdgeOf(stack[i])]
          /\ \A k \in 1..n : i < k => setTime[EdgeOf(stack[i])] <= backtrack_points[k]
      BY <2>1, <3>1, <1>1 DEF StackRight
    <3>3. Time(i) = setTime[EdgeOf(stack[i])] /\ Time(i) <= timestamp
      BY <2>1, <3>2, <1>1, <1>2, <1>4
    <3> HIDE DEF Time
    <3> QED BY <3>2, <3>3, <1>1, <1>6
  <2>2. CASE i = n + 1
    <3>1. Time(i) = setTime'[s]
      BY <2>2, <1>1
    <3>2. \A k \in 1..(n + 1) : ~ (i < k)
      BY <2>2, <1>1
    <3>3. inv_asgn = NoLiteral /\ UNCHANGED conflictVars /\ 0 < setTime'[s]
      <4>1. ~ (inv_asgn # NoLiteral /\ UNCHANGED conflictVars)
        <5> SUFFICES ASSUME inv_asgn # NoLiteral, UNCHANGED conflictVars PROVE FALSE
          OBVIOUS
        <5>1. inv_bpoint \in 1..n /\ inv_bpoint' = inv_bpoint /\ inv_asgn' # NoLiteral
          BY <1>7 DEF conflictVars
        <5> QED BY <5>1, <2>2, <1>1, <1>10
      <4>2. inv_asgn' # l \/ inv_bpoint' # n + 1
        <5>1. l # NoLiteral
          BY AtomsAssumption
        <5>2. ~ (n + 1 < n + 1)
          BY <1>1
        <5> QED BY <5>1, <5>2, <2>2, <1>10
      <4> QED BY <4>1, <4>2, <1>1 DEF Outcome
    <3> QED BY <3>1, <3>2, <3>3
  <2> QED BY <2>1, <2>2, <1>6
<1>11. ASSUME NEW g \in Range(addedEdges')
       PROVE  \E i \in 1..(n + 1) : EdgeOf(stack'[i]) = g /\ backtrack_points'[i] < setTime'[g]
  <2>1. CASE g \in Range(addedEdges)
    <3>1. PICK i \in 1..n : EdgeOf(stack[i]) = g /\ backtrack_points[i] < setTime[g]
      BY <2>1, <1>1 DEF StackRight
    <3>2. setTime'[g] = setTime[g]
      BY <2>1, <1>2, GraphFacts
    <3>3. i \in 1..(n + 1)
      BY <1>1
    <3> QED BY <3>1, <3>2, <3>3, <1>1
  <2>2. CASE g \notin Range(addedEdges)
    <3>1. g = s /\ timestamp < setTime'[s]
      BY <2>2 DEF GraphGrows
    <3>2. n + 1 \in 1..(n + 1)
      BY <1>1
    <3> QED BY <3>1, <3>2, <1>1
  <2> QED BY <2>1, <2>2
<1>12. ASSUME inv_asgn' # NoLiteral
       PROVE  /\ inv_bpoint' \in 1..(n + 1) /\ stack'[inv_bpoint'] = inv_asgn'
              /\ 0 < setTime'[edges[EdgeOf(inv_asgn')].neg]
              /\ setTime'[edges[EdgeOf(inv_asgn')].neg] <= backtrack_points'[inv_bpoint']
  <2>1. CASE inv_asgn # NoLiteral /\ UNCHANGED conflictVars
    <3> DEFINE d == edges[EdgeOf(inv_asgn)].neg
    <3>1. /\ inv_bpoint \in 1..n /\ stack[inv_bpoint] = inv_asgn
          /\ 0 < setTime[d] /\ setTime[d] <= backtrack_points[inv_bpoint]
      BY <2>1, <1>1 DEF StackRight
    <3>2. d \in DOMAIN edges
      <4>1. inv_asgn \in Literal /\ inv_asgn.tr \in informed
        BY <3>1, <1>3
      <4> QED BY <4>1, EdgeOfLiteral
    <3>3. setTime'[d] = setTime[d]
      BY <3>1, <3>2, <1>2
    <3>4. inv_bpoint' = inv_bpoint /\ inv_asgn' = inv_asgn /\ inv_bpoint \in 1..(n + 1)
      BY <2>1, <3>1, <1>1 DEF conflictVars
    <3> HIDE DEF d
    <3>5. edges[EdgeOf(inv_asgn')].neg = d
      BY <3>4 DEF d
    <3> QED BY <3>1, <3>3, <3>4, <3>5, <1>1
  <2>2. CASE inv_asgn = NoLiteral
    <3>1. /\ isTrue(edges[s].neg) /\ UNCHANGED <<setTime, timestamp>>
          /\ inv_bpoint' = n + 1 /\ inv_asgn' = l
      BY <2>2, <1>12, <1>1 DEF Outcome, conflictVars
    <3>2. n + 1 \in 1..(n + 1)
      BY <1>1
    <3> DEFINE d == edges[s].neg
    <3>3. 0 < setTime[d] /\ setTime[d] <= timestamp /\ setTime'[d] = setTime[d]
      BY <3>1, <1>2, <1>5 DEF isTrue
    <3>4. edges[EdgeOf(inv_asgn')].neg = d
      BY <3>1
    <3> HIDE DEF d
    <3> QED BY <3>1, <3>2, <3>3, <3>4, <1>1
  <2> QED BY <2>1, <2>2, <1>12 DEF Outcome
<1>13. informed' = informed /\ edges' = edges /\ leqToEdge' = leqToEdge
  BY DEF PointAdded
<1> QED BY <1>1, <1>8, <1>9, <1>10, <1>11, <1>12, <1>13 DEF StackRight, EdgeOf

\* What an assertion does to the list of deductions.
DeductionsGrow ==
    /\ th_deductions' \in Seq(Literal) /\ Len(th_deductions) <= Len(th_deductions')
    /\ \A j \in 1..Len(th_deductions) : th_deductions'[j] = th_deductions[j]
    /\ \A j \in 1..Len(th_deductions') :
          Len(th_deductions) < j =>
              th_deductions'[j].tr \in informed /\ 0 < setTime'[EdgeOf(th_deductions'[j])]
    /\ polarity' \subseteq {th_deductions'[j].tr : j \in DOMAIN th_deductions'}
    /\ \A e \in deductions' \ deductions : e \in DOMAIN edges /\ timestamp < setTime'[e]
    /\ \A l \in Literal :
          Known(l) /\ EdgeOf(l) \in deductions' \ deductions => \E j \in DOMAIN th_deductions' : th_deductions'[j] = l

\* The deductions stay in the order of the marks, and all of them are still listed.
LEMMA DeductionsGrowRight ==
    ASSUME StoreRight, MarksOrdered, DeductionsKept, PointsOrdered, GraphRight, NEW a \in Literal,
           PointAdded(a), NEW s \in DOMAIN edges, GraphGrows(s), DeductionsGrow
    PROVE  MarksOrdered' /\ DeductionsKept'
<1> DEFINE n == Len(backtrack_points)
           m == Len(th_deductions)
           m2 == Len(th_deductions')
           Lim(i) == deductions_marks'[i].lim
           Time(j) == setTime'[EdgeOf(th_deductions'[j])]
<1>1. /\ n \in Nat
      /\ DOMAIN backtrack_points = 1..n /\ DOMAIN backtrack_points' = 1..(n + 1)
      /\ \A i \in 1..n : backtrack_points'[i] = backtrack_points[i]
      /\ backtrack_points'[n + 1] = timestamp
      /\ Len(backtrack_points') = n + 1
  <2>1. PointsOrdered'
    BY PointAddedRight
  <2>2. backtrack_points' \in Seq(Nat)
    BY <2>1 DEF PointsOrdered
  <2>3. /\ n \in Nat
        /\ DOMAIN backtrack_points = 1..n /\ DOMAIN backtrack_points' = 1..(n + 1)
        /\ \A i \in 1..n : backtrack_points'[i] = backtrack_points[i]
        /\ backtrack_points'[n + 1] = timestamp
    BY PointAddedRight
  <2> HIDE DEF n
  <2>4. Len(backtrack_points') \in Nat /\ DOMAIN backtrack_points' = 1..Len(backtrack_points')
    BY <2>2, LenProperties
  <2>5. Len(backtrack_points') = n + 1
    BY <2>3, <2>4
  <2> QED BY <2>3, <2>5
<1>2. /\ timestamp \in Nat
      /\ \A e \in DOMAIN edges : setTime[e] \in Nat /\ setTime[e] <= timestamp
      /\ \A e \in DOMAIN edges : setTime'[e] \in Nat
      /\ \A e \in DOMAIN edges : 0 < setTime[e] => setTime'[e] = setTime[e]
  <2>1. timestamp \in Nat /\ \A e \in DOMAIN edges : setTime[e] \in Nat /\ setTime[e] <= timestamp
    BY GraphFacts
  <2> QED BY <2>1 DEF GraphGrows
<1>3. /\ th_deductions \in Seq(Literal) /\ m \in Nat /\ DOMAIN th_deductions = 1..m
      /\ th_deductions' \in Seq(Literal) /\ m2 \in Nat /\ DOMAIN th_deductions' = 1..m2
      /\ m <= m2 /\ \A j \in 1..m : th_deductions'[j] = th_deductions[j]
  BY LenProperties DEF MarksOrdered, DeductionsGrow
<1>4. \A j \in 1..m : th_deductions[j] \in Literal
  BY <1>3, ElementOfSeq
<1>5. /\ deductions_marks' \in Seq([lim : Nat, next : Nat]) /\ Len(deductions_marks') = n + 1
      /\ Len(deductions_marks) = n /\ DOMAIN deductions_marks = 1..n /\ DOMAIN deductions_marks' = 1..(n + 1)
      /\ \A i \in 1..n : deductions_marks'[i] = deductions_marks[i]
      /\ deductions_marks'[n + 1].lim = m
  <2>1. deductions_marks \in Seq([lim : Nat, next : Nat]) /\ Len(deductions_marks) = n /\ deductions_next \in Nat
    BY DEF MarksOrdered
  <2>2. Mark \in [lim : Nat, next : Nat] /\ Mark.lim = m
    BY <2>1, <1>3 DEF Mark
  <2>3. deductions_marks' = Append(deductions_marks, Mark)
    BY DEF PointAdded
  <2> HIDE DEF m, n
  <2> QED BY <2>1, <2>2, <2>3, AppendRange
<1>6. \A i \in 1..(n + 1) : i = n + 1 \/ i \in 1..n
  BY <1>1
<1>7. \A i \in 1..n : /\ Lim(i) = deductions_marks[i].lim /\ Lim(i) \in Nat /\ Lim(i) <= m
  <2>1. \A i \in 1..n : deductions_marks[i] \in [lim : Nat, next : Nat]
    BY <1>5, ElementOfSeq DEF MarksOrdered
  <2> QED BY <2>1, <1>5 DEF MarksOrdered
<1>8. Lim(n + 1) = m
  BY <1>5
<1>9. \A i, j \in 1..n : i <= j => Lim(i) <= Lim(j)
  BY <1>5 DEF MarksOrdered
<1>10. Lim(1) = 0
  <2>1. CASE n = 0
    <3>1. deductions_marks = <<>>
      BY <2>1, <1>5, EmptySeq DEF MarksOrdered
    <3>2. th_deductions = <<>>
      BY <3>1 DEF MarksOrdered
    <3>3. m = 0 /\ 1 = n + 1
      BY <2>1, <3>2, EmptySeq
    <3> QED BY <3>3, <1>8
  <2>2. CASE n # 0
    <3>1. 1 \in 1..n
      BY <2>2, <1>1
    <3>2. deductions_marks # <<>>
      BY <3>1, <1>5
    <3> QED BY <3>1, <3>2, <1>7 DEF MarksOrdered
  <2> QED BY <2>1, <2>2
<1>11. deductions_marks' # <<>>
  <2>1. 1 \in 1..(n + 1)
    BY <1>1
  <2> QED BY <2>1, <1>5
<1>12. MarksOrdered'
  <2>1. deductions_next' \in Nat
    BY DEF PointAdded, MarksOrdered
  <2> HIDE DEF Lim, n, m, m2
  <2>2. \A i \in 1..(n + 1) : Lim(i) <= m2
    BY <1>3, <1>6, <1>7, <1>8
  <2>3. \A i, j \in 1..(n + 1) : i <= j => Lim(i) <= Lim(j)
    <3> SUFFICES ASSUME NEW i \in 1..(n + 1), NEW j \in 1..(n + 1), i <= j PROVE Lim(i) <= Lim(j)
      OBVIOUS
    <3>1. CASE j = n + 1
      BY <3>1, <1>3, <1>6, <1>7, <1>8
    <3>2. CASE j # n + 1
      <4>1. j \in 1..n /\ i \in 1..n
        BY <3>2, <1>1
      <4> QED BY <4>1, <1>9
    <3> QED BY <3>1, <3>2
  <2> QED BY <2>1, <2>2, <2>3, <1>1, <1>3, <1>5, <1>10, <1>11 DEF MarksOrdered, Lim, m2
<1>13. \A j \in 1..m : /\ EdgeOf(th_deductions[j]) \in DOMAIN edges /\ th_deductions[j].tr \in informed
                       /\ 0 < setTime[EdgeOf(th_deductions[j])]
                       /\ \A i \in 1..n : j <= deductions_marks[i].lim
                                              => setTime[EdgeOf(th_deductions[j])] <= backtrack_points[i]
  BY <1>3, <1>4, <1>5, EdgeOfLiteral DEF DeductionsKept
<1>14. ASSUME NEW j \in 1..m2
       PROVE  /\ th_deductions'[j].tr \in informed /\ 0 < Time(j)
              /\ \A i \in 1..(n + 1) : j <= Lim(i) => Time(j) <= backtrack_points'[i]
  <2>1. CASE j \in 1..m
    <3>1. th_deductions'[j] = th_deductions[j]
      BY <2>1, <1>3
    <3>2. Time(j) = setTime[EdgeOf(th_deductions[j])] /\ Time(j) <= timestamp /\ 0 < Time(j)
      BY <2>1, <3>1, <1>2, <1>13
    <3>3. ASSUME NEW i \in 1..(n + 1), j <= Lim(i) PROVE Time(j) <= backtrack_points'[i]
      <4> HIDE DEF Time
      <4>1. CASE i = n + 1
        BY <4>1, <3>2, <1>1
      <4>2. CASE i \in 1..n
        BY <4>2, <2>1, <3>2, <3>3, <1>1, <1>7, <1>13
      <4> QED BY <4>1, <4>2, <1>6
    <3> QED BY <2>1, <3>1, <3>2, <3>3, <1>13
  <2>2. CASE j \notin 1..m
    <3>1. m < j
      BY <2>2, <1>3
    <3>2. th_deductions'[j].tr \in informed /\ 0 < Time(j)
      BY <3>1 DEF DeductionsGrow
    <3>3. \A i \in 1..(n + 1) : ~ (j <= Lim(i))
      <4> HIDE DEF Lim
      <4> QED BY <3>1, <1>3, <1>6, <1>7, <1>8
    <3> QED BY <3>2, <3>3
  <2> QED BY <2>1, <2>2
<1>15. \A e \in deductions' : e \in DOMAIN edges /\ 0 < setTime'[e]
  <2> SUFFICES ASSUME NEW e \in deductions' PROVE e \in DOMAIN edges /\ 0 < setTime'[e]
    OBVIOUS
  <2>1. CASE e \in deductions
    BY <2>1, <1>2 DEF DeductionsKept
  <2>2. CASE e \notin deductions
    <3>1. e \in DOMAIN edges /\ timestamp < setTime'[e]
      BY <2>2 DEF DeductionsGrow
    <3> QED BY <3>1, <1>2
  <2> QED BY <2>1, <2>2
<1>16. ASSUME NEW l \in Literal, Known(l), EdgeOf(l) \in deductions'
       PROVE  /\ \E j \in 1..m2 : th_deductions'[j] = l
              /\ \A i \in 1..(n + 1) : setTime'[EdgeOf(l)] <= backtrack_points'[i]
                                          => \E j \in 1..Lim(i) : th_deductions'[j] = l
  <2>1. CASE EdgeOf(l) \in deductions
    <3>1. PICK j \in 1..m : th_deductions[j] = l
      BY <2>1, <1>3, <1>16 DEF DeductionsKept
    <3>2. j \in 1..m2 /\ th_deductions'[j] = l
      BY <3>1, <1>3
    <3>3. setTime'[EdgeOf(l)] = setTime[EdgeOf(l)]
      BY <2>1, <1>2 DEF DeductionsKept
    <3>4. ASSUME NEW i \in 1..(n + 1), setTime'[EdgeOf(l)] <= backtrack_points'[i]
          PROVE  \E k \in 1..Lim(i) : th_deductions'[k] = l
      <4>1. CASE i = n + 1
        BY <4>1, <3>1, <3>2, <1>8
      <4>2. CASE i \in 1..n
        <5>1. setTime[EdgeOf(l)] <= backtrack_points[i]
          BY <4>2, <3>3, <3>4, <1>1
        <5>2. PICK k \in 1..deductions_marks[i].lim : th_deductions[k] = l
          BY <4>2, <5>1, <2>1, <1>5, <1>16 DEF DeductionsKept
        <5>3. k \in 1..m /\ k \in 1..Lim(i)
          <6> HIDE DEF Lim
          <6> QED BY <4>2, <5>2, <1>3, <1>7
        <5> QED BY <5>2, <5>3, <1>3
      <4> QED BY <4>1, <4>2, <1>6
    <3> QED BY <3>2, <3>4
  <2>2. CASE EdgeOf(l) \notin deductions
    <3>1. \E j \in 1..m2 : th_deductions'[j] = l
      BY <2>2, <1>3, <1>16 DEF DeductionsGrow
    <3>2. EdgeOf(l) \in DOMAIN edges /\ timestamp < setTime'[EdgeOf(l)]
      BY <2>2, <1>16 DEF DeductionsGrow
    <3>3. setTime'[EdgeOf(l)] \in Nat
      BY <3>2, <1>2
    <3>4. \A i \in 1..(n + 1) : backtrack_points'[i] \in Nat /\ backtrack_points'[i] <= timestamp
      <4>1. \A i \in 1..n : backtrack_points[i] \in Nat /\ backtrack_points[i] <= timestamp
        BY <1>1, ElementOfSeq, SMTT(30) DEF PointsOrdered
      <4> QED BY <4>1, <1>1, <1>2, <1>6
    <3>5. \A i \in 1..(n + 1) : ~ (setTime'[EdgeOf(l)] <= backtrack_points'[i])
      BY <3>2, <3>3, <3>4, <1>2
    <3> QED BY <3>1, <3>5
  <2> QED BY <2>1, <2>2
<1>17. polarity' \subseteq {th_deductions'[j].tr : j \in DOMAIN th_deductions'}
  BY DEF DeductionsGrow
<1>18. informed' = informed /\ edges' = edges /\ leqToEdge' = leqToEdge /\ edgeToLeq' = edgeToLeq
  BY SMTT(30) DEF PointAdded
<1>19. /\ \A x : EdgeOf(x)' = EdgeOf(x)
       /\ \A x : Known(x)' <=> Known(x)
  BY <1>18, SMTT(30) DEF EdgeOf, Known
<1> HIDE DEF n
<1>20. DeductionsKept'
  BY <1>3, <1>5, <1>14, <1>15, <1>16, <1>17, <1>18, <1>19 DEF DeductionsKept, EdgeOf, Known, m2
<1> QED BY <1>12, <1>20

\* The part of an assertion that adds an edge to the graph.
EdgeAdded(s, found) ==
    /\ timestamp' = timestamp + 1
    /\ addedEdges' = Append(addedEdges, s)
    /\ setTime' = [e \in DOMAIN edges |-> IF e \in found \cup {s} THEN timestamp + 1 ELSE setTime[e]]
    /\ UNCHANGED <<edges, leqToEdge, edgeToLeq, informed>>

\* An edge that joins the graph, with what it implies, becomes true at a new time.
LEMMA EdgeAddedGrows ==
    ASSUME GraphRight, NEW s \in DOMAIN edges, setTime[s] = 0, NEW found, \A f \in found : setTime[f] = 0,
           EdgeAdded(s, found)
    PROVE  /\ GraphGrows(s)
           /\ \A e \in DOMAIN edges : setTime'[e] = IF e \in found \/ e = s THEN timestamp + 1 ELSE setTime[e]
<1>1. timestamp \in Nat /\ \A e \in DOMAIN edges : setTime[e] \in Nat /\ setTime[e] <= timestamp
  BY GraphFacts
<1>2. \A e \in DOMAIN edges : setTime'[e] = IF e \in found \/ e = s THEN timestamp + 1 ELSE setTime[e]
  BY DEF EdgeAdded
<1>3. setTime' \in [DOMAIN edges -> Nat]
  BY <1>1 DEF EdgeAdded
<1>4. timestamp' \in Nat /\ timestamp <= timestamp' /\ timestamp < setTime'[s]
  BY <1>1, <1>2 DEF EdgeAdded
<1>5. Range(addedEdges') = Range(addedEdges) \cup {s}
  BY GraphFacts, AppendRange DEF EdgeAdded
<1>6. \A e \in DOMAIN edges : setTime[e] # 0 => setTime'[e] = setTime[e]
  BY <1>2
<1> QED BY <1>2, <1>3, <1>4, <1>5, <1>6 DEF GraphGrows

\* The graph is right with the new edge: at the new time and at every earlier one.
LEMMA EdgeAddedRight ==
    ASSUME AllAssignments, StoreRight, GraphRight, NEW s \in DOMAIN edges,
           ~ isTrue(s), ~ isTrue(edges[s].neg), Consequences(s, Append(addedEdges, s)).inRange,
           EdgeAdded(s, Consequences(s, Append(addedEdges, s)).found)
    PROVE  GraphRight'
<1> DEFINE found == Consequences(s, Append(addedEdges, s)).found
           time == timestamp + 1
           Both(m) == (\A g \in Range(addedEdges) : Obeys(m, g)) /\ Obeys(m, s)
<1>1. /\ \A f \in found : f \in DOMAIN edges /\ setTime[f] = 0 /\ f # s
      /\ \E m \in Assignments : Both(m)
      /\ \A e \in DOMAIN edges :
            (setTime[e] # 0 \/ e \in found \/ e = s) <=> \A m \in Assignments : Both(m) => Obeys(m, e)
  BY NewEdge
<1> HIDE DEF found, Both
<1>2. setTime[s] = 0 /\ EdgeAdded(s, found)
  BY DEF isTrue, found
<1>3. /\ GraphGrows(s)
      /\ \A e \in DOMAIN edges : setTime'[e] = IF e \in found \/ e = s THEN time ELSE setTime[e]
  BY <1>1, <1>2, EdgeAddedGrows
<1>4. /\ timestamp \in Nat /\ timestamp' = time /\ edges' = edges
      /\ \A e \in DOMAIN edges : setTime[e] \in Nat /\ setTime[e] <= timestamp
      /\ \A g \in Range(addedEdges) : g \in DOMAIN edges /\ 0 < setTime[g] /\ setTime[g] <= timestamp
  BY <1>2, GraphFacts DEF EdgeAdded
<1>5. time \in Nat /\ timestamp < time
  BY <1>4
<1> DEFINE n == Len(addedEdges)
<1>6. /\ addedEdges' \in Seq(DOMAIN edges) /\ Len(addedEdges') = n + 1 /\ n \in Nat
      /\ DOMAIN addedEdges' = 1..(n + 1) /\ DOMAIN addedEdges = 1..n
      /\ \A i \in 1..n : addedEdges'[i] = addedEdges[i]
      /\ addedEdges'[n + 1] = s
      /\ Range(addedEdges') = Range(addedEdges) \cup {s}
  BY <1>2, GraphFacts, AppendRange DEF EdgeAdded
<1>7. setTime' \in [DOMAIN edges -> Nat] /\ \A e \in DOMAIN edges : setTime'[e] \in Nat /\ setTime'[e] <= time
  <2>1. setTime' \in [DOMAIN edges -> Nat]
    BY <1>3 DEF GraphGrows
  <2> HIDE DEF time
  <2>2. \A e \in DOMAIN edges : setTime'[e] <= time
    BY <1>3, <1>4, <1>5
  <2> QED BY <2>1, <2>2
<1>8. /\ \A g \in Range(addedEdges) : setTime'[g] = setTime[g]
      /\ setTime'[s] = time
  BY <1>1, <1>2, <1>3, <1>4
<1> HIDE DEF n, time
<1>9. \A i \in 1..n : addedEdges[i] \in Range(addedEdges)
  BY <1>6 DEF Range
<1>10. TimesOrdered'
  <2>1. IsList(addedEdges)'
    BY <1>4, <1>6 DEF IsList
  <2>2. \A i \in 1..(n + 1) : i = n + 1 \/ i \in 1..n
    BY <1>6
  <2>3. \A i \in 1..n : /\ setTime'[addedEdges'[i]] = setTime[addedEdges[i]]
                        /\ 0 < setTime[addedEdges[i]] /\ setTime[addedEdges[i]] <= timestamp
                        /\ setTime[addedEdges[i]] \in Nat
    BY <1>4, <1>6, <1>8, <1>9
  <2>4. setTime'[addedEdges'[n + 1]] = time
    BY <1>6, <1>8
  <2>5. \A i \in 1..(n + 1) : 0 < setTime'[addedEdges'[i]]
    <3>1. 0 < time
      BY <1>4, <1>5
    <3> QED BY <3>1, <2>2, <2>3, <2>4
  <2>6. ASSUME NEW i \in 1..(n + 1), NEW j \in 1..(n + 1), i < j
        PROVE  setTime'[addedEdges'[i]] < setTime'[addedEdges'[j]]
    <3>1. i \in 1..n
      BY <2>6, <1>6
    <3>2. CASE j = n + 1
      BY <3>1, <3>2, <2>3, <2>4, <1>4, <1>5
    <3>3. CASE j # n + 1
      <4>1. j \in 1..n
        BY <3>3, <1>6
      <4>2. setTime[addedEdges[i]] < setTime[addedEdges[j]]
        BY <3>1, <4>1, <2>6, <1>6 DEF GraphRight, TimesOrdered
      <4> QED BY <3>1, <4>1, <4>2, <2>3
    <3> QED BY <3>2, <3>3
  <2> QED BY <2>1, <2>4, <2>5, <2>6, <1>4, <1>5, <1>6, <1>7 DEF TimesOrdered
<1>11. \A m, e : Obeys(m, e)' <=> Obeys(m, e)
  BY <1>4 DEF Obeys, Holds, OfEdge
<1> DEFINE Later(m, t) == \A g \in Range(addedEdges) \cup {s} : setTime'[g] <= t => Obeys(m, g)
<1>12. \A m, t : ObeysUntil(m, t)' <=> Later(m, t)
  BY <1>6, <1>11 DEF ObeysUntil
<1>13. ASSUME NEW m, NEW t \in 0..timestamp PROVE Later(m, t) <=> ObeysUntil(m, t)
  <2>1. ~ (setTime'[s] <= t)
    BY <1>4, <1>5, <1>8
  <2> QED BY <2>1, <1>8 DEF ObeysUntil
<1>14. ASSUME NEW m PROVE Later(m, time) <=> Both(m)
  <2>1. \A g \in Range(addedEdges) \cup {s} : setTime'[g] <= time
    BY <1>4, <1>7
  <2> QED BY <2>1 DEF Both
<1> HIDE DEF Later
<1>15. TimesExact'
  <2>1. ASSUME NEW e \in DOMAIN edges, NEW t \in 0..timestamp
        PROVE  (0 < setTime'[e] /\ setTime'[e] <= t) <=> \A m \in Assignments : Later(m, t) => Obeys(m, e)
    <3>1. (0 < setTime'[e] /\ setTime'[e] <= t) <=> (0 < setTime[e] /\ setTime[e] <= t)
      <4>1. t < time /\ t \in Nat
        BY <1>4, <1>5
      <4>2. CASE e \in found \/ e = s
        <5>1. setTime'[e] = time /\ setTime[e] = 0
          BY <4>2, <1>1, <1>2, <1>3
        <5> QED BY <4>1, <5>1, <1>5
      <4>3. CASE ~ (e \in found \/ e = s)
        BY <4>3, <1>3
      <4> QED BY <4>2, <4>3
    <3>2. (0 < setTime[e] /\ setTime[e] <= t) <=> \A m \in Assignments : ObeysUntil(m, t) => Obeys(m, e)
      BY DEF GraphRight, TimesExact
    <3> QED BY <3>1, <3>2, <1>13
  <2>2. ASSUME NEW e \in DOMAIN edges
        PROVE  (0 < setTime'[e] /\ setTime'[e] <= time)
                   <=> \A m \in Assignments : Later(m, time) => Obeys(m, e)
    <3>1. (0 < setTime'[e] /\ setTime'[e] <= time) <=> (setTime[e] # 0 \/ e \in found \/ e = s)
      <4>1. 0 < time
        BY <1>4, <1>5
      <4> QED BY <4>1, <1>3, <1>4, <1>5, <1>7
    <3> QED BY <3>1, <1>1, <1>14
  <2>3. \A t \in 0..time : t \in 0..timestamp \/ t = time
    BY <1>4 DEF time
  <2>4. ASSUME NEW e \in DOMAIN edges, NEW t \in 0..time
        PROVE  (0 < setTime'[e] /\ setTime'[e] <= t) <=> \A m \in Assignments : Later(m, t) => Obeys(m, e)
    BY <2>1, <2>2, <2>3
  <2> HIDE DEF found
  <2>5. timestamp' = time
    BY <1>4 DEF time
  <2> QED BY <2>4, <2>5, <1>4, <1>11, <1>12 DEF TimesExact
<1>16. \E m \in Assignments : Later(m, time)
  BY <1>1, <1>14
<1>17. (\E m \in Assignments : ObeysUntil(m, timestamp))'
  <2>1. timestamp' = time
    BY <1>4 DEF time
  <2>2. \A m : (ObeysUntil(m, timestamp))' <=> Later(m, timestamp')
    BY <1>6, <1>11 DEF ObeysUntil, Later
  <2> QED BY <2>1, <2>2, <1>16
<1> QED BY <1>10, <1>15, <1>17 DEF GraphRight

\* The literal of an edge that has an atom of its own.
LEMMA LiteralOfEdge ==
    ASSUME StoreRight, NEW e \in DOMAIN edges, edgeToLeq[e] # NoLiteral, NEW sgn \in BOOLEAN
    PROVE  LET l == [tr |-> edgeToLeq[e], sgn |-> sgn]
           IN  /\ l \in Literal /\ l.tr \in informed
               /\ EdgeOf(l) = IF sgn THEN e ELSE edges[e].neg
<1> DEFINE l == [tr |-> edgeToLeq[e], sgn |-> sgn]
<1>1. edgeToLeq[e] \in informed /\ informed \subseteq Atoms /\ leqToEdge[edgeToLeq[e]] = e
  BY DEF StoreRight
<1>2. l \in Literal /\ l.tr = edgeToLeq[e] /\ l.sgn = sgn
  BY <1>1 DEF Literal
<1> HIDE DEF l
<1>3. EdgeOf(l) = IF sgn THEN e ELSE edges[e].neg
  BY <1>1, <1>2 DEF EdgeOf
<1> QED BY <1>1, <1>2, <1>3 DEF l

\* What storeDeduction() is called with: literals of the edge that is set and of those it implies, and
\* among them every one of an atom that has no polarity yet.
LEMMA NewDeductionsRight ==
    ASSUME StoreRight, NEW s \in DOMAIN edges, NEW found, found \subseteq DOMAIN edges
    PROVE  LET lits == NewDeductions(s, found)
           IN  /\ lits \in Seq(Literal)
               /\ \A i \in DOMAIN lits : lits[i].tr \in informed /\ EdgeOf(lits[i]) \in found \cup {s}
               /\ \A l \in Literal : Known(l) /\ EdgeOf(l) \in found /\ l.tr \notin polarity
                     => \E i \in DOMAIN lits : lits[i] = l
<1> DEFINE Of(e, sgn) == IF edgeToLeq[e] = NoLiteral THEN {} ELSE {[tr |-> edgeToLeq[e], sgn |-> sgn]}
           Both(e) == Of(e, TRUE) \cup Of(edges[e].neg, FALSE)
           implied == UNION {Both(e) : e \in found}
           A == Of(edges[s].neg, FALSE)
           B == {l \in implied : l.tr \notin polarity}
           p == SetToSeq(A)
           q == SetToSeq(B)
           lits == NewDeductions(s, found)
<1>1. \A e \in DOMAIN edges : edges[e].neg \in DOMAIN edges /\ edges[edges[e].neg].neg = e
  BY DEF StoreRight, NegationRight
<1>2. \A e \in DOMAIN edges : \A x \in Of(e, TRUE) : x \in Literal /\ x.tr \in informed /\ EdgeOf(x) = e
  BY LiteralOfEdge
<1>3. \A e \in DOMAIN edges :
          \A x \in Of(edges[e].neg, FALSE) : x \in Literal /\ x.tr \in informed /\ EdgeOf(x) = e
  BY <1>1, LiteralOfEdge
<1>4. \A x \in A : x \in Literal /\ x.tr \in informed /\ EdgeOf(x) \in found \cup {s}
  BY <1>3
<1>5. \A x \in B : x \in Literal /\ x.tr \in informed /\ EdgeOf(x) \in found \cup {s}
  <2> SUFFICES ASSUME NEW x \in B PROVE x \in Literal /\ x.tr \in informed /\ EdgeOf(x) \in found \cup {s}
    OBVIOUS
  <2>1. PICK e \in found : x \in Of(e, TRUE) \cup Of(edges[e].neg, FALSE)
    OBVIOUS
  <2> HIDE DEF Of
  <2> QED BY <2>1, <1>2, <1>3, ZenonT(60)
<1>6. lits = p \o q
  BY DEF NewDeductions
<1>7. ASSUME NEW l \in Literal, Known(l), EdgeOf(l) \in found, l.tr \notin polarity PROVE l \in B
  <2> DEFINE e == EdgeOf(l)
  <2>1. l = [tr |-> l.tr, sgn |-> l.sgn] /\ l.sgn \in BOOLEAN /\ l.tr \in informed
    BY <1>7 DEF Literal, Known
  <2>2. leqToEdge[l.tr] \in DOMAIN edges /\ edgeToLeq[leqToEdge[l.tr]] = l.tr /\ l.tr # NoLiteral
    BY <2>1, <1>7, AtomsAssumption DEF StoreRight, Known
  <2>3. CASE l.sgn
    <3>1. e = leqToEdge[l.tr]
      BY <2>3 DEF EdgeOf
    <3>2. l \in Of(e, TRUE)
      BY <3>1, <2>1, <2>2, <2>3
    <3> HIDE DEF Of, e
    <3>3. e \in found /\ l \in Both(e)
      BY <3>2, <1>7 DEF e
    <3> HIDE DEF Both
    <3>4. l \in implied
      BY <3>3
    <3> HIDE DEF implied
    <3> QED BY <3>4, <1>7
  <2>4. CASE ~ l.sgn
    <3>1. edges[e].neg = leqToEdge[l.tr]
      BY <2>2, <2>4, <1>1 DEF EdgeOf
    <3>2. l \in Of(edges[e].neg, FALSE)
      BY <3>1, <2>1, <2>2, <2>4
    <3> HIDE DEF Of, e
    <3>3. e \in found /\ l \in Both(e)
      BY <3>2, <1>7 DEF e
    <3> HIDE DEF Both
    <3>4. l \in implied
      BY <3>3
    <3> HIDE DEF implied
    <3> QED BY <3>4, <1>7
  <2> QED BY <2>1, <2>3, <2>4
<1> HIDE DEF A, B, p, q, lits
<1>8. A \in SUBSET Literal /\ B \in SUBSET Literal
  BY <1>4, <1>5
<1>9. /\ p \in Seq(A) /\ q \in Seq(B) /\ p \in Seq(Literal) /\ q \in Seq(Literal)
      /\ \A x \in B : \E i \in DOMAIN q : q[i] = x
  <2>1. p \in Seq(A) /\ q \in Seq(B) /\ \A x \in B : \E i \in DOMAIN q : q[i] = x
    BY <1>8, LiteralsFinite, Listed DEF p, q
  <2> QED BY <2>1, <1>8
<1>10. /\ Len(p) \in Nat /\ DOMAIN p = 1..Len(p) /\ \A i \in 1..Len(p) : p[i] \in A
       /\ Len(q) \in Nat /\ DOMAIN q = 1..Len(q) /\ \A i \in 1..Len(q) : q[i] \in B
  <2>1. Len(p) \in Nat /\ DOMAIN p = 1..Len(p)
    BY <1>9, LenProperties
  <2>2. Len(q) \in Nat /\ DOMAIN q = 1..Len(q)
    BY <1>9, LenProperties
  <2> QED BY <2>1, <2>2, <1>9, ElementOfSeq
<1>11. /\ lits \in Seq(Literal) /\ DOMAIN lits = 1..(Len(p) + Len(q))
       /\ \A i \in 1..(Len(p) + Len(q)) : lits[i] = IF i <= Len(p) THEN p[i] ELSE q[i - Len(p)]
  <2>1. /\ lits \in Seq(Literal) /\ Len(lits) = Len(p) + Len(q)
        /\ \A i \in 1..(Len(p) + Len(q)) : lits[i] = IF i <= Len(p) THEN p[i] ELSE q[i - Len(p)]
    BY <1>6, <1>9, ConcatProperties
  <2>2. DOMAIN lits = 1..Len(lits)
    BY <2>1, LenProperties
  <2> QED BY <2>1, <2>2
<1>12. ASSUME NEW i \in DOMAIN lits PROVE lits[i] \in A \/ lits[i] \in B
  <2>1. CASE i <= Len(p)
    <3>1. i \in 1..Len(p) /\ lits[i] = p[i]
      BY <2>1, <1>10, <1>11
    <3> QED BY <3>1, <1>10
  <2>2. CASE ~ (i <= Len(p))
    <3>1. i - Len(p) \in 1..Len(q) /\ lits[i] = q[i - Len(p)]
      BY <2>2, <1>10, <1>11
    <3> QED BY <3>1, <1>10
  <2> QED BY <2>1, <2>2
<1>13. ASSUME NEW x \in B PROVE \E i \in DOMAIN lits : lits[i] = x
  <2>1. PICK k \in 1..Len(q) : q[k] = x
    BY <1>9, <1>10
  <2>2. Len(p) + k \in 1..(Len(p) + Len(q)) /\ ~ (Len(p) + k <= Len(p)) /\ Len(p) + k - Len(p) = k
    BY <2>1, <1>10
  <2>3. lits[Len(p) + k] = x
    BY <2>1, <2>2, <1>11
  <2> QED BY <2>2, <2>3, <1>11
<1>14. \A i \in DOMAIN lits : lits[i].tr \in informed /\ EdgeOf(lits[i]) \in found \cup {s}
  BY <1>4, <1>5, <1>12
<1> QED BY <1>7, <1>11, <1>13, <1>14 DEF lits

\* storeDeduction() for the consequences of an edge that joins the graph.
LEMMA DeductionsFollow ==
    ASSUME AllAssignments, StoreRight, GraphRight, MarksOrdered, DeductionsKept, NEW s \in DOMAIN edges,
           ~ isTrue(s), ~ isTrue(edges[s].neg), Consequences(s, Append(addedEdges, s)).inRange,
           EdgeAdded(s, Consequences(s, Append(addedEdges, s)).found),
           deductions' = deductions \cup Consequences(s, Append(addedEdges, s)).found,
           StoreDeductions(NewDeductions(s, Consequences(s, Append(addedEdges, s)).found))
    PROVE  DeductionsGrow
<1> DEFINE found == Consequences(s, Append(addedEdges, s)).found
           lits == NewDeductions(s, found)
           Both(m) == (\A g \in Range(addedEdges) : Obeys(m, g)) /\ Obeys(m, s)
           n == Len(th_deductions)
<1>1. /\ \A f \in found : f \in DOMAIN edges /\ setTime[f] = 0 /\ f # s
      /\ \E m \in Assignments : Both(m)
      /\ \A e \in DOMAIN edges :
            (setTime[e] # 0 \/ e \in found \/ e = s) <=> \A m \in Assignments : Both(m) => Obeys(m, e)
  BY NewEdge
<1>2. /\ th_deductions' = th_deductions \o lits
      /\ polarity' = polarity \cup {lits[i].tr : i \in DOMAIN lits}
      /\ deductions' = deductions \cup found
  BY DEF StoreDeductions
<1>3. EdgeAdded(s, found) /\ setTime[s] = 0
  BY DEF isTrue
<1> HIDE DEF found, Both
<1>4. /\ lits \in Seq(Literal)
      /\ \A i \in DOMAIN lits : lits[i].tr \in informed /\ EdgeOf(lits[i]) \in found \cup {s}
      /\ \A l \in Literal : Known(l) /\ EdgeOf(l) \in found /\ l.tr \notin polarity
            => \E i \in DOMAIN lits : lits[i] = l
  <2>1. found \subseteq DOMAIN edges
    BY <1>1
  <2> QED BY <2>1, NewDeductionsRight
<1> HIDE DEF lits
<1>5. /\ timestamp \in Nat
      /\ \A e \in DOMAIN edges : setTime'[e] = IF e \in found \/ e = s THEN timestamp + 1 ELSE setTime[e]
  BY <1>1, <1>3, GraphFacts, EdgeAddedGrows
<1>6. /\ th_deductions \in Seq(Literal) /\ n \in Nat /\ DOMAIN th_deductions = 1..n
      /\ Len(lits) \in Nat /\ DOMAIN lits = 1..Len(lits)
  <2>1. th_deductions \in Seq(Literal)
    BY DEF MarksOrdered
  <2>2. n \in Nat /\ DOMAIN th_deductions = 1..n
    BY <2>1, LenProperties
  <2>3. Len(lits) \in Nat /\ DOMAIN lits = 1..Len(lits)
    BY <1>4, LenProperties
  <2> QED BY <2>1, <2>2, <2>3
<1>7. /\ th_deductions' \in Seq(Literal) /\ Len(th_deductions') = n + Len(lits)
      /\ DOMAIN th_deductions' = 1..(n + Len(lits))
      /\ \A i \in 1..(n + Len(lits)) : th_deductions'[i] = IF i <= n THEN th_deductions[i] ELSE lits[i - n]
  <2>1. /\ th_deductions' \in Seq(Literal) /\ Len(th_deductions') = n + Len(lits)
        /\ \A i \in 1..(n + Len(lits)) : th_deductions'[i] = IF i <= n THEN th_deductions[i] ELSE lits[i - n]
    BY <1>2, <1>4, <1>6, ConcatProperties
  <2>2. DOMAIN th_deductions' = 1..Len(th_deductions')
    BY <2>1, LenProperties
  <2> QED BY <2>1, <2>2
<1> HIDE DEF n
<1>8. \A j \in 1..n : j \in 1..(n + Len(lits)) /\ th_deductions'[j] = th_deductions[j]
  BY <1>6, <1>7
<1>9. \A k \in DOMAIN lits : n + k \in 1..(n + Len(lits)) /\ th_deductions'[n + k] = lits[k]
  <2> SUFFICES ASSUME NEW k \in 1..Len(lits)
               PROVE  n + k \in 1..(n + Len(lits)) /\ th_deductions'[n + k] = lits[k]
    BY <1>6
  <2> DEFINE j == n + k
  <2>1. j \in 1..(n + Len(lits)) /\ ~ (j <= n) /\ j - n = k
    BY <1>6
  <2> HIDE DEF j
  <2>2. th_deductions'[j] = lits[k]
    BY <2>1, <1>7
  <2> QED BY <2>1, <2>2 DEF j
<1>10. \A e \in found \cup {s} : e \in DOMAIN edges /\ timestamp < setTime'[e] /\ 0 < setTime'[e]
  <2> SUFFICES ASSUME NEW e \in found \cup {s}
               PROVE  e \in DOMAIN edges /\ timestamp < setTime'[e] /\ 0 < setTime'[e]
    OBVIOUS
  <2>1. e \in DOMAIN edges /\ setTime'[e] = timestamp + 1
    BY <1>1, <1>5
  <2> QED BY <2>1, <1>5
<1>11. ASSUME NEW j \in 1..(n + Len(lits)), n < j
       PROVE  th_deductions'[j].tr \in informed /\ 0 < setTime'[EdgeOf(th_deductions'[j])]
  <2>1. j - n \in DOMAIN lits /\ th_deductions'[j] = lits[j - n]
    BY <1>6, <1>7, <1>11
  <2> QED BY <2>1, <1>4, <1>10
<1>12. polarity' \subseteq {th_deductions'[j].tr : j \in DOMAIN th_deductions'}
  <2> SUFFICES ASSUME NEW a \in polarity' PROVE \E j \in 1..(n + Len(lits)) : th_deductions'[j].tr = a
    BY <1>7
  <2>1. CASE a \in polarity
    <3>1. PICK j \in 1..n : th_deductions[j].tr = a
      BY <2>1, <1>6 DEF DeductionsKept
    <3> QED BY <3>1, <1>8
  <2>2. CASE a \notin polarity
    <3>1. PICK k \in DOMAIN lits : lits[k].tr = a
      BY <2>2, <1>2
    <3> QED BY <3>1, <1>9
  <2> QED BY <2>1, <2>2
<1>13. ASSUME NEW l \in Literal, Known(l), EdgeOf(l) \in found
       PROVE  \E j \in 1..(n + Len(lits)) : th_deductions'[j] = l
  <2>1. CASE l.tr \notin polarity
    <3>1. PICK k \in DOMAIN lits : lits[k] = l
      BY <2>1, <1>4, <1>13
    <3> QED BY <3>1, <1>9
  <2>2. CASE l.tr \in polarity
    <3>1. PICK j \in 1..n : th_deductions[j].tr = l.tr
      BY <2>2, <1>6 DEF DeductionsKept
    <3> DEFINE d == th_deductions[j]
    <3>2. d \in Literal
      BY <3>1, <1>6, ElementOfSeq
    <3>3. d.tr = l.tr /\ l.tr \in informed /\ 0 < setTime[EdgeOf(d)]
      BY <3>1, <1>6, <1>13 DEF DeductionsKept, Known
    <3>4. d = l \/ d = Negated(l)
      BY <3>2, <3>3 DEF Literal, Negated
    <3>5. d # Negated(l)
      <4> SUFFICES ASSUME d = Negated(l) PROVE FALSE
        OBVIOUS
      <4>1. EdgeOf(d) = edges[EdgeOf(l)].neg /\ EdgeOf(l) \in DOMAIN edges /\ EdgeOf(d) \in DOMAIN edges
        BY <3>3, EdgeOfLiteral
      <4>2. PICK m \in Assignments : Both(m)
        BY <1>1
      <4>3. setTime[EdgeOf(d)] # 0
        BY <3>3, <4>1, GraphFacts
      <4> HIDE DEF d
      <4>4. Obeys(m, EdgeOf(l)) /\ Obeys(m, EdgeOf(d))
        BY <4>1, <4>2, <4>3, <1>1, <1>13
      <4> QED BY <4>1, <4>4, NegatedEdge
    <3> QED BY <3>1, <3>4, <3>5, <1>8
  <2> QED BY <2>1, <2>2
<1>14. \A e \in deductions' \ deductions : e \in DOMAIN edges /\ timestamp < setTime'[e]
  BY <1>2, <1>10
<1>15. n <= n + Len(lits)
  BY <1>6
<1> QED BY <1>2, <1>7, <1>8, <1>11, <1>12, <1>13, <1>14, <1>15 DEF DeductionsGrow, n

\* What is not about the graph stays when nothing is deduced.
LEMMA SameStoreRight ==
    ASSUME StoreRight, UNCHANGED <<edges, leqToEdge, edgeToLeq, informed>>
    PROVE  StoreRight'
BY DEF StoreRight, StoreTyped, NegationRight

\* So does the graph.
LEMMA SameGraphRight ==
    ASSUME GraphRight, UNCHANGED <<edges, setTime, addedEdges, timestamp>>
    PROVE  GraphRight'
<1>1. TimesOrdered'
  BY DEF GraphRight, TimesOrdered, IsList
<1>2. \A m, e : Obeys(m, e)' <=> Obeys(m, e)
  BY DEF Obeys, Holds, OfEdge
<1>3. \A m, t : ObeysUntil(m, t)' <=> ObeysUntil(m, t)
  BY <1>2 DEF ObeysUntil
<1>4. TimesExact'
  BY <1>2, <1>3 DEF GraphRight, TimesExact
<1>5. (\E m \in Assignments : ObeysUntil(m, timestamp))'
  <2>1. \A m : (ObeysUntil(m, timestamp))' <=> ObeysUntil(m, timestamp)
    BY <1>2 DEF ObeysUntil
  <2> QED BY <2>1 DEF GraphRight
<1> QED BY <1>1, <1>4, <1>5 DEF GraphRight

\* Every outcome of an assertion leaves the solver right.
LEMMA AssertRight ==
    ASSUME AllAssignments, SolverRight, NEW l \in Literal, assertLit(l), ~ thrown'
    PROVE  SolverRight'
<1> DEFINE s == EdgeOf(l)
           graph == Append(addedEdges, s)
           consequences == Consequences(s, graph)
<1>1. /\ StoreRight /\ GraphRight /\ PointsOrdered /\ StackRight /\ MarksOrdered /\ DeductionsKept
  BY DEF SolverRight
<1>2. l.tr \in informed /\ PointAdded(l)
  BY DEF assertLit, PointAdded, storeVars
<1>3. s \in DOMAIN edges /\ edges[s].neg \in DOMAIN edges
  BY <1>1, <1>2, EdgeOfLiteral
<1>4. StoreRight'
  BY <1>1, <1>2, SameStoreRight DEF PointAdded
<1>5. /\ timestamp \in Nat
      /\ \A e \in DOMAIN edges : setTime[e] \in Nat /\ setTime[e] <= timestamp
      /\ setTime \in [DOMAIN edges -> Nat]
  BY <1>1, GraphFacts DEF GraphRight, TimesOrdered
<1>6. GraphRight' /\ GraphGrows(s) /\ DeductionsGrow /\ Outcome(l)
  <2>1. ASSUME UNCHANGED <<graphVars, th_deductions, polarity>>, Outcome(l)
        PROVE  GraphRight' /\ GraphGrows(s) /\ DeductionsGrow /\ Outcome(l)
    <3>1. UNCHANGED <<setTime, addedEdges, deductions, timestamp, edges, th_deductions, polarity>>
      BY <2>1, <1>2 DEF graphVars, PointAdded
    <3>2. GraphRight'
      BY <3>1, <1>1, SameGraphRight
    <3>3. GraphGrows(s)
      BY <3>1, <1>5 DEF GraphGrows
    <3>4. DeductionsGrow
      <4>1. th_deductions \in Seq(Literal) /\ polarity \subseteq {th_deductions[j].tr : j \in DOMAIN th_deductions}
        BY <1>1 DEF MarksOrdered, DeductionsKept
      <4>2. Len(th_deductions) \in Nat
        BY <4>1, LenProperties
      <4>3. \A j \in 1..Len(th_deductions) : ~ (Len(th_deductions) < j)
        BY <4>2
      <4>4. Len(th_deductions) <= Len(th_deductions)
        BY <4>2
      <4> QED BY <3>1, <4>1, <4>3, <4>4 DEF DeductionsGrow
    <3> QED BY <2>1, <3>2, <3>3, <3>4
  <2>2. CASE /\ inv_asgn # NoLiteral \/ isTrue(s)
             /\ UNCHANGED <<th_deductions, polarity, has_explanation, graphVars, conflictVars, thrown>>
    <3>1. Outcome(l)
      <4>1. CASE inv_asgn # NoLiteral
        BY <4>1, <2>2 DEF Outcome
      <4>2. CASE inv_asgn = NoLiteral
        <5>1. 0 < setTime'[s]
          BY <4>2, <2>2, <1>3, <1>5 DEF isTrue, graphVars
        <5> QED BY <4>2, <5>1, <2>2 DEF Outcome
      <4> QED BY <4>1, <4>2
    <3> QED BY <3>1, <2>1, <2>2
  <2>3. CASE /\ inv_asgn = NoLiteral /\ ~ isTrue(s) /\ isTrue(edges[s].neg)
             /\ inv_bpoint' = Len(backtrack_points) + 1
             /\ inv_asgn' = l
             /\ has_explanation' = TRUE
             /\ UNCHANGED <<th_deductions, polarity, graphVars, thrown>>
    <3>1. Outcome(l)
      <4>1. Range(addedEdges') = Range(addedEdges) /\ UNCHANGED <<setTime, timestamp>>
        BY <2>3 DEF graphVars
      <4> QED BY <4>1, <2>3 DEF Outcome
    <3> QED BY <3>1, <2>1, <2>3
  <2>4. CASE /\ inv_asgn = NoLiteral /\ ~ isTrue(s) /\ ~ isTrue(edges[s].neg)
             /\ timestamp' = timestamp + 1
             /\ addedEdges' = graph
             /\ consequences.inRange
             /\ deductions' = deductions \cup consequences.found
             /\ setTime' = [e \in DOMAIN edges |->
                               IF e \in consequences.found \cup {s} THEN timestamp + 1 ELSE setTime[e]]
             /\ StoreDeductions(NewDeductions(s, consequences.found))
             /\ UNCHANGED conflictVars
    <3>1. EdgeAdded(s, consequences.found)
      BY <2>4, <1>2 DEF EdgeAdded, PointAdded
    <3>2. GraphRight'
      BY <2>4, <3>1, <1>1, <1>3, EdgeAddedRight
    <3>3. DeductionsGrow
      BY <2>4, <3>1, <1>1, <1>3, DeductionsFollow
    <3>4. \A f \in consequences.found : setTime[f] = 0
      BY <2>4, <1>1, <1>3, NewEdge
    <3>5. setTime[s] = 0
      BY <2>4 DEF isTrue
    <3> HIDE DEF consequences, s
    <3>6. /\ GraphGrows(s)
          /\ \A e \in DOMAIN edges :
                setTime'[e] = IF e \in consequences.found \/ e = s THEN timestamp + 1 ELSE setTime[e]
      BY <3>1, <3>4, <3>5, <1>1, <1>3, EdgeAddedGrows
    <3>7. 0 < setTime'[s]
      BY <3>6, <1>3, <1>5
    <3>8. Outcome(l)
      BY <2>4, <3>7 DEF Outcome, s
    <3> QED BY <3>2, <3>3, <3>6, <3>8 DEF s
  <2> HIDE DEF s
  <2>5. \/ /\ inv_asgn # NoLiteral \/ isTrue(s)
           /\ UNCHANGED <<th_deductions, polarity, has_explanation, graphVars, conflictVars, thrown>>
        \/ /\ inv_asgn = NoLiteral /\ ~ isTrue(s) /\ isTrue(edges[s].neg)
           /\ inv_bpoint' = Len(backtrack_points) + 1
           /\ inv_asgn' = l
           /\ has_explanation' = TRUE
           /\ UNCHANGED <<th_deductions, polarity, graphVars, thrown>>
        \/ /\ inv_asgn = NoLiteral /\ ~ isTrue(s) /\ ~ isTrue(edges[s].neg)
           /\ timestamp' = timestamp + 1
           /\ addedEdges' = graph
           /\ consequences.inRange
           /\ deductions' = deductions \cup consequences.found
           /\ setTime' = [e \in DOMAIN edges |->
                             IF e \in consequences.found \cup {s} THEN timestamp + 1 ELSE setTime[e]]
           /\ StoreDeductions(NewDeductions(s, consequences.found))
           /\ UNCHANGED conflictVars
    BY DEF assertLit, s
  <2> QED BY <2>2, <2>3, <2>4, <2>5
<1>7. PointsOrdered'
  BY <1>1, <1>2, <1>3, <1>6, PointAddedRight
<1>8. StackRight'
  BY <1>1, <1>2, <1>6, StackGrowsRight
<1>9. MarksOrdered' /\ DeductionsKept'
  BY <1>1, <1>2, <1>3, <1>6, DeductionsGrowRight
<1> QED BY <1>4, <1>6, <1>7, <1>8, <1>9 DEF SolverRight

\* The calls that only ask.
LEMMA QuestionRight ==
    ASSUME SolverRight, inv_bpoint' \in Nat, deductions_next' \in Nat,
           inv_asgn = NoLiteral \/ inv_bpoint' = inv_bpoint,
           UNCHANGED <<informed, th_deductions, deductions_marks, polarity, storeVars, graphVars,
                       backtrack_points, inv_asgn, stack>>
    PROVE  SolverRight'
<1>1. StoreRight'
  BY SameStoreRight DEF SolverRight, storeVars
<1>2. GraphRight'
  BY SameGraphRight DEF SolverRight, storeVars, graphVars
<1>3. PointsOrdered'
  BY SMTT(30) DEF SolverRight, PointsOrdered, graphVars
<1>4. StackRight'
  BY DEF SolverRight, StackRight, EdgeOf, graphVars, storeVars
<1>5. MarksOrdered'
  BY DEF SolverRight, MarksOrdered
<1>6. DeductionsKept'
  BY DEF SolverRight, DeductionsKept, EdgeOf, Known, graphVars, storeVars
<1> QED BY <1>1, <1>2, <1>3, <1>4, <1>5, <1>6 DEF SolverRight

-----------------------------------------------------------------------------
(* Backtracking.                                                           *)

\* The beginning of a sequence.
LEMMA Beginning ==
    ASSUME NEW T, NEW q \in Seq(T), NEW k \in 0..Len(q)
    PROVE  /\ SubSeq(q, 1, k) \in Seq(T) /\ Len(SubSeq(q, 1, k)) = k /\ k \in Nat
           /\ DOMAIN SubSeq(q, 1, k) = 1..k
           /\ Len(q) \in Nat /\ DOMAIN q = 1..Len(q)
           /\ \A i \in 1..k : i \in 1..Len(q) /\ SubSeq(q, 1, k)[i] = q[i]
<1> DEFINE p == SubSeq(q, 1, k)
<1>1. Len(q) \in Nat /\ DOMAIN q = 1..Len(q)
  BY LenProperties
<1>2. k \in Nat /\ k <= Len(q) /\ k \in Int /\ 1 \in Int
  BY <1>1
<1>3. \A i \in 1..k : i \in 1..Len(q) /\ q[i] \in T
  <2>1. \A i \in 1..k : i \in 1..Len(q)
    BY <1>1, <1>2
  <2> QED BY <2>1, ElementOfSeq
<1>4. /\ p \in Seq(T)
      /\ Len(p) = IF 1 <= k THEN k - 1 + 1 ELSE 0
      /\ \A i \in 1..(k - 1 + 1) : p[i] = q[1 + i - 1]
  BY <1>2, <1>3, SubSeqProperties
<1> HIDE DEF p
<1>5. Len(p) = k
  BY <1>2, <1>4
<1>6. DOMAIN p = 1..k
  BY <1>4, <1>5, LenProperties
<1>7. \A i \in 1..k : p[i] = q[i]
  <2> SUFFICES ASSUME NEW i \in 1..k PROVE p[i] = q[i]
    OBVIOUS
  <2>1. i \in 1..(k - 1 + 1) /\ 1 + i - 1 = i
    BY <1>2
  <2> QED BY <1>4, <2>1
<1> QED BY <1>1, <1>2, <1>3, <1>4, <1>5, <1>6, <1>7 DEF p

\* What removeAfter() leaves of the graph.
GraphCut(point) ==
    /\ \A e \in DOMAIN edges : setTime'[e] = IF setTime[e] > point THEN 0 ELSE setTime[e]
    /\ setTime' \in [DOMAIN edges -> Nat]
    /\ addedEdges' = SetUntil(point)
    /\ timestamp' = IF SetUntil(point) = <<>> THEN timestamp ELSE setTime[SetUntil(point)[Len(SetUntil(point))]]
    /\ deductions' = {e \in deductions : ~ (setTime[e] > point)}
    /\ UNCHANGED <<edges, leqToEdge, edgeToLeq, informed>>

\* removeAfter() does this, also where the graph is empty and it returns early.
LEMMA RemoveAfterCuts ==
    ASSUME AllAssignments, SolverRight, NEW point \in Nat, removeAfter(point), UNCHANGED storeVars, UNCHANGED informed
    PROVE  GraphCut(point)
<1>1. setTime \in [DOMAIN edges -> Nat] /\ TimesOrdered /\ GraphRight /\ StoreRight
  BY DEF SolverRight, GraphRight, TimesOrdered
<1>2. /\ IsList(SetUntil(point)) /\ Len(SetUntil(point)) \in Nat /\ Len(addedEdges) \in Nat
      /\ Len(SetUntil(point)) <= Len(addedEdges)
  BY <1>1, SetUntilRight
<1>3. UNCHANGED <<edges, leqToEdge, edgeToLeq, informed>>
  BY DEF storeVars
<1>4. CASE addedEdges = <<>>
  <2>1. UNCHANGED graphVars
    BY <1>4 DEF removeAfter
  <2>2. SetUntil(point) = <<>>
    <3>1. Len(SetUntil(point)) = 0
      BY <1>2, <1>4, EmptySeq
    <3> QED BY <3>1, <1>2, EmptySeq DEF IsList
  <2>3. \A e \in DOMAIN edges : setTime[e] = 0
    <3> SUFFICES ASSUME NEW e \in DOMAIN edges PROVE setTime[e] = 0
      OBVIOUS
    <3>1. PICK m \in Assignments : ~ Obeys(m, e)
      BY <1>1, NothingImpliesAnEdge
    <3>2. Range(addedEdges) = {}
      BY <1>4 DEF Range
    <3> QED BY <3>1, <3>2, <1>1, GraphFacts
  <2>4. \A e \in deductions : e \in DOMAIN edges /\ 0 < setTime[e]
    BY DEF SolverRight, DeductionsKept
  <2>5. deductions = {}
    BY <2>3, <2>4
  <2>6. \A e \in DOMAIN edges : ~ (setTime[e] > point)
    BY <2>3
  <2> QED BY <2>1, <2>2, <2>3, <2>5, <2>6, <1>1, <1>3, <1>4 DEF GraphCut, graphVars
<1>5. CASE addedEdges # <<>>
  <2> DEFINE gone == {e \in DOMAIN edges : setTime[e] > point}
  <2>1. /\ addedEdges' = SetUntil(point)
        /\ timestamp' = IF SetUntil(point) = <<>> THEN timestamp ELSE setTime[Last(SetUntil(point))]
        /\ setTime' = [e \in DOMAIN edges |-> IF e \in gone THEN 0 ELSE setTime[e]]
        /\ deductions' = deductions \ gone
    BY <1>5 DEF removeAfter
  <2>2. setTime' \in [DOMAIN edges -> Nat]
    BY <2>1, <1>1
  <2>3. \A e \in DOMAIN edges : setTime'[e] = IF setTime[e] > point THEN 0 ELSE setTime[e]
    BY <2>1
  <2>4. deductions' = {e \in deductions : ~ (setTime[e] > point)}
    <3>1. \A e \in deductions : e \in DOMAIN edges
      BY DEF SolverRight, DeductionsKept
    <3> QED BY <3>1, <2>1
  <2> QED BY <2>1, <2>2, <2>3, <2>4, <1>3 DEF GraphCut, Last
<1> QED BY <1>4, <1>5

\* EmptyGraphRight of the next state.
LEMMA EmptyGraphLater == AllAssignments /\ StoreRight' /\ GraphEmpty' => GraphRight'
<1>1. AllAssignments' <=> AllAssignments
  BY DEF AllAssignments
<1> QED BY <1>1, EmptyGraphRight, PTL

\* The graph is right at the earlier time, which is the time of its last edge.
LEMMA GraphCutRight ==
    ASSUME AllAssignments, StoreRight, GraphRight, NEW point \in Nat, point <= timestamp, GraphCut(point)
    PROVE  /\ GraphRight'
           /\ Range(addedEdges') = {g \in Range(addedEdges) : setTime[g] <= point}
           /\ \A g \in Range(addedEdges') : setTime'[g] = setTime[g]
           /\ \A e \in DOMAIN edges : setTime[e] \in Nat /\ (setTime[e] <= point => setTime'[e] = setTime[e])
           /\ timestamp' = timestamp \/ \E g \in Range(addedEdges) : setTime[g] <= point
           /\ \A g \in Range(addedEdges) : setTime[g] <= point => setTime[g] <= timestamp'
<1> DEFINE kept == SetUntil(point)
           n == Len(kept)
           time == setTime[kept[n]]
<1>1. TimesOrdered
  BY DEF GraphRight
<1>2. /\ IsList(kept) /\ n <= Len(addedEdges)
      /\ DOMAIN kept = 1..n /\ DOMAIN addedEdges = 1..Len(addedEdges)
      /\ n \in Nat /\ Len(addedEdges) \in Nat
      /\ \A i \in 1..n : kept[i] = addedEdges[i]
      /\ Range(kept) = {g \in Range(addedEdges) : setTime[g] <= point}
  BY <1>1, SetUntilRight
<1>3. /\ addedEdges' = kept /\ edges' = edges
      /\ timestamp' = IF kept = <<>> THEN timestamp ELSE time
      /\ \A e \in DOMAIN edges : setTime'[e] = IF setTime[e] > point THEN 0 ELSE setTime[e]
      /\ setTime' \in [DOMAIN edges -> Nat]
  BY DEF GraphCut
<1> HIDE DEF kept, n, time
<1>4. /\ timestamp \in Nat /\ \A e \in DOMAIN edges : setTime[e] \in Nat /\ setTime[e] <= timestamp
      /\ \A g \in Range(addedEdges) : g \in DOMAIN edges /\ 0 < setTime[g]
  BY GraphFacts
<1>5. /\ Range(addedEdges') = {g \in Range(addedEdges) : setTime[g] <= point}
      /\ \A e \in DOMAIN edges : setTime[e] \in Nat /\ (setTime[e] <= point => setTime'[e] = setTime[e])
  BY <1>2, <1>3, <1>4
<1>6. \A g \in Range(addedEdges') : setTime'[g] = setTime[g]
  BY <1>4, <1>5
<1>7. StoreRight'
  BY SameStoreRight DEF GraphCut
<1>8. \A m, e : Obeys(m, e)' <=> Obeys(m, e)
  BY <1>3 DEF Obeys, Holds, OfEdge
<1>9. CASE kept = <<>>
  <2>1. Range(kept) = {}
    BY <1>9 DEF Range
  <2>2. \A m : ObeysUntil(m, point)
    BY <2>1, <1>2 DEF ObeysUntil
  <2>3. ASSUME NEW e \in DOMAIN edges PROVE setTime'[e] = 0
    <3>1. PICK m \in Assignments : ~ Obeys(m, e)
      BY NothingImpliesAnEdge
    <3>2. point \in 0..timestamp
      BY <1>4
    <3>3. ~ (0 < setTime[e] /\ setTime[e] <= point)
      BY <3>1, <3>2, <2>2 DEF GraphRight, TimesExact
    <3> QED BY <3>3, <1>3, <1>4
  <2>4. setTime' \in [DOMAIN edges' -> {0}]
    BY <2>3, <1>3
  <2>5. GraphEmpty'
    BY <2>4, <1>3, <1>4, <1>9 DEF GraphEmpty
  <2>6. timestamp' = timestamp
    BY <1>3, <1>9
  <2> QED BY <2>5, <2>6, <1>4, <1>5, <1>6, <1>7, EmptyGraphLater
<1>10. CASE kept # <<>>
  <2>1. n \in 1..n /\ n \in 1..Len(addedEdges)
    <3>1. n # 0
      BY <1>2, <1>10, EmptySeq DEF IsList, n
    <3> QED BY <3>1, <1>2
  <2>2. /\ kept[n] \in Range(kept) /\ kept[n] \in DOMAIN edges /\ kept[n] = addedEdges[n]
        /\ time <= point /\ time \in Nat /\ timestamp' = time
    <3>1. kept[n] \in Range(kept)
      BY <2>1, <1>2 DEF Range
    <3> QED BY <3>1, <2>1, <1>2, <1>3, <1>4, <1>10 DEF time
  <2>3. \A i \in 1..n : /\ kept[i] \in DOMAIN edges /\ setTime'[kept[i]] = setTime[kept[i]]
                        /\ setTime[kept[i]] <= time /\ 0 < setTime[kept[i]]
    <3> SUFFICES ASSUME NEW i \in 1..n
                 PROVE  /\ kept[i] \in DOMAIN edges /\ setTime'[kept[i]] = setTime[kept[i]]
                        /\ setTime[kept[i]] <= time /\ 0 < setTime[kept[i]]
      OBVIOUS
    <3>1. kept[i] \in Range(kept) /\ kept[i] = addedEdges[i] /\ i \in 1..Len(addedEdges)
      BY <1>2 DEF Range
    <3>2. kept[i] \in DOMAIN edges /\ setTime'[kept[i]] = setTime[kept[i]] /\ 0 < setTime[kept[i]]
      BY <3>1, <1>2, <1>4, <1>5
    <3>3. setTime[kept[i]] <= time
      <4>1. CASE i = n
        BY <4>1, <2>2 DEF time
      <4>2. CASE i # n
        <5>1. i < n
          BY <4>2, <1>2
        <5>2. setTime[addedEdges[i]] < setTime[addedEdges[n]]
          BY <5>1, <3>1, <2>1, <1>1, <1>2 DEF TimesOrdered
        <5>3. setTime[kept[i]] < time /\ setTime[kept[i]] \in Nat
          BY <5>2, <3>1, <3>2, <2>2, <1>4 DEF time
        <5> QED BY <5>3, <2>2
      <4> QED BY <4>1, <4>2
    <3> QED BY <3>2, <3>3
  <2>4. \A g \in Range(kept) : setTime[g] <= time
    BY <2>3, <1>2 DEF Range
  <2>5. \A m : ObeysUntil(m, point) <=> ObeysUntil(m, time)
    <3>1. \A g \in Range(addedEdges) : setTime[g] <= point <=> setTime[g] <= time
      <4> SUFFICES ASSUME NEW g \in Range(addedEdges) PROVE setTime[g] <= point <=> setTime[g] <= time
        OBVIOUS
      <4>1. setTime[g] \in Nat
        BY <1>4
      <4>2. setTime[g] <= point => setTime[g] <= time
        BY <2>4, <1>2
      <4>3. setTime[g] <= time => setTime[g] <= point
        BY <4>1, <2>2
      <4> QED BY <4>2, <4>3
    <3> QED BY <3>1 DEF ObeysUntil
  <2>6. point \in 0..timestamp /\ time \in 0..timestamp /\ \A t \in 0..time : t \in 0..timestamp /\ t <= point
    BY <2>2, <1>4
  <2>7. ASSUME NEW e \in DOMAIN edges PROVE setTime'[e] <= time /\ setTime'[e] \in Nat
    <3>1. CASE setTime[e] > point \/ setTime[e] = 0
      <4>1. setTime'[e] = 0
        BY <3>1, <1>3
      <4> QED BY <4>1, <2>2
    <3>2. CASE ~ (setTime[e] > point \/ setTime[e] = 0)
      <4>1. setTime'[e] = setTime[e] /\ 0 < setTime[e] /\ setTime[e] <= point
        BY <3>2, <1>3, <1>4
      <4>2. \A m \in Assignments : ObeysUntil(m, point) => Obeys(m, e)
        BY <4>1, <2>6 DEF GraphRight, TimesExact
      <4>3. 0 < setTime[e] /\ setTime[e] <= time
        BY <4>2, <2>5, <2>6 DEF GraphRight, TimesExact
      <4> QED BY <4>1, <4>3, <1>4
    <3> QED BY <3>1, <3>2
  <2>8. TimesOrdered'
    <3>1. IsList(addedEdges)'
      BY <1>2, <1>3 DEF IsList
    <3>2. Len(addedEdges') = n
      BY <1>3 DEF n
    <3>3. ASSUME NEW i \in 1..n, NEW j \in 1..n, i < j PROVE setTime'[kept[i]] < setTime'[kept[j]]
      <4>1. i \in 1..Len(addedEdges) /\ j \in 1..Len(addedEdges)
        BY <1>2
      <4>2. setTime[addedEdges[i]] < setTime[addedEdges[j]]
        BY <4>1, <3>3, <1>1, <1>2 DEF TimesOrdered
      <4> QED BY <4>2, <2>3, <1>2
    <3>4. setTime'[kept[n]] = time
      BY <2>1, <2>3 DEF time
    <3> QED BY <3>1, <3>2, <3>3, <3>4, <2>2, <2>3, <2>7, <1>2, <1>3 DEF TimesOrdered
  <2> DEFINE Later(m, t) == \A g \in Range(kept) : setTime'[g] <= t => Obeys(m, g)
  <2>9. \A m, t : ObeysUntil(m, t)' <=> Later(m, t)
    BY <1>3, <1>8 DEF ObeysUntil
  <2>10. ASSUME NEW m, NEW t \in 0..time PROVE Later(m, t) <=> ObeysUntil(m, t)
    <3>1. \A g \in Range(addedEdges) : setTime[g] <= t => g \in Range(kept)
      <4> SUFFICES ASSUME NEW g \in Range(addedEdges), setTime[g] <= t PROVE setTime[g] <= point
        BY <1>2
      <4>1. setTime[g] \in Nat /\ t <= point /\ t \in Nat
        BY <2>6, <1>4
      <4> QED BY <4>1
    <3>2. \A g \in Range(kept) : setTime'[g] = setTime[g] /\ g \in Range(addedEdges)
      BY <1>2, <1>3, <1>6
    <3> QED BY <3>1, <3>2 DEF ObeysUntil
  <2> HIDE DEF Later
  <2>11. ASSUME NEW e \in DOMAIN edges, NEW t \in 0..time
         PROVE  (0 < setTime'[e] /\ setTime'[e] <= t) <=> \A m \in Assignments : Later(m, t) => Obeys(m, e)
    <3>1. (0 < setTime[e] /\ setTime[e] <= t) <=> \A m \in Assignments : ObeysUntil(m, t) => Obeys(m, e)
      BY <2>6 DEF GraphRight, TimesExact
    <3>2. (0 < setTime'[e] /\ setTime'[e] <= t) <=> (0 < setTime[e] /\ setTime[e] <= t)
      <4>1. t <= point /\ t \in Nat
        BY <2>6
      <4> QED BY <4>1, <1>3, <1>4
    <3> QED BY <3>1, <3>2, <2>10
  <2>12. TimesExact'
    BY <2>2, <2>9, <2>11, <1>3, <1>8 DEF TimesExact
  <2>13. (\E m \in Assignments : ObeysUntil(m, timestamp))'
    <3>1. PICK m \in Assignments : \A g \in Range(addedEdges) : Obeys(m, g)
      BY GraphFacts
    <3>2. \A g \in Range(addedEdges') : Obeys(m, g)'
      BY <3>1, <1>5, <1>8
    <3> QED BY <3>2 DEF ObeysUntil
  <2>14. GraphRight'
    BY <2>8, <2>12, <2>13 DEF GraphRight
  <2>15. kept[n] \in Range(addedEdges) /\ setTime[kept[n]] <= point
    BY <2>2, <1>2
  <2>16. \A g \in Range(addedEdges) : setTime[g] <= point => setTime[g] <= timestamp'
    BY <2>2, <2>4, <1>2
  <2> QED BY <2>14, <2>15, <2>16, <1>5, <1>6
<1> QED BY <1>9, <1>10

\* Popping backtrack points leaves the solver right.
LEMMA PopRight ==
    ASSUME AllAssignments, SolverRight, NEW n \in 1..Cardinality(Atoms), popBacktrackPoints(n)
    PROVE  SolverRight'
<1> DEFINE all == Len(backtrack_points)
           left == all - n
           point == backtrack_points[left + 1]
           lim == deductions_marks[left + 1].lim
           Time(i) == setTime[EdgeOf(stack[i])]
           Deduced(j) == setTime[EdgeOf(th_deductions[j])]
<1>1. /\ StoreRight /\ GraphRight /\ PointsOrdered /\ StackRight /\ MarksOrdered /\ DeductionsKept
  BY DEF SolverRight
<1>2. /\ backtrack_points \in Seq(Nat) /\ stack \in Seq(Literal) /\ Len(stack) = all
      /\ deductions_marks \in Seq([lim : Nat, next : Nat]) /\ Len(deductions_marks) = all
      /\ th_deductions \in Seq(Literal)
  BY <1>1 DEF PointsOrdered, MarksOrdered
<1>3. /\ all \in Nat /\ DOMAIN backtrack_points = 1..all /\ DOMAIN stack = 1..all
      /\ DOMAIN deductions_marks = 1..all
      /\ Len(th_deductions) \in Nat /\ DOMAIN th_deductions = 1..Len(th_deductions)
  <2>1. all \in Nat /\ DOMAIN backtrack_points = 1..all
    BY <1>2, LenProperties
  <2>2. DOMAIN stack = 1..all /\ DOMAIN deductions_marks = 1..all
    BY <1>2, LenProperties
  <2>3. Len(th_deductions) \in Nat /\ DOMAIN th_deductions = 1..Len(th_deductions)
    BY <1>2, LenProperties
  <2> QED BY <2>1, <2>2, <2>3
<1>4. /\ left \in 0..all /\ left \in Nat /\ left + 1 \in 1..all
      /\ \A i \in 1..left : i \in 1..all /\ i < left + 1 /\ i <= left + 1
  <2>1. n \in 1..all
    BY DEF popBacktrackPoints
  <2> HIDE DEF all
  <2> QED BY <2>1, <1>3
<1>5. Len(deductions_marks) - n + 1 = left + 1
  BY <1>2, <1>3
<1>6. /\ IF inv_bpoint > left
         THEN inv_bpoint' = 0 /\ inv_asgn' = NoLiteral
         ELSE UNCHANGED conflictVars
      /\ removeAfter(point)
      /\ backtrack_points' = SubSeq(backtrack_points, 1, left)
      /\ stack' = SubSeq(stack, 1, left)
      /\ UNCHANGED informed /\ UNCHANGED storeVars
  BY DEF popBacktrackPoints
<1>7. /\ th_deductions' = SubSeq(th_deductions, 1, lim)
      /\ deductions_next' = deductions_marks[left + 1].next
      /\ polarity' = polarity \ {th_deductions[i].tr : i \in (lim + 1)..Len(th_deductions)}
      /\ deductions_marks' = SubSeq(deductions_marks, 1, left)
  <2>1. PopMarks(n)
    BY DEF popBacktrackPoints
  <2>2. Len(deductions_marks) - n = left
    BY <1>2
  <2> QED BY <2>1, <2>2, <1>5 DEF PopMarks
<1> HIDE DEF left, all
<1>8. /\ \A i \in 1..all : backtrack_points[i] \in Nat /\ backtrack_points[i] <= timestamp
      /\ \A i \in 1..all : \A j \in 1..all : i <= j => backtrack_points[i] <= backtrack_points[j]
  <2>1. \A i \in 1..all : backtrack_points[i] \in Nat
    BY <1>2, <1>3, ElementOfSeq DEF all
  <2> QED BY <2>1, <1>1, <1>3 DEF PointsOrdered
<1>9. point \in Nat /\ point <= timestamp /\ \A i \in 1..left : backtrack_points[i] <= point
  BY <1>4, <1>8
<1> HIDE DEF point
<1>10. GraphCut(point)
  BY <1>6, <1>9, RemoveAfterCuts
<1>11. /\ edges' = edges /\ leqToEdge' = leqToEdge /\ edgeToLeq' = edgeToLeq /\ informed' = informed
  BY <1>10 DEF GraphCut
<1>12. StoreRight'
  BY <1>1, <1>11, SameStoreRight
<1>13. /\ GraphRight'
       /\ Range(addedEdges') = {g \in Range(addedEdges) : setTime[g] <= point}
       /\ \A g \in Range(addedEdges') : setTime'[g] = setTime[g]
       /\ \A e \in DOMAIN edges : setTime[e] \in Nat /\ (setTime[e] <= point => setTime'[e] = setTime[e])
       /\ timestamp' = timestamp \/ \E g \in Range(addedEdges) : setTime[g] <= point
       /\ \A g \in Range(addedEdges) : setTime[g] <= point => setTime[g] <= timestamp'
  BY <1>1, <1>9, <1>10, GraphCutRight
<1>14. /\ backtrack_points' \in Seq(Nat) /\ Len(backtrack_points') = left /\ DOMAIN backtrack_points' = 1..left
       /\ \A i \in 1..left : backtrack_points'[i] = backtrack_points[i]
  BY <1>2, <1>4, <1>6, Beginning, ZenonT(60) DEF all
<1>15. /\ stack' \in Seq(Literal) /\ Len(stack') = left /\ DOMAIN stack' = 1..left
       /\ \A i \in 1..left : stack'[i] = stack[i]
  BY <1>2, <1>4, <1>6, Beginning, ZenonT(60)
<1>16. /\ deductions_marks' \in Seq([lim : Nat, next : Nat]) /\ Len(deductions_marks') = left
       /\ DOMAIN deductions_marks' = 1..left
       /\ \A i \in 1..left : deductions_marks'[i] = deductions_marks[i]
  <2> DEFINE R == [lim : Nat, next : Nat]
  <2>1. deductions_marks \in Seq(R) /\ left \in 0..Len(deductions_marks)
    BY <1>2, <1>4
  <2> HIDE DEF R
  <2>2. /\ deductions_marks' \in Seq(R) /\ Len(deductions_marks') = left
        /\ DOMAIN deductions_marks' = 1..left
        /\ \A i \in 1..left : deductions_marks'[i] = deductions_marks[i]
    BY <2>1, <1>7, Beginning
  <2> QED BY <2>2 DEF R
<1>17. point <= timestamp'  \/ timestamp' = timestamp
  <2>1. CASE \E g \in Range(addedEdges) : setTime[g] <= point
    <3>1. PICK g \in Range(addedEdges) : setTime[g] = point
      BY <2>1, <1>1, <1>3, <1>4 DEF PointsOrdered, point
    <3>2. setTime[g] <= point
      BY <3>1, <1>9
    <3> QED BY <3>1, <3>2, <1>13
  <2> QED BY <2>1, <1>13
<1>18. PointsOrdered'
  <2>1. \A i \in 1..left : backtrack_points[i] <= timestamp'
    <3> SUFFICES ASSUME NEW i \in 1..left PROVE backtrack_points[i] <= timestamp'
      OBVIOUS
    <3>1. CASE timestamp' = timestamp
      BY <3>1, <1>4, <1>8
    <3>2. CASE point <= timestamp'
      <4>1. timestamp' \in Nat /\ backtrack_points[i] \in Nat /\ backtrack_points[i] <= point
        BY <1>4, <1>8, <1>9, <1>13 DEF GraphRight, TimesOrdered
      <4> QED BY <3>2, <4>1, <1>9
    <3> QED BY <3>1, <3>2, <1>17
  <2>2. \A i, j \in 1..left : i <= j => backtrack_points[i] <= backtrack_points[j]
    BY <1>4, <1>8
  <2>3. ASSUME NEW i \in 1..left, \E g \in Range(addedEdges') : setTime'[g] <= backtrack_points[i]
        PROVE  \E g \in Range(addedEdges') : setTime'[g] = backtrack_points[i]
    <3>1. PICK g \in Range(addedEdges') : setTime'[g] <= backtrack_points[i]
      BY <2>3
    <3>2. g \in Range(addedEdges) /\ setTime[g] <= backtrack_points[i]
      BY <3>1, <1>13
    <3>3. PICK h \in Range(addedEdges) : setTime[h] = backtrack_points[i]
      BY <3>2, <1>1, <1>3, <1>4 DEF PointsOrdered
    <3>4. h \in Range(addedEdges')
      BY <3>3, <1>9, <1>13
    <3> QED BY <3>3, <3>4, <1>13
  <2> QED BY <2>1, <2>2, <2>3, <1>14, <1>15 DEF PointsOrdered
<1>19. \A i \in 1..all : stack[i] \in Literal /\ stack[i].tr \in informed /\ EdgeOf(stack[i]) \in DOMAIN edges
  <2>1. \A i \in 1..all : stack[i] \in Literal /\ stack[i].tr \in informed
    BY <1>1, <1>2, <1>3, ElementOfSeq DEF StackRight
  <2> QED BY <2>1, <1>1, EdgeOfLiteral
<1>20. inv_bpoint \in Nat
  BY <1>1 DEF StackRight
<1>21. ASSUME NEW i \in 1..left, inv_asgn' = NoLiteral \/ i < inv_bpoint'
       PROVE  /\ 0 < Time(i) /\ setTime'[EdgeOf(stack[i])] = Time(i)
              /\ \A k \in 1..left : i < k => Time(i) <= backtrack_points[k]
  <2>1. inv_asgn = NoLiteral \/ i < inv_bpoint
    BY <1>4, <1>6, <1>20, <1>21 DEF conflictVars
  <2>2. 0 < Time(i) /\ \A k \in 1..all : i < k => Time(i) <= backtrack_points[k]
    BY <2>1, <1>1, <1>3, <1>4 DEF StackRight
  <2>3. Time(i) <= point
    BY <2>2, <1>4 DEF point
  <2>4. \A k \in 1..left : k \in 1..all
    BY <1>4
  <2>5. setTime'[EdgeOf(stack[i])] = Time(i)
    BY <2>3, <1>4, <1>13, <1>19
  <2> HIDE DEF Time
  <2> QED BY <2>2, <2>4, <2>5
<1>22. ASSUME NEW g \in Range(addedEdges')
       PROVE  \E i \in 1..left : EdgeOf(stack[i]) = g /\ backtrack_points[i] < setTime'[g]
  <2>1. g \in Range(addedEdges) /\ setTime[g] <= point /\ setTime'[g] = setTime[g]
    BY <1>13
  <2>2. PICK i \in 1..all : EdgeOf(stack[i]) = g /\ backtrack_points[i] < setTime[g]
    BY <2>1, <1>1, <1>3 DEF StackRight
  <2>3. setTime[g] \in Nat /\ backtrack_points[i] \in Nat /\ backtrack_points[i] < point
    <3>1. setTime[g] \in Nat
      BY <2>2, <1>13, <1>19
    <3> QED BY <3>1, <2>1, <2>2, <1>8, <1>9
  <2>4. ~ (left + 1 <= i)
    <3> SUFFICES ASSUME left + 1 <= i PROVE FALSE
      OBVIOUS
    <3>1. point <= backtrack_points[i]
      BY <1>4, <1>8 DEF point
    <3> QED BY <3>1, <2>3, <1>9
  <2>5. i \in 1..left
    BY <2>4, <1>3, <1>4
  <2> QED BY <2>1, <2>2, <2>5
<1>23. ASSUME inv_asgn' # NoLiteral
       PROVE  /\ inv_bpoint' = inv_bpoint /\ inv_asgn' = inv_asgn
              /\ inv_bpoint \in 1..left /\ stack[inv_bpoint] = inv_asgn
              /\ 0 < setTime'[edges[EdgeOf(inv_asgn)].neg]
              /\ setTime'[edges[EdgeOf(inv_asgn)].neg] <= backtrack_points[inv_bpoint]
  <2>1. ~ (inv_bpoint > left) /\ inv_bpoint' = inv_bpoint /\ inv_asgn' = inv_asgn
    BY <1>6, <1>23 DEF conflictVars
  <2> DEFINE d == edges[EdgeOf(inv_asgn)].neg
  <2>2. /\ inv_bpoint \in 1..all /\ stack[inv_bpoint] = inv_asgn
        /\ 0 < setTime[d] /\ setTime[d] <= backtrack_points[inv_bpoint]
    BY <2>1, <1>1, <1>3, <1>23 DEF StackRight
  <2>3. inv_bpoint \in 1..left
    BY <2>1, <2>2, <1>3, <1>4
  <2>4. d \in DOMAIN edges
    BY <2>2, <1>1, <1>19, EdgeOfLiteral
  <2> HIDE DEF d
  <2>5. setTime'[d] = setTime[d]
    <3>1. backtrack_points[inv_bpoint] \in Nat /\ backtrack_points[inv_bpoint] <= point /\ setTime[d] \in Nat
      BY <2>2, <2>3, <2>4, <1>8, <1>9, <1>13
    <3>2. setTime[d] <= point
      BY <3>1, <2>2, <1>9
    <3> QED BY <3>2, <2>4, <1>13
  <2> QED BY <2>1, <2>2, <2>3, <2>5 DEF d
<1>24. inv_bpoint' \in Nat
  BY <1>6, <1>20, SMTT(30) DEF conflictVars
<1>25. StackRight'
  <2>1. \A i \in 1..left : stack[i].tr \in informed
    BY <1>4, <1>19
  <2> HIDE DEF Time
  <2>2. \A i \in 1..left :
            inv_asgn' = NoLiteral \/ i < inv_bpoint' =>
                /\ 0 < setTime'[EdgeOf(stack[i])]
                /\ \A k \in 1..left : i < k => setTime'[EdgeOf(stack[i])] <= backtrack_points[k]
    BY <1>21
  <2>3. inv_asgn' # NoLiteral =>
            /\ inv_bpoint' \in 1..left /\ stack'[inv_bpoint'] = inv_asgn'
            /\ 0 < setTime'[edges[EdgeOf(inv_asgn')].neg]
            /\ setTime'[edges[EdgeOf(inv_asgn')].neg] <= backtrack_points'[inv_bpoint']
    BY <1>14, <1>15, <1>23
  <2> QED BY <2>1, <2>2, <2>3, <1>11, <1>14, <1>15, <1>22, <1>24, ZenonT(60) DEF StackRight, EdgeOf
<1>26. /\ lim \in 0..Len(th_deductions) /\ lim \in Nat
       /\ \A i \in 1..all : deductions_marks[i].lim \in Nat /\ deductions_marks[i].next \in Nat
       /\ \A i \in 1..left : deductions_marks[i].lim <= lim
  <2>1. \A i \in 1..all : deductions_marks[i].lim \in Nat /\ deductions_marks[i].next \in Nat
    <3>1. \A i \in 1..all : deductions_marks[i] \in [lim : Nat, next : Nat]
      BY <1>2, <1>3, ElementOfSeq
    <3> QED BY <3>1
  <2>2. lim <= Len(th_deductions)
    BY <1>1, <1>3, <1>4 DEF MarksOrdered
  <2>3. \A i \in 1..left : deductions_marks[i].lim <= lim
    BY <1>1, <1>3, <1>4 DEF MarksOrdered
  <2> QED BY <2>1, <2>2, <2>3, <1>3, <1>4
<1> HIDE DEF lim
<1>27. /\ th_deductions' \in Seq(Literal) /\ Len(th_deductions') = lim /\ DOMAIN th_deductions' = 1..lim
       /\ \A j \in 1..lim : j \in 1..Len(th_deductions) /\ th_deductions'[j] = th_deductions[j]
  BY <1>2, <1>7, <1>26, Beginning
<1>28. MarksOrdered'
  <2>1. deductions_next' \in Nat
    BY <1>4, <1>7, <1>26
  <2>2. \A i \in 1..left : deductions_marks'[i].lim <= lim
    BY <1>16, <1>26
  <2>3. \A i, j \in 1..left : i <= j => deductions_marks'[i].lim <= deductions_marks'[j].lim
    BY <1>1, <1>3, <1>4, <1>16 DEF MarksOrdered
  <2>4. deductions_marks[1].lim = 0
    <3>1. deductions_marks # <<>>
      BY <1>3, <1>4
    <3> QED BY <3>1, <1>1 DEF MarksOrdered
  <2>5. IF deductions_marks' = <<>> THEN th_deductions' = <<>> ELSE deductions_marks'[1].lim = 0
    <3>1. CASE left = 0
      <4>1. lim = 0
        BY <3>1, <2>4 DEF lim
      <4>2. th_deductions' = <<>> /\ deductions_marks' = <<>>
        BY <3>1, <4>1, <1>16, <1>27, EmptySeq
      <4> QED BY <4>2
    <3>2. CASE left # 0
      <4>1. 1 \in 1..left
        BY <3>2, <1>4
      <4>2. deductions_marks' # <<>>
        BY <4>1, <1>16
      <4> QED BY <4>1, <4>2, <2>4, <1>16
    <3> QED BY <3>1, <3>2
  <2> QED BY <2>1, <2>2, <2>3, <2>5, <1>14, <1>16, <1>27 DEF MarksOrdered
<1>29. ASSUME NEW j \in 1..lim
       PROVE  /\ th_deductions[j].tr \in informed /\ 0 < Deduced(j)
              /\ setTime'[EdgeOf(th_deductions[j])] = Deduced(j)
              /\ \A i \in 1..left : j <= deductions_marks[i].lim => Deduced(j) <= backtrack_points[i]
  <2>1. /\ th_deductions[j].tr \in informed /\ 0 < Deduced(j)
        /\ \A i \in 1..all : j <= deductions_marks[i].lim => Deduced(j) <= backtrack_points[i]
    BY <1>1, <1>3, <1>27 DEF DeductionsKept
  <2>2. Deduced(j) <= point
    <3>1. j <= deductions_marks[left + 1].lim
      BY <1>26 DEF lim
    <3> QED BY <2>1, <3>1, <1>4 DEF point
  <2>3. EdgeOf(th_deductions[j]) \in DOMAIN edges
    <3>1. th_deductions[j] \in Literal
      BY <1>2, <1>27, ElementOfSeq
    <3> QED BY <2>1, <3>1, <1>1, EdgeOfLiteral
  <2>4. setTime'[EdgeOf(th_deductions[j])] = Deduced(j)
    BY <2>2, <2>3, <1>13
  <2> HIDE DEF Deduced
  <2> QED BY <2>1, <2>4, <1>4
<1>30. polarity' \subseteq {th_deductions'[j].tr : j \in DOMAIN th_deductions'}
  <2> SUFFICES ASSUME NEW a \in polarity' PROVE \E j \in 1..lim : th_deductions'[j].tr = a
    BY <1>27
  <2>1. PICK j \in 1..Len(th_deductions) : th_deductions[j].tr = a
    BY <1>1, <1>3, <1>7 DEF DeductionsKept
  <2>2. ~ (j \in (lim + 1)..Len(th_deductions))
    BY <2>1, <1>7
  <2>3. j \in 1..lim
    BY <2>2, <1>3, <1>26
  <2> QED BY <2>1, <2>3, <1>27
<1>31. deductions' = {e \in deductions : ~ (setTime[e] > point)}
  BY <1>10 DEF GraphCut
<1>32. ASSUME NEW e \in deductions'
       PROVE  /\ e \in deductions /\ e \in DOMAIN edges /\ setTime'[e] = setTime[e]
              /\ 0 < setTime[e] /\ setTime[e] <= point
  <2>1. e \in deductions /\ ~ (setTime[e] > point) /\ e \in DOMAIN edges /\ 0 < setTime[e]
    BY <1>1, <1>31 DEF DeductionsKept
  <2>2. setTime[e] <= point
    BY <2>1, <1>9, <1>13
  <2> QED BY <2>1, <2>2, <1>13
<1>33. ASSUME NEW l \in Literal, Known(l), EdgeOf(l) \in deductions'
       PROVE  /\ \E j \in 1..lim : th_deductions'[j] = l
              /\ \A i \in 1..left : setTime'[EdgeOf(l)] <= backtrack_points[i]
                                       => \E j \in 1..deductions_marks[i].lim : th_deductions'[j] = l
  <2>1. \A i \in 1..all : setTime[EdgeOf(l)] <= backtrack_points[i]
                              => \E j \in 1..deductions_marks[i].lim : th_deductions[j] = l
    BY <1>1, <1>3, <1>32, <1>33 DEF DeductionsKept
  <2>2. PICK k \in 1..lim : th_deductions[k] = l
    <3>1. setTime[EdgeOf(l)] <= backtrack_points[left + 1]
      BY <1>32, <1>33 DEF point
    <3> QED BY <2>1, <3>1, <1>4 DEF lim
  <2>3. ASSUME NEW i \in 1..left, setTime'[EdgeOf(l)] <= backtrack_points[i]
        PROVE  \E j \in 1..deductions_marks[i].lim : th_deductions'[j] = l
    <3>1. setTime[EdgeOf(l)] <= backtrack_points[i]
      BY <2>3, <1>32, <1>33
    <3>2. PICK j \in 1..deductions_marks[i].lim : th_deductions[j] = l
      BY <2>1, <3>1, <1>4
    <3>3. j \in 1..lim
      BY <3>2, <1>4, <1>26
    <3> QED BY <3>2, <3>3, <1>27
  <2> QED BY <2>2, <2>3, <1>27
<1>34. /\ \A x : EdgeOf(x)' = EdgeOf(x)
       /\ \A x : Known(x)' <=> Known(x)
  BY <1>11 DEF EdgeOf, Known
<1>35. DeductionsKept'
  <2> HIDE DEF Deduced
  <2>1. \A j \in 1..lim :
            /\ th_deductions'[j].tr \in informed' /\ 0 < setTime'[EdgeOf(th_deductions'[j])]
            /\ \A i \in 1..left : j <= deductions_marks'[i].lim
                                     => setTime'[EdgeOf(th_deductions'[j])] <= backtrack_points'[i]
    <3> SUFFICES ASSUME NEW j \in 1..lim
                 PROVE  /\ th_deductions'[j].tr \in informed' /\ 0 < setTime'[EdgeOf(th_deductions'[j])]
                        /\ \A i \in 1..left :
                              j <= deductions_marks'[i].lim
                                  => setTime'[EdgeOf(th_deductions'[j])] <= backtrack_points'[i]
      OBVIOUS
    <3>1. th_deductions'[j] = th_deductions[j] /\ setTime'[EdgeOf(th_deductions[j])] = Deduced(j)
      BY <1>27, <1>29
    <3>2. setTime'[EdgeOf(th_deductions'[j])] = Deduced(j)
      BY <3>1
    <3>3. th_deductions[j].tr \in informed /\ 0 < Deduced(j)
      BY <1>29
    <3>4. ASSUME NEW i \in 1..left, j <= deductions_marks'[i].lim PROVE Deduced(j) <= backtrack_points'[i]
      BY <3>4, <1>14, <1>16, <1>29
    <3> QED BY <3>1, <3>2, <3>3, <3>4, <1>11
  <2>2. \A e \in deductions' : e \in DOMAIN edges' /\ 0 < setTime'[e]
    BY <1>11, <1>32
  <2>3. \A l \in Literal :
            Known(l) /\ EdgeOf(l) \in deductions' =>
                /\ \E j \in 1..lim : th_deductions'[j] = l
                /\ \A i \in 1..left : setTime'[EdgeOf(l)] <= backtrack_points'[i]
                                         => \E j \in 1..deductions_marks'[i].lim : th_deductions'[j] = l
    BY <1>14, <1>16, <1>33
  <2> QED BY <2>1, <2>2, <2>3, <1>11, <1>16, <1>27, <1>30, <1>34 DEF DeductionsKept, EdgeOf, Known
<1> QED BY <1>12, <1>13, <1>18, <1>25, <1>28, <1>35 DEF SolverRight

-----------------------------------------------------------------------------
(* The invariant, and what follows from it.                                *)

\* Every action leaves the solver right unless an exception leaves it.
LEMMA InvariantKept ==
    ASSUME AllAssignments, SolverInv, [Next]_vars
    PROVE  SolverInv'
<1> SUFFICES ASSUME ~ thrown' PROVE SolverRight'
  BY DEF SolverInv
<1>1. CASE UNCHANGED vars
  <2>1. SolverRight
    BY <1>1 DEF SolverInv, vars
  <2>2. inv_bpoint' = inv_bpoint /\ deductions_next' = deductions_next /\ inv_bpoint \in Nat /\ deductions_next \in Nat
    BY <1>1, <2>1 DEF vars, tsolverVars, conflictVars, SolverRight, StackRight, MarksOrdered
  <2> QED BY <1>1, <2>1, <2>2, QuestionRight DEF vars, tsolverVars, conflictVars
<1>2. ASSUME NEW a \in Atoms, declareAtom(a) PROVE SolverRight'
  <2>1. SolverRight
    BY <1>2 DEF SolverInv, declareAtom
  <2> QED BY <1>2, <2>1, DeclareRight
<1>3. ASSUME NEW l \in Literal, assertLit(l) PROVE SolverRight'
  <2>1. SolverRight
    BY <1>3 DEF SolverInv, assertLit
  <2> QED BY <1>3, <2>1, AssertRight
<1>4. ASSUME NEW n \in 1..Cardinality(Atoms), popBacktrackPoints(n) PROVE SolverRight'
  <2>1. SolverRight
    BY <1>4 DEF SolverInv, popBacktrackPoints
  <2> QED BY <1>4, <2>1, PopRight
<1>5. CASE getConflict
  <2>1. SolverRight
    BY <1>5 DEF SolverInv, getConflict
  <2>2. inv_bpoint' = inv_bpoint /\ deductions_next' = deductions_next /\ inv_bpoint \in Nat /\ deductions_next \in Nat
    BY <1>5, <2>1 DEF getConflict, tsolverVars, conflictVars, SolverRight, StackRight, MarksOrdered
  <2> QED BY <1>5, <2>1, <2>2, QuestionRight DEF getConflict, tsolverVars, conflictVars
<1>6. ASSUME NEW l, getReasonFor(l) PROVE SolverRight'
  <2>1. SolverRight
    BY <1>6 DEF SolverInv, getReasonFor
  <2>2. inv_asgn = NoLiteral /\ deductions_next \in Nat
    BY <1>6, <2>1 DEF getReasonFor, SolverRight, MarksOrdered
  <2>3. /\ inv_bpoint' = 0
        /\ UNCHANGED <<inv_asgn, deductions_marks, backtrack_points, informed, th_deductions, deductions_next,
                       polarity, storeVars, graphVars, stack>>
    BY <1>6 DEF getReasonFor
  <2> QED BY <2>1, <2>2, <2>3, QuestionRight
<1>7. CASE deduceTheory
  <2>1. SolverRight
    BY <1>7 DEF SolverInv, deduceTheory
  <2>2. Len(th_deductions) \in Nat
    BY <2>1, LenProperties DEF SolverRight, MarksOrdered
  <2>3. deductions_next' \in Nat /\ inv_bpoint' = inv_bpoint /\ inv_bpoint \in Nat
    BY <1>7, <2>1, <2>2 DEF deduceTheory, FetchDeductions, conflictVars, SolverRight, StackRight
  <2> QED BY <1>7, <2>1, <2>3, QuestionRight DEF deduceTheory, conflictVars
<1>8. CASE computeModel
  <2>1. SolverRight
    BY <1>8 DEF SolverInv, computeModel
  <2>2. inv_bpoint' = inv_bpoint /\ deductions_next' = deductions_next /\ inv_bpoint \in Nat /\ deductions_next \in Nat
    BY <1>8, <2>1 DEF computeModel, tsolverVars, conflictVars, SolverRight, StackRight, MarksOrdered
  <2> QED BY <1>8, <2>1, <2>2, QuestionRight DEF computeModel, tsolverVars, conflictVars
<1>9. CASE clearSolver
  <2>1. SolverRight
    BY <1>9 DEF SolverInv, clearSolver
  <2> QED BY <1>9, <2>1, ClearRight
<1> QED BY <1>1, <1>2, <1>3, <1>4, <1>5, <1>6, <1>7, <1>8, <1>9 DEF Next

\* The store, the graph, the points, the conflict and the deductions are always right.
THEOREM SolverAlwaysRight ==
    ASSUME AllAssignments
    PROVE  Spec => []SolverInv
<1>1. Init => SolverInv
  BY StartsRight DEF SolverInv
<1>2. SolverInv /\ [Next]_vars => SolverInv'
  BY InvariantKept
<1> QED BY <1>1, <1>2, PTL DEF Spec

\* The edge of a literal means what the literal does.
LEMMA EdgeMeans ==
    ASSUME StoreRight, NEW l \in Literal, l.tr \in informed, Exact(l)
    PROVE  OfEdge(EdgeOf(l)) = Meant(l)
<1> DEFINE k == Parsed[l.tr]
           e == leqToEdge[l.tr]
<1>1. l.tr \in Atoms /\ l.sgn \in BOOLEAN
  BY DEF Literal
<1>2. k \in [from : Vertices, to : Vertices, c : Int]
  BY <1>1, AtomsAssumption
<1>3. k = [from |-> k.from, to |-> k.to, c |-> k.c]
  BY <1>2
<1>4. GetValue(k.c) = k.c
  BY DEF Exact, GetValue
<1>5. /\ e \in DOMAIN edges /\ edges[e].from = k.from /\ edges[e].to = k.to /\ edges[e].cost = k.c
  BY <1>4 DEF StoreRight
<1>6. /\ edges[edges[e].neg].from = k.to /\ edges[edges[e].neg].to = k.from
      /\ edges[edges[e].neg].cost = -k.c - 1
  BY <1>5 DEF StoreRight, NegationRight
<1> HIDE DEF k, e
<1>7. CASE l.sgn
  <2>1. EdgeOf(l) = e
    BY <1>7 DEF EdgeOf, e
  <2>2. Meant(l) = [from |-> k.from, to |-> k.to, c |-> k.c]
    BY <1>3, <1>7 DEF Meant, k
  <2> QED BY <2>1, <2>2, <1>5 DEF OfEdge
<1>8. CASE ~ l.sgn
  <2>1. EdgeOf(l) = edges[e].neg
    BY <1>8 DEF EdgeOf, e
  <2>2. Meant(l) = [from |-> k.to, to |-> k.from, c |-> -k.c - 1]
    BY <1>8 DEF Meant, k
  <2> QED BY <2>1, <2>2, <1>6 DEF OfEdge
<1> QED BY <1>1, <1>7, <1>8

\* The given literals have edges, and these make up the graph.
LEMMA GivenFacts ==
    ASSUME SolverRight
    PROVE  /\ \A l \in Given : l \in Literal /\ l.tr \in informed /\ EdgeOf(l) \in DOMAIN edges
           /\ inv_asgn = NoLiteral => \A l \in Given : 0 < setTime[EdgeOf(l)]
           /\ \A g \in Range(addedEdges) : \E l \in Given : EdgeOf(l) = g
           /\ inv_asgn # NoLiteral => inv_asgn \in Given /\ 0 < setTime[edges[EdgeOf(inv_asgn)].neg]
<1>1. \A i \in DOMAIN stack : stack[i] \in Literal /\ stack[i].tr \in informed
  <2>1. stack \in Seq(Literal) /\ DOMAIN stack = 1..Len(stack)
    BY LenProperties DEF SolverRight, PointsOrdered
  <2> QED BY <2>1, ElementOfSeq DEF SolverRight, StackRight
<1>2. \A l \in Given : \E i \in DOMAIN stack : l = stack[i]
  BY DEF Given, Range
<1>3. \A i \in DOMAIN stack : stack[i] \in Given
  BY DEF Given, Range
<1>4. \A l \in Given : l \in Literal /\ l.tr \in informed /\ EdgeOf(l) \in DOMAIN edges
  BY <1>1, <1>2, EdgeOfLiteral DEF SolverRight
<1>5. inv_asgn = NoLiteral => \A l \in Given : 0 < setTime[EdgeOf(l)]
  BY <1>2 DEF SolverRight, StackRight
<1>6. \A g \in Range(addedEdges) : \E l \in Given : EdgeOf(l) = g
  BY <1>3 DEF SolverRight, StackRight
<1>7. inv_asgn # NoLiteral => inv_asgn \in Given /\ 0 < setTime[edges[EdgeOf(inv_asgn)].neg]
  BY <1>3 DEF SolverRight, StackRight
<1> QED BY <1>4, <1>5, <1>6, <1>7

\* The reported conflict is exact: the negation of the last literal holds, or the graph has a model.
LEMMA ConflictRight == ASSUME AllAssignments, SolverInv PROVE ConflictExact
<1> SUFFICES ASSUME ~ thrown, \A l \in Given : Exact(l)
             PROVE  inv_asgn = NoLiteral <=> Satisfiable({Meant(l) : l \in Given})
  BY DEF ConflictExact
<1>1. SolverRight /\ StoreRight /\ GraphRight
  BY DEF SolverInv, SolverRight
<1>2. \A l \in Given : OfEdge(EdgeOf(l)) = Meant(l)
  BY <1>1, GivenFacts, EdgeMeans
<1>3. Satisfiable({Meant(l) : l \in Given}) <=> \E m \in Assignments : \A l \in Given : Obeys(m, EdgeOf(l))
  <2>1. \A m : (\A k \in {Meant(l) : l \in Given} : Holds(m, k)) <=> \A l \in Given : Obeys(m, EdgeOf(l))
    BY <1>2 DEF Obeys
  <2> QED BY <2>1 DEF Satisfiable
<1>4. ASSUME inv_asgn = NoLiteral PROVE \E m \in Assignments : \A l \in Given : Obeys(m, EdgeOf(l))
  <2>1. PICK m \in Assignments : \A g \in Range(addedEdges) : Obeys(m, g)
    BY <1>1, GraphFacts
  <2>2. \A l \in Given : EdgeOf(l) \in DOMAIN edges /\ setTime[EdgeOf(l)] # 0
    BY <1>1, <1>4, GivenFacts, GraphFacts
  <2> QED BY <2>1, <2>2, <1>1, GraphFacts
<1>5. ASSUME NEW m \in Assignments, \A l \in Given : Obeys(m, EdgeOf(l)), inv_asgn # NoLiteral PROVE FALSE
  <2>1. \A g \in Range(addedEdges) : Obeys(m, g)
    BY <1>1, <1>5, GivenFacts
  <2> DEFINE e == EdgeOf(inv_asgn)
  <2>2. inv_asgn \in Given /\ e \in DOMAIN edges /\ setTime[edges[e].neg] # 0 /\ edges[e].neg \in DOMAIN edges
    <3>1. inv_asgn \in Given /\ e \in DOMAIN edges /\ 0 < setTime[edges[e].neg]
      BY <1>1, <1>5, GivenFacts
    <3>2. edges[e].neg \in DOMAIN edges
      BY <3>1, <1>1 DEF StoreRight, NegationRight
    <3> QED BY <3>1, <3>2, <1>1, GraphFacts
  <2>3. Obeys(m, edges[e].neg)
    BY <2>1, <2>2, <1>1, GraphFacts
  <2>4. Obeys(m, e)
    BY <2>2, <1>5
  <2> QED BY <2>2, <2>3, <2>4, <1>1, NegatedEdge
<1> QED BY <1>3, <1>4, <1>5

\* The edges that are true are those that the given literals imply.
LEMMA TrueEdgesRight == ASSUME AllAssignments, SolverInv PROVE TrueEdgesExact
<1> SUFFICES ASSUME ~ thrown, inv_asgn = NoLiteral, NEW e \in DOMAIN edges
             PROVE  isTrue(e) <=> Implied(Models(ReadAs(Given)), OfEdge(e))
  BY DEF TrueEdgesExact
<1>1. SolverRight /\ StoreRight /\ GraphRight
  BY DEF SolverInv, SolverRight
<1>2. \A m : (\A k \in ReadAs(Given) : Holds(m, k)) <=> \A l \in Given : Obeys(m, EdgeOf(l))
  BY DEF ReadAs, Obeys
<1>3. ASSUME NEW m \in Assignments
      PROVE  (\A l \in Given : Obeys(m, EdgeOf(l))) <=> \A g \in Range(addedEdges) : Obeys(m, g)
  <2>1. \A l \in Given : EdgeOf(l) \in DOMAIN edges /\ setTime[EdgeOf(l)] # 0
    BY <1>1, GivenFacts, GraphFacts
  <2>2. ASSUME \A g \in Range(addedEdges) : Obeys(m, g) PROVE \A l \in Given : Obeys(m, EdgeOf(l))
    BY <2>1, <2>2, <1>1, GraphFacts
  <2>3. ASSUME \A l \in Given : Obeys(m, EdgeOf(l)) PROVE \A g \in Range(addedEdges) : Obeys(m, g)
    BY <2>3, <1>1, GivenFacts
  <2> QED BY <2>2, <2>3
<1>4. Implied(Models(ReadAs(Given)), OfEdge(e))
          <=> \A m \in Assignments : (\A g \in Range(addedEdges) : Obeys(m, g)) => Obeys(m, e)
  BY <1>2, <1>3 DEF Implied, Models, Obeys
<1>5. setTime[e] # 0 <=> \A m \in Assignments : (\A g \in Range(addedEdges) : Obeys(m, g)) => Obeys(m, e)
  BY <1>1, GraphFacts
<1> QED BY <1>4, <1>5 DEF isTrue

\* What was deduced follows from the given literals, and nothing found is left out.
LEMMA DeductionsRight == ASSUME AllAssignments, SolverInv PROVE DeductionsExact
<1> SUFFICES ASSUME ~ thrown, inv_asgn = NoLiteral
             PROVE  /\ \A i \in DOMAIN th_deductions :
                          Implied(Models(ReadAs(Given)), OfEdge(EdgeOf(th_deductions[i])))
                    /\ \A l \in Literal :
                          (l.tr \in informed /\ edgeToLeq[leqToEdge[l.tr]] = l.tr /\ EdgeOf(l) \in deductions)
                              => l \in Given \cup Range(th_deductions)
  BY DEF DeductionsExact
<1>1. SolverRight /\ StoreRight /\ GraphRight /\ DeductionsKept
  BY DEF SolverInv, SolverRight
<1>2. ASSUME NEW i \in DOMAIN th_deductions
      PROVE  Implied(Models(ReadAs(Given)), OfEdge(EdgeOf(th_deductions[i])))
  <2> DEFINE e == EdgeOf(th_deductions[i])
  <2>1. th_deductions[i] \in Literal
    <3>1. th_deductions \in Seq(Literal)
      BY <1>1 DEF SolverRight, MarksOrdered
    <3>2. DOMAIN th_deductions = 1..Len(th_deductions)
      BY <3>1, LenProperties
    <3> QED BY <3>1, <3>2, ElementOfSeq
  <2>2. th_deductions[i].tr \in informed /\ 0 < setTime[e]
    BY <1>1 DEF DeductionsKept
  <2>3. e \in DOMAIN edges
    BY <2>1, <2>2, <1>1, EdgeOfLiteral
  <2>4. isTrue(e)
    BY <2>2, <2>3, <1>1, GraphFacts DEF isTrue
  <2> HIDE DEF e
  <2>5. Implied(Models(ReadAs(Given)), OfEdge(e))
    BY <2>3, <2>4, TrueEdgesRight DEF TrueEdgesExact
  <2> QED BY <2>5 DEF e
<1>3. ASSUME NEW l \in Literal, l.tr \in informed, edgeToLeq[leqToEdge[l.tr]] = l.tr, EdgeOf(l) \in deductions
      PROVE  l \in Range(th_deductions)
  <2>1. \E j \in DOMAIN th_deductions : th_deductions[j] = l
    BY <1>1, <1>3 DEF DeductionsKept, Known
  <2> QED BY <2>1 DEF Range
<1> QED BY <1>2, <1>3

\* The solver reports a conflict exactly when the constraints given to it, as the user wrote them, are
\* contradictory: assertLit() looks at one edge only, after any backtracking.
THEOREM ConflictAlwaysExact ==
    ASSUME AllAssignments
    PROVE  Spec => []ConflictExact
<1>1. SolverInv => ConflictExact
  BY ConflictRight
<1> QED BY <1>1, SolverAlwaysRight, PTL

\* The edges that hold are those that the given literals imply: findConsequences() misses none, and
\* removeAfter() takes back all that the popped literals implied and nothing else.
THEOREM TrueEdgesAlwaysExact ==
    ASSUME AllAssignments
    PROVE  Spec => []TrueEdgesExact
<1>1. SolverInv => TrueEdgesExact
  BY TrueEdgesRight
<1> QED BY <1>1, SolverAlwaysRight, PTL

\* What the solver tells the SAT solver follows from what it was given, and no consequence that was
\* found is missing.
THEOREM DeductionsAlwaysExact ==
    ASSUME AllAssignments
    PROVE  Spec => []DeductionsExact
<1>1. SolverInv => DeductionsExact
  BY DeductionsRight
<1> QED BY <1>1, SolverAlwaysRight, PTL

-----------------------------------------------------------------------------
(* The model.                                                              *)

\* No step of a search forgets an edge.
LEMMA CoverFollows ==
    ASSUME StoreTyped, NEW forward \in BOOLEAN, NEW list, IsList(list), NEW init \in Vertices,
           NEW goal, NEW cost, NEW s \in CoverOf(forward, list, init), ~ Ended(s, goal, cost)
    PROVE  /\ Following(forward, list, s) \in CoverOf(forward, list, init)
           /\ s.seen \subseteq Following(forward, list, s).seen
<1>1. s \in Searches
  BY DEF CoverOf
<1>2. s.inRange /\ (s.todo = <<>> => s.open # <<>>)
  BY <1>1, SearchTyped DEF Ended
<1>3. CASE s.todo = <<>>
  BY <1>2, <1>3, CoverScans DEF Following
<1>4. CASE s.todo # <<>>
  <2> DEFINE t == Relax(forward, s)
  <2>1. t \in CoverOf(forward, list, init) /\ RelaxDoes(forward, s, t)
    BY <1>2, <1>4, CoverRelaxes
  <2> HIDE DEF t
  <2>2. s.seen \subseteq t.seen
    <3>1. CASE Skips(s, t)
      BY <3>1 DEF Skips
    <3>2. CASE t = [s EXCEPT !.inRange = FALSE]
      BY <1>1, <3>2 DEF Searches
    <3>3. CASE t.seen = s.seen \cup {HeadOf(forward, Head(s.todo))}
      BY <3>3
    <3> QED BY <2>1, <3>1, <3>2, <3>3 DEF RelaxDoes, Improves
  <2> QED BY <1>4, <2>1, <2>2 DEF Following, t
<1> QED BY <1>3, <1>4

\* computeModel()'s search ends with lengths that no edge of the graph shortens.
LEMMA BellmanFordRight ==
    ASSUME StoreTyped, IsList(addedEdges), BellmanFord.inRange
    PROVE  /\ InGraph \subseteq Vertices /\ BellmanFord \in Searches
           /\ \A e \in Range(addedEdges) :
                 /\ e \in DOMAIN edges /\ edges[e].from \in InGraph /\ edges[e].to \in InGraph
                 /\ BellmanFord.length[edges[e].to] <= BellmanFord.length[edges[e].from] + edges[e].cost
<1> DEFINE list == addedEdges
           J == {s \in CoverOf(TRUE, list, zero) : InGraph \subseteq s.seen}
           q == SetToSeq(InGraph)
           start == Started(q, zero, InGraph, TRUE)
           r == BellmanFord
<1>1. \A e \in Range(list) : /\ e \in DOMAIN edges /\ edges[e].from \in InGraph /\ edges[e].to \in InGraph
                             /\ edges[e].from \in Vertices /\ edges[e].to \in Vertices
  <2>1. Range(list) \subseteq DOMAIN edges
    BY RangeSplits DEF IsList
  <2> QED BY <2>1, EdgesTyped DEF InGraph
<1>2. InGraph \subseteq Vertices
  BY <1>1 DEF InGraph
<1>3. q \in Seq(Vertices) /\ Range(q) = InGraph
  <2>1. IsFiniteSet(InGraph)
    BY <1>2, FS_Subset, AtomsAssumption
  <2> HIDE DEF q
  <2>2. q \in Seq(InGraph) /\ \A x \in InGraph : \E i \in DOMAIN q : q[i] = x
    BY <2>1, Listed DEF q
  <2>3. q \in Seq(Vertices)
    BY <2>2, <1>2
  <2>4. Range(q) \subseteq InGraph
    BY <2>2, RangeSplits
  <2>5. InGraph \subseteq Range(q)
    BY <2>2 DEF Range
  <2> QED BY <2>3, <2>4, <2>5
<1> HIDE DEF q
<1>4. start \in J
  <2>1. [v \in Vertices |-> 0] \in [Vertices -> Values]
    BY WidthAssumption
  <2>2. [v \in Vertices |-> 0] \in [Vertices -> 0..Len(edges)]
    BY LenProperties DEF StoreTyped
  <2>3. start \in Searches
    BY <1>2, <1>3, <2>1, <2>2, AtomsAssumption DEF Started, Searches
  <2>4. start.open = q /\ start.curr = zero /\ start.todo = <<>> /\ start.seen = InGraph
    BY DEF Started
  <2> HIDE DEF start
  <2>5. Range(start.open) = InGraph /\ Range(start.todo) = {}
    BY <1>3, <2>4 DEF Range
  <2>6. ASSUME NEW e \in Range(list) PROVE Pending(TRUE, start, e)
    BY <1>1, <2>5 DEF Pending, TailOf
  <2>7. start \in CoverOf(TRUE, list, zero)
    BY <2>3, <2>4, <2>5, <2>6 DEF CoverOf
  <2> QED BY <2>4, <2>7
<1>5. J \in SUBSET Searches
  BY DEF CoverOf
<1>6. ASSUME NEW s \in J, ~ Ended(s, NoLiteral, 0) PROVE Following(TRUE, list, s) \in J
  <2>1. s \in CoverOf(TRUE, list, zero) /\ InGraph \subseteq s.seen
    OBVIOUS
  <2>2. /\ Following(TRUE, list, s) \in CoverOf(TRUE, list, zero)
        /\ s.seen \subseteq Following(TRUE, list, s).seen
    BY <2>1, <1>6, CoverFollows, AtomsAssumption
  <2> QED BY <2>1, <2>2
<1>7. r \in {s \in J : Ended(s, NoLiteral, 0)}
  <2> HIDE DEF J, start
  <2> QED BY <1>4, <1>5, <1>6, SearchKeeps DEF BellmanFord, start, q
<1>8. r \in CoverOf(TRUE, list, zero) /\ InGraph \subseteq r.seen /\ r \in Searches /\ Ended(r, NoLiteral, 0) /\ r.inRange
  BY <1>5, <1>7
<1> HIDE DEF r, J
<1>9. r.todo = <<>> /\ r.open = <<>>
  <2>1. r.open # <<>> => Head(r.open) \in Vertices
    BY <1>8, SearchTyped, HeadTailProperties
  <2> QED BY <1>8, <2>1, AtomsAssumption DEF Ended
<1>10. ASSUME NEW e \in Range(list) PROVE r.length[edges[e].to] <= r.length[edges[e].from] + edges[e].cost
  <2>1. Range(r.todo) = {} /\ Range(r.open) = {}
    BY <1>9 DEF Range
  <2>2. ~ Pending(TRUE, r, e)
    BY <1>8, <2>1 DEF Pending
  <2>3. edges[e].from \in r.seen
    BY <1>1, <1>8
  <2>4. Relaxed(TRUE, r, e)
    BY <1>8, <2>2, <2>3 DEF CoverOf, TailOf
  <2> QED BY <2>4 DEF Relaxed, HeadOf, TailOf
<1> QED BY <1>1, <1>2, <1>8, <1>10 DEF r

\* Where an edge holds, both of its vertices are in the graph, and the model satisfies it.
LEMMA ModelObeys ==
    ASSUME AllAssignments, SolverRight, BellmanFord.inRange, NEW e \in DOMAIN edges, isTrue(e)
    PROVE  /\ edges[e].from \in InGraph /\ edges[e].to \in InGraph
           /\ ValMap[edges[e].to] - ValMap[edges[e].from] <= edges[e].cost
<1> DEFINE dist == BellmanFord.length
           m == [v \in Vertices |-> IF v \in InGraph THEN dist[v] ELSE 0]
           f == edges[e].from
           g == edges[e].to
           c == edges[e].cost
           shift == IF zero \in InGraph THEN dist[zero] ELSE 0
<1>1. StoreRight /\ StoreTyped /\ GraphRight /\ IsList(addedEdges)
  BY DEF SolverRight, StoreRight, GraphRight, TimesOrdered
<1>2. /\ InGraph \subseteq Vertices /\ BellmanFord \in Searches
      /\ \A h \in Range(addedEdges) :
            /\ h \in DOMAIN edges /\ edges[h].from \in InGraph /\ edges[h].to \in InGraph
            /\ dist[edges[h].to] <= dist[edges[h].from] + edges[h].cost
  BY <1>1, BellmanFordRight
<1>3. \A v \in Vertices : dist[v] \in Int
  BY <1>2, SearchTyped
<1>4. f \in Vertices /\ g \in Vertices /\ c \in Int /\ f # g
  BY <1>1, EdgesTyped DEF StoreRight
<1>5. m \in [Vertices -> Int] /\ \A v \in InGraph : m[v] = dist[v]
  BY <1>2, <1>3
<1> HIDE DEF m, dist, f, g, c
<1>6. ASSUME NEW n \in [Vertices -> Int], \A v \in InGraph : n[v] = dist[v]
      PROVE  n[g] - n[f] <= c
  <2>1. ASSUME NEW h \in Range(addedEdges) PROVE Obeys(n, h)
    <3>1. edges[h].from \in InGraph /\ edges[h].to \in InGraph /\ edges[h].cost \in Int
      BY <1>1, <1>2, EdgesTyped
    <3>2. /\ dist[edges[h].to] <= dist[edges[h].from] + edges[h].cost
          /\ n[edges[h].from] = dist[edges[h].from] /\ n[edges[h].to] = dist[edges[h].to]
          /\ dist[edges[h].from] \in Int /\ dist[edges[h].to] \in Int
      BY <3>1, <1>2, <1>3, <1>6
    <3>3. n[edges[h].to] - n[edges[h].from] <= edges[h].cost
      BY <3>1, <3>2
    <3> QED BY <3>3 DEF Obeys, Holds, OfEdge
  <2>2. n \in Assignments /\ setTime[e] # 0
    BY DEF AllAssignments, isTrue
  <2>3. Obeys(n, e)
    BY <2>1, <2>2, <1>1, GraphFacts
  <2> QED BY <2>3 DEF Obeys, Holds, OfEdge, f, g, c
<1>7. g \in InGraph
  <2> SUFFICES ASSUME g \notin InGraph PROVE FALSE
    OBVIOUS
  <2> DEFINE n == [m EXCEPT ![g] = m[f] + c + 1]
  <2>1. m[f] \in Int
    BY <1>4, <1>5
  <2>2. n \in [Vertices -> Int] /\ n[g] = m[f] + c + 1 /\ n[f] = m[f] /\ \A v \in InGraph : n[v] = dist[v]
    BY <2>1, <1>2, <1>4, <1>5
  <2> HIDE DEF n
  <2>3. n[g] - n[f] <= c
    BY <2>2, <1>6
  <2> QED BY <2>1, <2>2, <2>3, <1>4
<1>8. f \in InGraph
  <2> SUFFICES ASSUME f \notin InGraph PROVE FALSE
    OBVIOUS
  <2> DEFINE n == [m EXCEPT ![f] = m[g] - c - 1]
  <2>1. m[g] \in Int
    BY <1>4, <1>5
  <2>2. n \in [Vertices -> Int] /\ n[f] = m[g] - c - 1 /\ n[g] = m[g] /\ \A v \in InGraph : n[v] = dist[v]
    BY <2>1, <1>2, <1>4, <1>5
  <2> HIDE DEF n
  <2>3. n[g] - n[f] <= c
    BY <2>2, <1>6
  <2> QED BY <2>1, <2>2, <2>3, <1>4
<1>9. ValMap[g] - ValMap[f] <= c
  <2>1. m[g] - m[f] <= c /\ m[g] = dist[g] /\ m[f] = dist[f] /\ dist[g] \in Int /\ dist[f] \in Int
    BY <1>3, <1>4, <1>5, <1>6, <1>7, <1>8
  <2>2. \A v \in InGraph : Distances[v] = dist[v]
    BY DEF Distances, dist
  <2>3. ValMap = [v \in InGraph |-> dist[v] - shift]
    BY <2>2 DEF ValMap
  <2>4. shift \in Int
    BY <1>2, <1>3
  <2> HIDE DEF shift
  <2>5. ValMap[g] = dist[g] - shift /\ ValMap[f] = dist[f] - shift
    BY <2>3, <1>7, <1>8
  <2> QED BY <2>1, <2>4, <2>5, <1>4
<1> QED BY <1>7, <1>8, <1>9 DEF f, g, c

\* The model satisfies what is given, as the user wrote it.
LEMMA ModelHolds == ASSUME AllAssignments, SolverInv PROVE ModelRight
<1> SUFFICES ASSUME ~ thrown, inv_asgn = NoLiteral, ModelInRange, NEW l \in Given, Exact(l)
             PROVE  /\ Meant(l).to \in InGraph /\ Meant(l).from \in InGraph
                    /\ ValMap[Meant(l).to] - ValMap[Meant(l).from] <= Meant(l).c
  BY DEF ModelRight
<1>1. SolverRight /\ StoreRight /\ GraphRight
  BY DEF SolverInv, SolverRight
<1> DEFINE e == EdgeOf(l)
<1>2. l \in Literal /\ l.tr \in informed /\ e \in DOMAIN edges /\ isTrue(e)
  <2>1. l \in Literal /\ l.tr \in informed /\ e \in DOMAIN edges /\ 0 < setTime[e]
    BY <1>1, GivenFacts
  <2> QED BY <2>1, <1>1, GraphFacts DEF isTrue
<1>3. OfEdge(e) = Meant(l)
  BY <1>1, <1>2, EdgeMeans
<1> HIDE DEF e
<1>4. Meant(l).from = edges[e].from /\ Meant(l).to = edges[e].to /\ Meant(l).c = edges[e].cost
  BY <1>3 DEF OfEdge
<1>5. BellmanFord.inRange
  BY DEF ModelInRange
<1> QED BY <1>1, <1>2, <1>4, <1>5, ModelObeys

\* The model that computeModel() finds satisfies every given literal as the user wrote it, whatever
\* the number of variables and however the search went.
THEOREM ModelAlwaysRight ==
    ASSUME AllAssignments
    PROVE  Spec => []ModelRight
<1>1. SolverInv => ModelRight
  BY ModelHolds
<1> QED BY <1>1, SolverAlwaysRight, PTL

-----------------------------------------------------------------------------
(* Which literal set an edge.                                              *)

\* The mapper knows, for each edge of the graph and for no other, the given literal that set it.
AsgnRight ==
    /\ edgeRefToAsgn \in [DOMAIN edges -> Literal \cup {NoLiteral}]
    /\ \A g \in DOMAIN edges :
          IF g \in Range(addedEdges)
          THEN \E i \in DOMAIN stack : /\ stack[i] = edgeRefToAsgn[g] /\ EdgeOf(stack[i]) = g
                                       /\ backtrack_points[i] < setTime[g]
          ELSE edgeRefToAsgn[g] = NoLiteral
    /\ has_explanation => inv_asgn # NoLiteral

AsgnInv == ~ thrown => AsgnRight

\* Nothing is set while atoms are declared, and a new edge has no literal.
LEMMA DeclareKeepsAsgn ==
    ASSUME AllAssignments, SolverRight, AsgnRight, NEW a \in Atoms, declareAtom(a)
    PROVE  AsgnRight'
<1>1. /\ GraphEmpty /\ inv_asgn = NoLiteral
  <2>1. backtrack_points = <<>>
    BY DEF declareAtom
  <2> QED BY <2>1, NothingLeft
<1>2. Range(addedEdges) = {} /\ addedEdges' = addedEdges
  <2>1. addedEdges = <<>> /\ addedEdges' = addedEdges
    BY <1>1 DEF GraphEmpty, declareAtom
  <2> QED BY <2>1 DEF Range
<1>3. edgeRefToAsgn \in [DOMAIN edges -> Literal \cup {NoLiteral}] /\ \A g \in DOMAIN edges : edgeRefToAsgn[g] = NoLiteral
  BY <1>2 DEF AsgnRight
<1>4. edgeRefToAsgn' \in [DOMAIN edges' -> {NoLiteral}]
  <2> DEFINE cost == GetValue(Parsed[a].c)
             edge == [from |-> Parsed[a].from, to |-> Parsed[a].to, cost |-> cost, neg |-> Len(edges) + 2]
             back == [from |-> edge.to, to |-> edge.from, cost |-> Negate(cost), neg |-> Len(edges) + 1]
             n == Len(edges)
             U == EdgeRecord \cup {edge, back}
  <2>1. \/ UNCHANGED <<edges, edgeRefToAsgn>>
        \/ edges' = edges \o <<edge, back>> /\ edgeRefToAsgn' = edgeRefToAsgn \o <<NoLiteral, NoLiteral>>
    BY DEF declareAtom
  <2>2. edges \in Seq(EdgeRecord) /\ edges \in Seq(U) /\ edge \in U /\ back \in U
    <3>1. edges \in Seq(EdgeRecord)
      BY DEF SolverRight, StoreRight, StoreTyped
    <3> HIDE DEF edge, back
    <3> QED BY <3>1
  <2> HIDE DEF edge, back, U
  <2>3. n \in Nat /\ DOMAIN edges = 1..n
    BY <2>2, LenProperties
  <2>4. edgeRefToAsgn \in [1..n -> {NoLiteral}]
    BY <1>3, <2>3
  <2>5. CASE UNCHANGED <<edges, edgeRefToAsgn>>
    BY <2>3, <2>4, <2>5
  <2>6. CASE edges' = edges \o <<edge, back>> /\ edgeRefToAsgn' = edgeRefToAsgn \o <<NoLiteral, NoLiteral>>
    <3>1. DOMAIN edges' = 1..(n + 2)
      BY <2>2, <2>6, AppendPair
    <3> HIDE DEF n
    <3>2. Grown(Longer(edgeRefToAsgn, NoLiteral, NoLiteral), {NoLiteral}, n, edgeRefToAsgn, NoLiteral, NoLiteral)
      <4>1. NoLiteral \in {NoLiteral}
        OBVIOUS
      <4> QED BY <4>1, <2>3, <2>4, AppendTwo
    <3>3. edgeRefToAsgn' \in [1..(n + 2) -> {NoLiteral}]
      BY <3>2, <2>6 DEF Grown, Longer
    <3> QED BY <3>1, <3>3
  <2> QED BY <2>1, <2>5, <2>6
<1>5. UNCHANGED <<has_explanation, inv_asgn>>
  BY DEF declareAtom, conflictVars
<1>6. has_explanation' => inv_asgn' # NoLiteral
  BY <1>5 DEF AsgnRight
<1> HIDE DEF GraphEmpty
<1> QED BY <1>2, <1>4, <1>6 DEF AsgnRight

\* An assertion sets at most the literal's own edge.
LEMMA AssertKeepsAsgn ==
    ASSUME AllAssignments, SolverRight, AsgnRight, NEW l \in Literal, assertLit(l), ~ thrown'
    PROVE  AsgnRight'
<1> DEFINE s == EdgeOf(l)
           n == Len(stack)
           graph == Append(addedEdges, s)
           found == Consequences(s, graph).found
           time == timestamp + 1
<1>1. StoreRight /\ GraphRight /\ PointsOrdered /\ StackRight
  BY DEF SolverRight
<1>2. l.tr \in informed /\ PointAdded(l)
  BY DEF assertLit, PointAdded, storeVars
<1>3. s \in DOMAIN edges
  BY <1>1, <1>2, EdgeOfLiteral
<1>4. /\ n \in Nat /\ DOMAIN stack = 1..n /\ DOMAIN stack' = 1..(n + 1)
      /\ \A i \in 1..n : stack'[i] = stack[i] /\ backtrack_points'[i] = backtrack_points[i]
      /\ stack'[n + 1] = l /\ backtrack_points'[n + 1] = timestamp
  <2>1. stack \in Seq(Literal) /\ backtrack_points \in Seq(Nat) /\ Len(stack) = Len(backtrack_points) /\ timestamp \in Nat
    BY <1>1, GraphFacts DEF PointsOrdered
  <2>2. stack' = Append(stack, l) /\ backtrack_points' = Append(backtrack_points, timestamp)
    BY <1>2 DEF PointAdded
  <2> QED BY <2>1, <2>2, AppendRange
<1>5. UNCHANGED <<edges, leqToEdge, edgeToLeq>>
  BY <1>2 DEF PointAdded
<1>7. /\ timestamp \in Nat /\ addedEdges \in Seq(DOMAIN edges)
      /\ \A g \in Range(addedEdges) : g \in DOMAIN edges /\ 0 < setTime[g]
  BY <1>1, GraphFacts
<1>8. NoLiteral \notin Literal
  BY AtomsAssumption
<1> HIDE DEF s, n
<1>9. ASSUME UNCHANGED graphVars PROVE /\ edgeRefToAsgn' \in [DOMAIN edges' -> Literal \cup {NoLiteral}]
                                       /\ \A g \in DOMAIN edges' :
                                            IF g \in Range(addedEdges')
                                            THEN \E i \in DOMAIN stack' :
                                                    /\ stack'[i] = edgeRefToAsgn'[g] /\ EdgeOf(stack[i])' = g
                                                    /\ backtrack_points'[i] < setTime'[g]
                                            ELSE edgeRefToAsgn'[g] = NoLiteral
  <2>1. edgeRefToAsgn' = edgeRefToAsgn /\ setTime' = setTime /\ addedEdges' = addedEdges
    BY <1>9 DEF graphVars
  <2>2. edgeRefToAsgn' \in [DOMAIN edges' -> Literal \cup {NoLiteral}]
    BY <2>1, <1>5 DEF AsgnRight
  <2>3. ASSUME NEW g \in DOMAIN edges, g \in Range(addedEdges)
        PROVE  \E i \in 1..(n + 1) : /\ stack'[i] = edgeRefToAsgn[g] /\ EdgeOf(stack'[i]) = g
                                     /\ backtrack_points'[i] < setTime[g]
    <3>1. PICK i \in 1..n : stack[i] = edgeRefToAsgn[g] /\ EdgeOf(stack[i]) = g /\ backtrack_points[i] < setTime[g]
      BY <2>3, <1>4 DEF AsgnRight
    <3>2. i \in 1..(n + 1)
      BY <3>1, <1>4
    <3> QED BY <3>1, <3>2, <1>4
  <2>4. \A g \in DOMAIN edges : g \notin Range(addedEdges) => edgeRefToAsgn[g] = NoLiteral
    BY DEF AsgnRight
  <2>5. \A i : EdgeOf(stack[i])' = EdgeOf(stack'[i])
    BY <1>5 DEF EdgeOf
  <2> QED BY <2>1, <2>2, <2>3, <2>4, <2>5, <1>4, <1>5
<1>10. CASE UNCHANGED <<has_explanation, graphVars, conflictVars>>
  <2>1. has_explanation' => inv_asgn' # NoLiteral
    BY <1>10 DEF AsgnRight, conflictVars
  <2> QED BY <1>9, <1>10, <2>1 DEF AsgnRight
<1>11. CASE inv_asgn' = l /\ UNCHANGED graphVars
  BY <1>8, <1>9, <1>11 DEF AsgnRight
<1>12. CASE /\ ~ isTrue(s)
            /\ addedEdges' = graph
            /\ edgeRefToAsgn' = [edgeRefToAsgn EXCEPT ![s] = l]
            /\ setTime' = [e \in DOMAIN edges |-> IF e \in found \cup {s} THEN time ELSE setTime[e]]
            /\ found \subseteq {f \in DOMAIN edges : setTime[f] = 0}
            /\ UNCHANGED <<has_explanation, conflictVars>>
  <2>1. Range(addedEdges') = Range(addedEdges) \cup {s}
    BY <1>3, <1>7, <1>12, AppendRange
  <2>2. edgeRefToAsgn' \in [DOMAIN edges' -> Literal \cup {NoLiteral}]
    BY <1>5, <1>12 DEF AsgnRight
  <2>3. ASSUME NEW g \in Range(addedEdges)
        PROVE  \E i \in 1..(n + 1) : /\ stack'[i] = edgeRefToAsgn'[g] /\ EdgeOf(stack'[i]) = g
                                     /\ backtrack_points'[i] < setTime'[g]
    <3>1. g \in DOMAIN edges /\ 0 < setTime[g]
      BY <1>7
    <3>2. PICK i \in 1..n : stack[i] = edgeRefToAsgn[g] /\ EdgeOf(stack[i]) = g /\ backtrack_points[i] < setTime[g]
      BY <3>1, <1>4 DEF AsgnRight
    <3>3. i \in 1..(n + 1)
      BY <3>2, <1>4
    <3>4. g # s /\ g \notin found
      BY <3>1, <1>12 DEF isTrue
    <3>5. edgeRefToAsgn'[g] = edgeRefToAsgn[g] /\ setTime'[g] = setTime[g]
      BY <3>1, <3>4, <1>12 DEF AsgnRight
    <3> QED BY <3>2, <3>3, <3>5, <1>4
  <2>4. /\ stack'[n + 1] = edgeRefToAsgn'[s] /\ EdgeOf(stack'[n + 1]) = s
        /\ backtrack_points'[n + 1] < setTime'[s] /\ n + 1 \in 1..(n + 1)
    <3>1. edgeRefToAsgn'[s] = l
      BY <1>3, <1>12 DEF AsgnRight
    <3>2. setTime'[s] = time
      BY <1>3, <1>12
    <3> QED BY <3>1, <3>2, <1>4, <1>7 DEF s
  <2>5. ASSUME NEW g \in DOMAIN edges, g \notin Range(addedEdges') PROVE edgeRefToAsgn'[g] = NoLiteral
    <3>1. g # s /\ g \notin Range(addedEdges)
      BY <2>1, <2>5
    <3> QED BY <3>1, <1>12 DEF AsgnRight
  <2>6. has_explanation' => inv_asgn' # NoLiteral
    BY <1>12 DEF AsgnRight, conflictVars
  <2>7. \A i : EdgeOf(stack[i])' = EdgeOf(stack'[i])
    BY <1>5 DEF EdgeOf
  <2>8. ASSUME NEW g \in DOMAIN edges, g \in Range(addedEdges')
        PROVE  \E i \in DOMAIN stack' : /\ stack'[i] = edgeRefToAsgn'[g] /\ EdgeOf(stack[i])' = g
                                        /\ backtrack_points'[i] < setTime'[g]
    <3>1. PICK i \in 1..(n + 1) : /\ stack'[i] = edgeRefToAsgn'[g] /\ EdgeOf(stack'[i]) = g
                                  /\ backtrack_points'[i] < setTime'[g]
      BY <2>1, <2>3, <2>4, <2>8
    <3>2. i \in DOMAIN stack' /\ EdgeOf(stack[i])' = g
      BY <3>1, <2>7, <1>4
    <3> QED BY <3>1, <3>2
  <2> QED BY <2>2, <2>5, <2>6, <2>8, <1>5 DEF AsgnRight
<1>13. \/ UNCHANGED <<has_explanation, graphVars, conflictVars>>
       \/ inv_asgn' = l /\ UNCHANGED graphVars
       \/ /\ ~ isTrue(s) /\ ~ isTrue(edges[s].neg)
          /\ Consequences(s, graph).inRange
          /\ addedEdges' = graph
          /\ edgeRefToAsgn' = [edgeRefToAsgn EXCEPT ![s] = l]
          /\ setTime' = [e \in DOMAIN edges |-> IF e \in found \cup {s} THEN time ELSE setTime[e]]
          /\ UNCHANGED <<has_explanation, conflictVars>>
  BY DEF assertLit, s
<1>14. ASSUME ~ isTrue(s), ~ isTrue(edges[s].neg), Consequences(s, graph).inRange
       PROVE  found \subseteq {f \in DOMAIN edges : setTime[f] = 0}
  <2>1. \A f \in found : f \in DOMAIN edges /\ setTime[f] = 0
    BY <1>1, <1>3, <1>14, NewEdge
  <2> QED BY <2>1
<1> QED BY <1>10, <1>11, <1>12, <1>13, <1>14

\* Popping takes the literals of the edges that it removes back, and of no other.
LEMMA PopKeepsAsgn ==
    ASSUME AllAssignments, SolverRight, AsgnRight, NEW n \in 1..Cardinality(Atoms), popBacktrackPoints(n)
    PROVE  AsgnRight'
<1> DEFINE all == Len(backtrack_points)
           left == all - n
           point == backtrack_points[left + 1]
<1>1. StoreRight /\ GraphRight /\ PointsOrdered
  BY DEF SolverRight
<1>2. /\ backtrack_points \in Seq(Nat) /\ stack \in Seq(Literal) /\ Len(stack) = all
      /\ all \in Nat /\ DOMAIN backtrack_points = 1..all /\ DOMAIN stack = 1..all
  <2>1. backtrack_points \in Seq(Nat) /\ stack \in Seq(Literal) /\ Len(stack) = all
    BY <1>1 DEF PointsOrdered
  <2> QED BY <2>1, LenProperties
<1>3. left \in 0..all /\ left \in Nat /\ left + 1 \in 1..all
  <2>1. n \in 1..all
    BY DEF popBacktrackPoints
  <2> HIDE DEF all
  <2> QED BY <2>1, <1>2
<1>4. /\ IF inv_bpoint > left
         THEN inv_asgn' = NoLiteral /\ has_explanation' = FALSE
         ELSE UNCHANGED <<conflictVars, has_explanation>>
      /\ removeAfter(point)
      /\ backtrack_points' = SubSeq(backtrack_points, 1, left)
      /\ stack' = SubSeq(stack, 1, left)
      /\ UNCHANGED informed /\ UNCHANGED storeVars
  BY DEF popBacktrackPoints
<1> HIDE DEF left, all
<1>5. /\ DOMAIN stack' = 1..left
      /\ \A i \in 1..left : stack'[i] = stack[i] /\ backtrack_points'[i] = backtrack_points[i]
  <2>1. left \in 0..Len(stack) /\ left \in 0..Len(backtrack_points)
    BY <1>2, <1>3 DEF all
  <2>2. DOMAIN stack' = 1..left /\ \A i \in 1..left : stack'[i] = stack[i]
    BY <1>2, <1>4, <2>1, Beginning
  <2>3. \A i \in 1..left : backtrack_points'[i] = backtrack_points[i]
    BY <1>2, <1>4, <2>1, Beginning
  <2> QED BY <2>2, <2>3
<1>6. \A i \in 1..all : backtrack_points[i] \in Nat /\ (left + 1 <= i => point <= backtrack_points[i])
  <2>1. \A i \in 1..all : backtrack_points[i] \in Nat
    BY <1>2, ElementOfSeq DEF all
  <2> QED BY <2>1, <1>1, <1>2, <1>3 DEF PointsOrdered
<1>7. point \in Nat /\ point <= timestamp
  BY <1>1, <1>2, <1>3, <1>6 DEF PointsOrdered
<1> HIDE DEF point
<1>8. GraphCut(point)
  BY <1>4, <1>7, RemoveAfterCuts
<1>9. /\ Range(addedEdges') = {g \in Range(addedEdges) : setTime[g] <= point}
      /\ \A g \in Range(addedEdges') : setTime'[g] = setTime[g]
      /\ \A e \in DOMAIN edges : setTime[e] \in Nat
  BY <1>1, <1>7, <1>8, GraphCutRight
<1>10. edges' = edges
  BY <1>4 DEF storeVars
<1>11. /\ edgeRefToAsgn' \in [DOMAIN edges -> Literal \cup {NoLiteral}]
       /\ \A g \in DOMAIN edges :
             edgeRefToAsgn'[g] = IF setTime[g] > point THEN NoLiteral ELSE edgeRefToAsgn[g]
  <2>1. edgeRefToAsgn \in [DOMAIN edges -> Literal \cup {NoLiteral}]
    BY DEF AsgnRight
  <2>2. CASE addedEdges = <<>>
    <3>1. edgeRefToAsgn' = edgeRefToAsgn
      BY <2>2, <1>4 DEF removeAfter, graphVars
    <3>2. Range(addedEdges) = {}
      BY <2>2 DEF Range
    <3>3. \A g \in DOMAIN edges : edgeRefToAsgn[g] = NoLiteral
      BY <3>2 DEF AsgnRight
    <3> QED BY <2>1, <3>1, <3>3
  <2>3. CASE addedEdges # <<>>
    <3>1. edgeRefToAsgn' = [e \in DOMAIN edges |->
                               IF e \in {f \in DOMAIN edges : setTime[f] > point} THEN NoLiteral ELSE edgeRefToAsgn[e]]
      BY <2>3, <1>4 DEF removeAfter
    <3> QED BY <2>1, <3>1
  <2> QED BY <2>2, <2>3
<1>12. ASSUME NEW g \in DOMAIN edges, g \in Range(addedEdges')
       PROVE  \E i \in 1..left : /\ stack'[i] = edgeRefToAsgn'[g] /\ EdgeOf(stack[i])' = g
                                 /\ backtrack_points'[i] < setTime'[g]
  <2>1. g \in Range(addedEdges) /\ setTime[g] <= point /\ setTime'[g] = setTime[g] /\ setTime[g] \in Nat
    BY <1>9, <1>12
  <2>2. PICK i \in 1..all : stack[i] = edgeRefToAsgn[g] /\ EdgeOf(stack[i]) = g /\ backtrack_points[i] < setTime[g]
    BY <2>1, <1>2 DEF AsgnRight
  <2>3. i \in 1..left
    <3>1. backtrack_points[i] \in Nat /\ ~ (left + 1 <= i)
      BY <2>1, <2>2, <1>6, <1>7
    <3> QED BY <3>1, <1>2, <1>3
  <2>4. edgeRefToAsgn'[g] = edgeRefToAsgn[g]
    BY <2>1, <1>7, <1>11
  <2>5. EdgeOf(stack[i])' = EdgeOf(stack'[i])
    BY <1>4 DEF storeVars, EdgeOf
  <2> QED BY <2>1, <2>2, <2>3, <2>4, <2>5, <1>5
<1>13. ASSUME NEW g \in DOMAIN edges, g \notin Range(addedEdges') PROVE edgeRefToAsgn'[g] = NoLiteral
  <2>1. CASE g \in Range(addedEdges)
    BY <2>1, <1>7, <1>9, <1>11, <1>13
  <2>2. CASE g \notin Range(addedEdges)
    BY <2>2, <1>11 DEF AsgnRight
  <2> QED BY <2>1, <2>2
<1>14. has_explanation' => inv_asgn' # NoLiteral
  BY <1>4 DEF AsgnRight, conflictVars
<1> QED BY <1>5, <1>10, <1>11, <1>12, <1>13, <1>14 DEF AsgnRight

\* The calls that only ask set nothing.
LEMMA QuestionKeepsAsgn ==
    ASSUME AsgnRight, UNCHANGED <<storeVars, graphVars, backtrack_points, inv_asgn, stack, has_explanation>>
    PROVE  AsgnRight'
BY DEF AsgnRight, EdgeOf, graphVars, storeVars

\* The mapper is right at the start and after every call.
LEMMA AsgnAlwaysRight ==
    ASSUME AllAssignments
    PROVE  Spec => []AsgnInv
<1>1. Init => AsgnInv
  <2> SUFFICES ASSUME Init PROVE AsgnRight
    BY DEF AsgnInv
  <2>1. edges = <<>> /\ edgeRefToAsgn = <<>> /\ ~ has_explanation
    BY DEF Init, TSolverInit
  <2>2. DOMAIN edges = {}
    BY <2>1
  <2>3. edgeRefToAsgn \in [DOMAIN edges -> Literal \cup {NoLiteral}]
    BY <2>1, <2>2
  <2> QED BY <2>1, <2>2, <2>3 DEF AsgnRight
<1>2. ASSUME SolverInv, AsgnInv, [Next]_vars PROVE AsgnInv'
  <2> SUFFICES ASSUME ~ thrown' PROVE AsgnRight'
    BY DEF AsgnInv
  <2>0. ASSUME ~ thrown PROVE SolverRight /\ AsgnRight
    BY <1>2, <2>0 DEF SolverInv, AsgnInv
  <2>1. CASE UNCHANGED vars
    BY <2>0, <2>1, QuestionKeepsAsgn DEF vars, tsolverVars, conflictVars
  <2>2. ASSUME NEW a \in Atoms, declareAtom(a) PROVE AsgnRight'
    <3>1. ~ thrown
      BY <2>2 DEF declareAtom
    <3> QED BY <3>1, <2>0, <2>2, DeclareKeepsAsgn
  <2>3. ASSUME NEW l \in Literal, assertLit(l) PROVE AsgnRight'
    <3>1. ~ thrown
      BY <2>3 DEF assertLit
    <3> QED BY <3>1, <2>0, <2>3, AssertKeepsAsgn
  <2>4. ASSUME NEW n \in 1..Cardinality(Atoms), popBacktrackPoints(n) PROVE AsgnRight'
    <3>1. ~ thrown
      BY <2>4 DEF popBacktrackPoints
    <3> QED BY <3>1, <2>0, <2>4, PopKeepsAsgn
  <2>5. CASE getConflict
    BY <2>0, <2>5, QuestionKeepsAsgn DEF getConflict, tsolverVars, conflictVars
  <2>6. ASSUME NEW l, getReasonFor(l) PROVE AsgnRight'
    <3>1. ~ thrown /\ UNCHANGED <<storeVars, graphVars, backtrack_points, inv_asgn, stack, has_explanation>>
      BY <2>6 DEF getReasonFor
    <3> QED BY <3>1, <2>0, QuestionKeepsAsgn
  <2>7. CASE deduceTheory
    BY <2>0, <2>7, QuestionKeepsAsgn DEF deduceTheory, conflictVars
  <2>8. CASE computeModel
    BY <2>0, <2>8, QuestionKeepsAsgn DEF computeModel, tsolverVars, conflictVars
  <2>9. CASE clearSolver
    <3>1. /\ edges' = <<>> /\ edgeRefToAsgn' = <<>> /\ ~ has_explanation'
      BY <2>9 DEF clearSolver, ClearTSolver
    <3>2. DOMAIN edges' = {}
      BY <3>1
    <3>3. edgeRefToAsgn' \in [DOMAIN edges' -> Literal \cup {NoLiteral}]
      BY <3>1, <3>2
    <3> QED BY <3>1, <3>2, <3>3 DEF AsgnRight
  <2> QED BY <1>2, <2>1, <2>2, <2>3, <2>4, <2>5, <2>6, <2>7, <2>8, <2>9 DEF Next
<1> QED BY <1>1, <1>2, SolverAlwaysRight, PTL DEF Spec

-----------------------------------------------------------------------------
(* The search for an explanation.                                          *)

\* A vertex that was seen was reached by an edge of the list from one that was seen, or from the start.
Reached(list, init, s) ==
    \A v \in s.seen :
        /\ s.by[v] \in Range(list) /\ edges[s.by[v]].to = v
        /\ IF edges[s.by[v]].from = init
           THEN edges[s.by[v]].cost <= s.length[v]
           ELSE /\ edges[s.by[v]].from \in s.seen
                /\ s.length[edges[s.by[v]].from] + edges[s.by[v]].cost <= s.length[v]

\* The way back along these edges never goes in circles: it leaves every set of vertices, or ends.
Grounded(init, s) ==
    \A S \in SUBSET s.seen :
        S # {} => \E v \in S : edges[s.by[v]].from = init \/ edges[s.by[v]].from \notin S

\* The edges at the start were looked at before any other, while its length was still 0.
FromInit(list, init, s) ==
    \A g \in Range(list) : edges[g].from = init =>
        \/ edges[g].to \in s.seen /\ s.length[edges[g].to] <= edges[g].cost
        \/ init \notin s.seen /\ Pending(TRUE, s, g)

\* What holds of the search at each step; it does not count its start as seen until it comes back to it.
WalkOf(list, init) ==
    {s \in CoverOf(TRUE, list, init) :
        /\ SoundLengths(TRUE, list, init, s)
        /\ init \notin s.seen => s.length[init] = 0
        /\ s = Started(<<init>>, init, {}, FALSE) \/ Range(s.open) \subseteq s.seen
        /\ FromInit(list, init, s) /\ Reached(list, init, s) /\ Grounded(init, s)}

\* No edge leads from a vertex to itself, and the list has a solution.
Sensible(list) ==
    /\ StoreTyped /\ IsList(list)
    /\ \A e \in DOMAIN edges : edges[e].from # edges[e].to
    /\ \E m \in [Vertices -> Int] : Fits(m, list)

\* At the start nothing has been seen.
LEMMA WalkStarts ==
    ASSUME NEW list, Sensible(list), NEW init \in Vertices
    PROVE  Started(<<init>>, init, {}, FALSE) \in WalkOf(list, init)
<1> DEFINE s == Started(<<init>>, init, {}, FALSE)
<1>1. <<init>> \in Seq(Vertices) /\ <<>> \in Seq(DOMAIN edges)
  OBVIOUS
<1>2. [v \in Vertices |-> 0] \in [Vertices -> Values]
  BY WidthAssumption
<1>3. [v \in Vertices |-> 0] \in [Vertices -> 0..Len(edges)]
  BY LenProperties DEF Sensible, StoreTyped
<1>4. s \in Searches
  BY <1>1, <1>2, <1>3 DEF Started, Searches
<1>5. /\ s.open = <<init>> /\ s.curr = init /\ s.todo = <<>> /\ s.seen = {} /\ s.length[init] = 0
  BY DEF Started
<1>6. s = Started(<<init>>, init, {}, FALSE)
  OBVIOUS
<1> HIDE DEF s
<1>7. Range(s.open) = {init} /\ Range(s.todo) = {}
  BY <1>5 DEF Range
<1>8. ASSUME NEW e \in Range(list), TailOf(TRUE, e) = init PROVE Pending(TRUE, s, e)
  BY <1>7, <1>8 DEF Pending
<1>9. s \in CoverOf(TRUE, list, init)
  BY <1>4, <1>5, <1>7, <1>8 DEF CoverOf
<1>10. SoundLengths(TRUE, list, init, s) /\ Reached(list, init, s)
  BY <1>5 DEF SoundLengths, Reached
<1>11. Grounded(init, s)
  BY <1>5 DEF Grounded
<1>12. FromInit(list, init, s)
  BY <1>5, <1>8 DEF FromInit, TailOf
<1> QED BY <1>5, <1>6, <1>9, <1>10, <1>11, <1>12 DEF WalkOf

\* Taking the next open vertex reaches none.
LEMMA WalkScans ==
    ASSUME NEW list, Sensible(list), NEW init \in Vertices, NEW s \in WalkOf(list, init),
           s.todo = <<>>, s.open # <<>>, s.inRange
    PROVE  Scan(s, list) \in WalkOf(list, init)
<1> DEFINE t == Scan(s, list)
<1>0. StoreTyped /\ IsList(list)
  BY DEF Sensible
<1>1. /\ s \in CoverOf(TRUE, list, init)
      /\ SoundLengths(TRUE, list, init, s)
      /\ init \notin s.seen => s.length[init] = 0
      /\ s = Started(<<init>>, init, {}, FALSE) \/ Range(s.open) \subseteq s.seen
      /\ FromInit(list, init, s) /\ Reached(list, init, s) /\ Grounded(init, s)
  BY DEF WalkOf
<1>2. /\ t \in CoverOf(TRUE, list, init)
      /\ t.open = Tail(s.open) /\ t.curr = Head(s.open) /\ t.todo = list /\ t.seen = s.seen
      /\ t.length = s.length /\ t.by = s.by /\ t.inRange = s.inRange
      /\ Range(s.open) = {t.curr} \cup Range(t.open)
  <2> HIDE DEF t
  <2>1. t \in CoverOf(TRUE, list, init)
    BY <1>0, <1>1, CoverScans DEF t
  <2>2. /\ t.open = Tail(s.open) /\ t.curr = Head(s.open) /\ t.todo = list /\ t.seen = s.seen
        /\ t.length = s.length /\ t.by = s.by /\ t.inRange = s.inRange
        /\ Range(s.open) = {t.curr} \cup Range(t.open)
    <3>1. s \in Searches /\ s.open \in Seq(Vertices)
      BY <1>1, SearchTyped DEF CoverOf
    <3>2. t = [s EXCEPT !.open = Tail(s.open), !.curr = Head(s.open), !.todo = list]
      BY <1>0, <3>1, ScanSteps DEF t
    <3>3. /\ t.open = Tail(s.open) /\ t.curr = Head(s.open) /\ t.todo = list /\ t.seen = s.seen
          /\ t.length = s.length /\ t.by = s.by /\ t.inRange = s.inRange
      BY <3>1, <3>2 DEF Searches
    <3>4. Range(s.open) = {t.curr} \cup Range(t.open)
      BY <3>1, <3>3, RangeSplits
    <3> QED BY <3>3, <3>4
  <2> QED BY <2>1, <2>2
<1> HIDE DEF t
<1>3. SoundLengths(TRUE, list, init, t) /\ Reached(list, init, t) /\ Grounded(init, t)
  <2>1. SoundLengths(TRUE, list, init, t)
    BY <1>1, <1>2 DEF SoundLengths
  <2>2. Reached(list, init, t)
    BY <1>1, <1>2 DEF Reached
  <2>3. Grounded(init, t)
    BY <1>1, <1>2 DEF Grounded
  <2> QED BY <2>1, <2>2, <2>3
<1>4. Range(t.open) \subseteq t.seen
  <2>1. CASE s = Started(<<init>>, init, {}, FALSE)
    <3>1. s.open = <<init>>
      BY <2>1 DEF Started
    <3>2. t.open = <<>>
      BY <3>1, <1>2
    <3> QED BY <3>2 DEF Range
  <2>2. CASE Range(s.open) \subseteq s.seen
    BY <2>2, <1>2
  <2> QED BY <1>1, <2>1, <2>2
<1>5. FromInit(list, init, t)
  <2> SUFFICES ASSUME NEW g \in Range(list), edges[g].from = init
               PROVE  \/ edges[g].to \in t.seen /\ t.length[edges[g].to] <= edges[g].cost
                      \/ init \notin t.seen /\ Pending(TRUE, t, g)
    BY DEF FromInit
  <2>1. CASE edges[g].to \in s.seen /\ s.length[edges[g].to] <= edges[g].cost
    BY <2>1, <1>2
  <2>2. CASE init \notin s.seen /\ Pending(TRUE, s, g)
    <3>1. Range(s.todo) = {}
      BY DEF Range
    <3>2. init \in Range(s.open)
      BY <2>2, <3>1 DEF Pending, TailOf
    <3>3. Pending(TRUE, t, g)
      BY <3>2, <1>2 DEF Pending, TailOf
    <3> QED BY <3>3, <2>2, <1>2
  <2> QED BY <1>1, <2>1, <2>2 DEF FromInit
<1> QED BY <1>1, <1>2, <1>3, <1>4, <1>5 DEF WalkOf, t

\* Of finitely many vertices one has the least number.
LEMMA LeastVertex ==
    ASSUME NEW S \in SUBSET Vertices, S # {}, NEW f \in [Vertices -> Int]
    PROVE  \E v \in S : \A w \in S : f[v] <= f[w]
<1>1. PICK B \in Nat : \A v \in Vertices : f[v] <= B /\ -B <= f[v]
  BY BoundExists, AtomsAssumption
<1> DEFINE T == {f[v] + B : v \in S}
<1>2. T \in SUBSET Nat /\ T # {}
  <2>1. \A v \in S : f[v] + B \in Nat
    <3> SUFFICES ASSUME NEW v \in S PROVE f[v] + B \in Nat
      OBVIOUS
    <3>1. f[v] \in Int /\ -B <= f[v]
      BY <1>1
    <3> QED BY <3>1
  <2> QED BY <2>1
<1>3. PICK n \in T : \A x \in T : n <= x
  BY <1>2, LeastOf
<1>4. PICK v \in S : n = f[v] + B
  OBVIOUS
<1>5. ASSUME NEW w \in S PROVE f[v] <= f[w]
  <2>1. f[v] + B <= f[w] + B
    BY <1>3, <1>4
  <2>2. f[v] \in Int /\ f[w] \in Int
    OBVIOUS
  <2> QED BY <2>1, <2>2
<1> QED BY <1>5

\* A shorter path to a vertex makes no circle: it would be one of negative cost.
LEMMA ImprovedGrounded ==
    ASSUME NEW list, Sensible(list), NEW init \in Vertices,
           NEW s \in Searches, Reached(list, init, s), Grounded(init, s),
           NEW t \in Searches, Reached(list, init, t),
           NEW e \in DOMAIN edges, NEW next \in Vertices, edges[e].to = next,
           t.seen = s.seen \cup {next},
           \A v \in Vertices : t.by[v] = IF v = next THEN e ELSE s.by[v],
           \A v \in Vertices \ {next} : t.length[v] = s.length[v],
           next \in s.seen => t.length[next] < s.length[next]
    PROVE  Grounded(init, t)
<1> SUFFICES ASSUME NEW S \in SUBSET t.seen, S # {},
                    \A v \in S : edges[t.by[v]].from # init /\ edges[t.by[v]].from \in S
             PROVE  FALSE
  BY DEF Grounded
<1> DEFINE p(v) == edges[t.by[v]].from
<1>1. PICK m \in [Vertices -> Int] : Fits(m, list)
  BY DEF Sensible
<1>2. Range(list) \subseteq DOMAIN edges
  BY RangeSplits DEF Sensible, IsList
<1>3. S \subseteq Vertices /\ s.seen \subseteq Vertices
  BY SearchTyped
<1>4. \A v \in Vertices : t.length[v] \in Int /\ s.length[v] \in Int /\ m[v] \in Int
  BY SearchTyped
<1> DEFINE phi == [v \in Vertices |-> t.length[v] - m[v]]
<1>5. phi \in [Vertices -> Int]
  BY <1>4
<1>6. \A v \in Vertices : phi[v] = t.length[v] - m[v]
  OBVIOUS
<1> HIDE DEF phi
<1>7. PICK least \in S : \A w \in S : phi[least] <= phi[w]
  BY <1>3, <1>5, LeastVertex
<1> DEFINE A == {v \in S : phi[v] <= phi[least]}
<1>8. ASSUME NEW v \in S
      PROVE  /\ p(v) \in S /\ p(v) # init /\ p(v) \in Vertices /\ v \in Vertices
             /\ t.by[v] \in DOMAIN edges /\ edges[t.by[v]].to = v /\ edges[t.by[v]].cost \in Int
             /\ t.length[p(v)] + edges[t.by[v]].cost <= t.length[v]
             /\ m[v] - m[p(v)] <= edges[t.by[v]].cost
  <2>1. p(v) \in S /\ p(v) # init /\ p(v) \in Vertices /\ v \in Vertices
    BY <1>3
  <2>2. /\ t.by[v] \in Range(list) /\ edges[t.by[v]].to = v
        /\ t.length[p(v)] + edges[t.by[v]].cost <= t.length[v]
    BY <2>1 DEF Reached
  <2>3. t.by[v] \in DOMAIN edges
    BY <2>2, <1>2
  <2>4. edges[t.by[v]].cost \in Int
    BY <2>3, EdgesTyped DEF Sensible
  <2>5. m[v] - m[p(v)] <= edges[t.by[v]].cost
    BY <2>2, <1>1 DEF Fits, Holds, OfEdge
  <2> QED BY <2>1, <2>2, <2>3, <2>4, <2>5
<1> HIDE DEF p
<1>9. ASSUME NEW v \in A PROVE p(v) \in A
  <2>1. v \in S /\ phi[v] <= phi[least]
    OBVIOUS
  <2>2. phi[p(v)] <= phi[v]
    <3>1. /\ phi[p(v)] = t.length[p(v)] - m[p(v)] /\ phi[v] = t.length[v] - m[v]
          /\ t.length[p(v)] \in Int /\ m[p(v)] \in Int /\ t.length[v] \in Int /\ m[v] \in Int
      BY <2>1, <1>4, <1>6, <1>8
    <3> QED BY <3>1, <2>1, <1>8
  <2>3. phi[p(v)] \in Int /\ phi[v] \in Int /\ phi[least] \in Int
    BY <2>1, <1>3, <1>5, <1>8
  <2>4. phi[p(v)] <= phi[least]
    BY <2>1, <2>2, <2>3
  <2> QED BY <2>1, <2>4, <1>8
<1>10. ASSUME NEW v \in A \ {next} PROVE p(v) = edges[s.by[v]].from /\ p(v) \in A \ {next} /\ v \in s.seen
  <2>1. v \in S /\ phi[v] <= phi[least] /\ v # next
    OBVIOUS
  <2>2. p(v) = edges[s.by[v]].from /\ s.by[v] = t.by[v] /\ v \in s.seen
    BY <2>1, <1>3 DEF p
  <2>3. ASSUME p(v) = next PROVE FALSE
    <3>1. next \in s.seen /\ s.length[next] + edges[t.by[v]].cost <= s.length[v]
      BY <2>2, <2>3, <2>1, <1>8 DEF Reached
    <3>2. t.length[v] = s.length[v] /\ t.length[next] < s.length[next]
      BY <3>1, <2>1, <1>3
    <3>3. m[v] - m[next] <= edges[t.by[v]].cost /\ edges[t.by[v]].cost \in Int
      BY <2>1, <2>3, <1>8
    <3>4. /\ phi[next] = t.length[next] - m[next] /\ phi[v] = t.length[v] - m[v]
          /\ t.length[next] \in Int /\ m[next] \in Int /\ t.length[v] \in Int /\ m[v] \in Int
          /\ s.length[next] \in Int /\ s.length[v] \in Int
      BY <2>1, <1>3, <1>4, <1>6
    <3>5. phi[next] < phi[v]
      BY <3>1, <3>2, <3>3, <3>4
    <3>6. phi[least] <= phi[next]
      BY <2>1, <2>3, <1>7, <1>8
    <3>7. phi[least] \in Int /\ phi[next] \in Int /\ phi[v] \in Int
      BY <2>1, <1>3, <1>5
    <3> QED BY <3>5, <3>6, <3>7, <2>1
  <2> QED BY <2>2, <2>3, <1>9
<1>11. A \ {next} # {} /\ A \ {next} \in SUBSET s.seen
  <2>1. least \in A
    <3>1. phi[least] \in Int
      BY <1>3, <1>5
    <3> QED BY <3>1
  <2>2. CASE least # next
    BY <2>1, <2>2
  <2>3. CASE least = next
    <3>1. p(next) = edges[e].from /\ edges[e].from # next
      BY DEF p, Sensible
    <3>2. p(next) \in A
      BY <2>1, <2>3, <1>9
    <3> QED BY <3>1, <3>2
  <2>4. A \ {next} \in SUBSET s.seen
    BY <1>10
  <2> QED BY <2>2, <2>3, <2>4
<1> HIDE DEF A
<1>12. PICK v \in A \ {next} : edges[s.by[v]].from = init \/ edges[s.by[v]].from \notin A \ {next}
  BY <1>11 DEF Grounded
<1>13. p(v) # init
  BY <1>8, <1>12 DEF A
<1> QED BY <1>10, <1>12, <1>13

\* Looking at an edge keeps the ways back.
LEMMA WalkRelaxes ==
    ASSUME NEW list, Sensible(list), NEW init \in Vertices, NEW s \in WalkOf(list, init),
           s.todo # <<>>, s.inRange
    PROVE  Relax(TRUE, s) \in WalkOf(list, init)
<1> DEFINE t == Relax(TRUE, s)
           e == Head(s.todo)
           next == HeadOf(TRUE, e)
           length == s.length[s.curr] + edges[e].cost
<1>1. /\ s \in CoverOf(TRUE, list, init) /\ s \in Searches
      /\ SoundLengths(TRUE, list, init, s)
      /\ init \notin s.seen => s.length[init] = 0
      /\ FromInit(list, init, s) /\ Reached(list, init, s) /\ Grounded(init, s)
  BY DEF WalkOf, CoverOf
<1>2. Range(s.open) \subseteq s.seen
  <2>1. s # Started(<<init>>, init, {}, FALSE)
    BY DEF Started
  <2> QED BY <2>1 DEF WalkOf
<1>3. StoreTyped /\ IsList(list) /\ \A g \in DOMAIN edges : edges[g].from # edges[g].to
  BY DEF Sensible
<1>4. /\ t \in CoverOf(TRUE, list, init) /\ RelaxDoes(TRUE, s, t)
      /\ e \in Range(list) /\ e \in DOMAIN edges /\ Range(list) \subseteq DOMAIN edges
      /\ Range(s.todo) = {e} \cup Range(Tail(s.todo))
      /\ next \in Vertices /\ s.curr \in Vertices
      /\ edges[e].cost \in Int /\ s.length[s.curr] \in Int
  BY <1>1, <1>3, CoverRelaxes
<1>5. SoundLengths(TRUE, list, init, t)
  BY <1>1, <1>3, SoundRelaxes
<1> HIDE DEF t, e
<1>6. t \in Searches /\ s.curr \in s.seen \cup {init}
  BY <1>1, <1>4 DEF CoverOf
<1>7. CASE Skips(s, t) /\ (TailOf(TRUE, e) # s.curr \/ (next \in s.seen /\ s.length[next] <= length))
  <2>1. /\ t.todo = Tail(s.todo) /\ t.open = s.open /\ t.curr = s.curr /\ t.seen = s.seen
        /\ t.length = s.length /\ t.by = s.by /\ t.inRange = s.inRange
    BY <1>7 DEF Skips
  <2>2. Reached(list, init, t)
    BY <1>1, <2>1 DEF Reached
  <2>3. Grounded(init, t)
    BY <1>1, <2>1 DEF Grounded
  <2>4. FromInit(list, init, t)
    <3> SUFFICES ASSUME NEW g \in Range(list), edges[g].from = init
                 PROVE  \/ edges[g].to \in t.seen /\ t.length[edges[g].to] <= edges[g].cost
                        \/ init \notin t.seen /\ Pending(TRUE, t, g)
      BY DEF FromInit
    <3>1. CASE edges[g].to \in s.seen /\ s.length[edges[g].to] <= edges[g].cost
      BY <2>1, <3>1
    <3>2. CASE init \notin s.seen /\ Pending(TRUE, s, g)
      <4>1. s.curr = init /\ g \in Range(s.todo) /\ s.length[init] = 0
        BY <1>1, <1>2, <3>2 DEF Pending, TailOf
      <4>2. CASE g = e
        <5>1. next \in s.seen /\ s.length[next] <= length /\ next = edges[g].to
          BY <1>7, <4>1, <4>2 DEF TailOf, HeadOf
        <5>2. length = edges[g].cost
          BY <1>4, <4>1, <4>2
        <5> HIDE DEF next, length
        <5> QED BY <2>1, <5>1, <5>2
      <4>3. CASE g # e
        <5>1. g \in Range(t.todo)
          BY <1>4, <2>1, <4>1, <4>3
        <5> QED BY <2>1, <3>2, <4>1, <5>1 DEF Pending, TailOf
      <4> QED BY <4>2, <4>3
    <3> QED BY <1>1, <3>1, <3>2 DEF FromInit
  <2> QED BY <1>1, <1>2, <1>4, <1>5, <2>1, <2>2, <2>3, <2>4 DEF WalkOf, t
<1>8. CASE t = [s EXCEPT !.inRange = FALSE]
  <2>1. /\ t.todo = s.todo /\ t.open = s.open /\ t.curr = s.curr /\ t.seen = s.seen
        /\ t.length = s.length /\ t.by = s.by /\ t.inRange = FALSE
    BY <1>1, <1>8 DEF Searches
  <2>2. Reached(list, init, t)
    BY <1>1, <2>1 DEF Reached
  <2>3. Grounded(init, t)
    BY <1>1, <2>1 DEF Grounded
  <2>4. FromInit(list, init, t)
    BY <1>1, <2>1 DEF FromInit, Pending
  <2> QED BY <1>1, <1>2, <1>4, <1>5, <2>1, <2>2, <2>3, <2>4 DEF WalkOf, t
<1>9. CASE /\ Improves(s, t, e, next, length) /\ TailOf(TRUE, e) = s.curr
           /\ next \notin s.seen \/ length < s.length[next]
  <2>1. /\ t.todo = Tail(s.todo) /\ Range(t.open) = {next} \cup Range(s.open) /\ t.curr = s.curr
        /\ t.seen = s.seen \cup {next} /\ t.inRange = s.inRange
        /\ \A v \in Vertices : t.length[v] = IF v = next THEN length ELSE s.length[v]
        /\ \A v \in Vertices : t.by[v] = IF v = next THEN e ELSE s.by[v]
    <3>1. /\ t.todo = Tail(s.todo) /\ Range(t.open) = {next} \cup Range(s.open) /\ t.curr = s.curr
          /\ t.seen = s.seen \cup {next} /\ t.inRange = s.inRange
          /\ t.length = [s.length EXCEPT ![next] = length] /\ t.by = [s.by EXCEPT ![next] = e]
      BY <1>9 DEF Improves
    <3>2. s.length \in [Vertices -> Values] /\ s.by \in [Vertices -> 0..Len(edges)]
      BY <1>1, SearchTyped
    <3> HIDE DEF next, length
    <3>3. \A v \in Vertices : t.length[v] = IF v = next THEN length ELSE s.length[v]
      BY <3>1, <3>2
    <3>4. \A v \in Vertices : t.by[v] = IF v = next THEN e ELSE s.by[v]
      BY <3>1, <3>2
    <3> QED BY <3>1, <3>3, <3>4
  <2>2. edges[e].from = s.curr /\ edges[e].to = next /\ s.curr # next
    BY <1>3, <1>4, <1>9 DEF TailOf, HeadOf
  <2>3. length \in Int /\ length = s.length[s.curr] + edges[e].cost
    BY <1>4
  <2>4. s.open \in Seq(Vertices) /\ s.seen \subseteq Vertices /\ \A v \in Vertices : s.length[v] \in Int /\ t.length[v] \in Int
    BY <1>1, <1>6, SearchTyped
  <2>5. next \in Vertices /\ s.curr \in Vertices
    BY <1>4
  <2> HIDE DEF next, length
  <2>6. \A v \in s.seen : t.length[v] <= s.length[v]
    BY <1>9, <2>1, <2>3, <2>4
  <2>7. Range(t.open) \subseteq t.seen
    <3> QED BY <1>2, <2>1
  <2>8. init \notin t.seen => t.length[init] = 0
    BY <1>1, <2>1
  <2>9. FromInit(list, init, t)
    <3> SUFFICES ASSUME NEW g \in Range(list), edges[g].from = init
                 PROVE  \/ edges[g].to \in t.seen /\ t.length[edges[g].to] <= edges[g].cost
                        \/ init \notin t.seen /\ Pending(TRUE, t, g)
      BY DEF FromInit
    <3>1. CASE edges[g].to \in s.seen /\ s.length[edges[g].to] <= edges[g].cost
      <4>1. edges[g].cost \in Int /\ edges[g].to \in Vertices
        BY <1>3, <1>4, EdgesTyped
      <4>2. t.length[edges[g].to] <= s.length[edges[g].to]
        BY <2>6, <3>1
      <4>3. t.length[edges[g].to] <= edges[g].cost
        BY <2>4, <3>1, <4>1, <4>2
      <4> QED BY <2>1, <3>1, <4>3
    <3>2. CASE init \notin s.seen /\ Pending(TRUE, s, g)
      <4>1. s.curr = init /\ g \in Range(s.todo) /\ s.length[init] = 0
        BY <1>1, <1>2, <3>2 DEF Pending, TailOf
      <4>2. CASE g = e
        <5>1. edges[g].to = next /\ next \in t.seen /\ edges[g].cost \in Int
          BY <1>4, <2>1, <2>2, <4>2
        <5>2. t.length[next] = 0 + edges[g].cost
          BY <2>1, <2>3, <2>5, <4>1, <4>2
        <5>3. t.length[next] <= edges[g].cost
          BY <5>1, <5>2
        <5> QED BY <5>1, <5>3
      <4>3. CASE g # e
        <5>1. g \in Range(t.todo) /\ init \notin t.seen
          BY <1>4, <2>1, <2>2, <3>2, <4>1, <4>3
        <5> QED BY <2>1, <4>1, <5>1 DEF Pending, TailOf
      <4> QED BY <4>2, <4>3
    <3> QED BY <1>1, <3>1, <3>2 DEF FromInit
  <2>10. s.curr = init => 0 <= s.length[init]
    <3>1. CASE init \notin s.seen
      BY <1>1, <3>1
    <3>2. CASE init \in s.seen
      <4>1. PICK m \in [Vertices -> Int] : Fits(m, list)
        BY DEF Sensible
      <4>2. Diff(TRUE, m, init, init) <= s.length[init]
        BY <1>1, <3>2, <4>1 DEF SoundLengths
      <4>3. Diff(TRUE, m, init, init) = 0
        BY DiffAdds
      <4> QED BY <4>2, <4>3
    <3> QED BY <3>1, <3>2
  <2>11. Reached(list, init, t)
    <3> SUFFICES ASSUME NEW v \in t.seen
                 PROVE  /\ t.by[v] \in Range(list) /\ edges[t.by[v]].to = v
                        /\ IF edges[t.by[v]].from = init
                           THEN edges[t.by[v]].cost <= t.length[v]
                           ELSE /\ edges[t.by[v]].from \in t.seen
                                /\ t.length[edges[t.by[v]].from] + edges[t.by[v]].cost <= t.length[v]
      BY DEF Reached
    <3>0. v \in Vertices
      BY <2>1, <2>4, <2>5
    <3>1. CASE v = next
      <4>1. t.by[v] = e /\ t.length[v] = s.length[s.curr] + edges[e].cost
        BY <2>1, <2>3, <2>5, <3>1
      <4>2. CASE s.curr = init
        BY <1>4, <2>2, <2>4, <2>5, <2>10, <3>1, <4>1, <4>2
      <4>3. CASE s.curr # init
        <5>1. s.curr \in t.seen /\ t.length[s.curr] = s.length[s.curr]
          BY <1>6, <2>1, <2>2, <2>5, <4>3
        <5> QED BY <1>4, <2>2, <2>4, <2>5, <3>1, <4>1, <4>3, <5>1
      <4> QED BY <4>2, <4>3
    <3>2. CASE v # next
      <4> DEFINE g == s.by[v]
      <4>1. v \in s.seen /\ t.by[v] = g /\ t.length[v] = s.length[v]
        BY <2>1, <3>0, <3>2
      <4>2. /\ g \in Range(list) /\ edges[g].to = v
            /\ IF edges[g].from = init
               THEN edges[g].cost <= s.length[v]
               ELSE edges[g].from \in s.seen /\ s.length[edges[g].from] + edges[g].cost <= s.length[v]
        BY <1>1, <4>1 DEF Reached
      <4>3. edges[g].cost \in Int
        BY <1>3, <1>4, <4>2, EdgesTyped
      <4> HIDE DEF g
      <4>4. CASE edges[g].from = init
        BY <4>1, <4>2, <4>4
      <4>5. CASE edges[g].from # init
        <5> DEFINE u == edges[g].from
        <5>1. u \in s.seen /\ u \in Vertices /\ s.length[u] + edges[g].cost <= s.length[v]
          BY <2>4, <4>2, <4>5
        <5>2. t.length[u] <= s.length[u] /\ u \in t.seen
          BY <2>1, <2>6, <5>1
        <5>3. t.length[u] \in Int /\ s.length[u] \in Int /\ s.length[v] \in Int
          BY <2>4, <3>0, <5>1
        <5>4. t.length[u] + edges[g].cost <= s.length[v]
          BY <4>3, <5>1, <5>2, <5>3
        <5> QED BY <4>1, <4>2, <4>5, <5>2, <5>4
      <4> QED BY <4>4, <4>5
    <3> QED BY <3>1, <3>2
  <2>12. Grounded(init, t)
    <3>1. next \in s.seen => t.length[next] < s.length[next]
      BY <1>9, <2>1, <2>5
    <3>2. \A v \in Vertices \ {next} : t.length[v] = s.length[v]
      BY <2>1
    <3> QED BY <1>1, <1>4, <1>6, <2>1, <2>2, <2>5, <2>11, <3>1, <3>2, ImprovedGrounded
  <2> QED BY <1>4, <1>5, <2>7, <2>8, <2>9, <2>11, <2>12 DEF WalkOf, t
<1>10. \/ Skips(s, t) /\ (TailOf(TRUE, e) # s.curr \/ (next \in s.seen /\ s.length[next] <= length))
       \/ t = [s EXCEPT !.inRange = FALSE]
       \/ /\ Improves(s, t, e, next, length) /\ TailOf(TRUE, e) = s.curr
          /\ next \notin s.seen \/ length < s.length[next]
  BY <1>4 DEF RelaxDoes, e
<1> QED BY <1>7, <1>8, <1>9, <1>10

\* A list of edges bounds the difference of two vertices.
Bounding(list, init, goal, cost) == \A m \in [Vertices -> Int] : Fits(m, list) => m[goal] - m[init] <= cost

\* The search of an explanation comes to its goal at no more than the cost.
LEMMA WalkRight ==
    ASSUME NEW list, Sensible(list), NEW init \in Vertices, NEW goal \in Vertices, init # goal, NEW cost \in Int,
           Bounding(list, init, goal, cost),
           Search(Started(<<init>>, init, {}, FALSE), TRUE, list, goal, cost).inRange
    PROVE  LET r == Search(Started(<<init>>, init, {}, FALSE), TRUE, list, goal, cost)
           IN  /\ r \in Searches /\ Reached(list, init, r) /\ Grounded(init, r)
               /\ goal \in r.seen /\ r.length[goal] <= cost
<1> DEFINE J == WalkOf(list, init)
           r == Search(Started(<<init>>, init, {}, FALSE), TRUE, list, goal, cost)
<1>1. StoreTyped /\ IsList(list) /\ \A g \in DOMAIN edges : edges[g].from # edges[g].to
  BY DEF Sensible
<1>2. J \in SUBSET Searches
  BY DEF WalkOf, CoverOf
<1>3. Started(<<init>>, init, {}, FALSE) \in J
  BY WalkStarts
<1> HIDE DEF J
<1>4. ASSUME NEW s \in J, ~ Ended(s, goal, cost) PROVE Following(TRUE, list, s) \in J
  <2>1. s.inRange /\ (s.todo = <<>> => s.open # <<>>)
    BY <1>2, <1>4, SearchTyped DEF Ended
  <2>2. CASE s.todo = <<>>
    BY <2>1, <2>2, WalkScans DEF Following, J
  <2>3. CASE s.todo # <<>>
    BY <2>1, <2>3, WalkRelaxes DEF Following, J
  <2> QED BY <2>2, <2>3
<1>5. r \in {s \in J : Ended(s, goal, cost)}
  BY <1>1, <1>2, <1>3, <1>4, SearchKeeps
<1>6. r \in J /\ Ended(r, goal, cost) /\ r \in Searches /\ r.inRange
  BY <1>2, <1>5
<1> HIDE DEF r
<1>7. /\ r \in CoverOf(TRUE, list, init)
      /\ SoundLengths(TRUE, list, init, r)
      /\ init \notin r.seen => r.length[init] = 0
      /\ r = Started(<<init>>, init, {}, FALSE) \/ Range(r.open) \subseteq r.seen
      /\ FromInit(list, init, r) /\ Reached(list, init, r) /\ Grounded(init, r)
  BY <1>6 DEF J, WalkOf
<1>8. /\ r.open \in Seq(Vertices) /\ r.seen \subseteq Vertices /\ r.length \in [Vertices -> Values]
      /\ \A v \in Vertices : r.length[v] \in Int
  BY <1>6, SearchTyped
<1>9. CASE r.open # <<>>
  <2>1. Head(r.open) = goal /\ r.length[goal] <= cost
    BY <1>6, <1>9 DEF Ended
  <2>2. Head(r.open) \in Range(r.open)
    BY <1>8, <1>9, RangeSplits
  <2>3. r # Started(<<init>>, init, {}, FALSE)
    <3>1. Started(<<init>>, init, {}, FALSE).open = <<init>>
      BY DEF Started
    <3>2. Head(<<init>>) = init
      OBVIOUS
    <3> QED BY <2>1, <3>1, <3>2
  <2> QED BY <1>6, <1>7, <2>1, <2>2, <2>3 DEF r
<1>10. CASE r.open = <<>>
  <2>1. r.todo = <<>> /\ r.open = <<>>
    BY <1>6, <1>10 DEF Ended
  <2>2. Range(r.open) = {} /\ Range(r.todo) = {}
    BY <2>1 DEF Range
  <2>3. \A g \in Range(list) : ~ Pending(TRUE, r, g)
    BY <1>6, <2>2 DEF Pending
  <2>4. PICK m \in [Vertices -> Int] : Fits(m, list)
    BY DEF Sensible
  <2>5. init \in r.seen => 0 <= r.length[init]
    <3> SUFFICES ASSUME init \in r.seen PROVE 0 <= r.length[init]
      OBVIOUS
    <3>1. Diff(TRUE, m, init, init) <= r.length[init]
      BY <1>7, <2>4 DEF SoundLengths
    <3>2. Diff(TRUE, m, init, init) = 0
      BY DiffAdds
    <3> QED BY <3>1, <3>2
  <2> DEFINE from0 == [r EXCEPT !.seen = @ \cup {init}, !.length = [@ EXCEPT ![init] = 0]]
  <2>6. /\ from0 \in Searches /\ from0.seen = r.seen \cup {init}
        /\ \A v \in Vertices : from0.length[v] = IF v = init THEN 0 ELSE r.length[v]
    <3>1. PICK l0 \in [Vertices -> Values] : l0 = [r.length EXCEPT ![init] = 0]
      BY <1>8, WidthAssumption
    <3>2. from0 = [r EXCEPT !.seen = r.seen \cup {init}, !.length = l0]
      BY <3>1
    <3>3. r.seen \cup {init} \in SUBSET Vertices
      BY <1>8
    <3> HIDE DEF from0
    <3>4. from0 \in Searches /\ from0.seen = r.seen \cup {init} /\ from0.length = l0
      BY <1>6, <3>2, <3>3 DEF Searches
    <3>5. \A v \in Vertices : l0[v] = IF v = init THEN 0 ELSE r.length[v]
      BY <1>8, <3>1
    <3> QED BY <3>4, <3>5
  <2> HIDE DEF from0
  <2>7. ASSUME NEW g \in Range(list), TailOf(TRUE, g) \in from0.seen PROVE Relaxed(TRUE, from0, g)
    <3> DEFINE u == edges[g].from
               v == edges[g].to
    <3>1. u \in Vertices /\ v \in Vertices /\ edges[g].cost \in Int /\ u # v
      <4>1. g \in DOMAIN edges
        BY <1>1, RangeSplits DEF IsList
      <4> QED BY <1>1, <4>1, EdgesTyped
    <3>2. u \in r.seen \cup {init}
      BY <2>6, <2>7 DEF TailOf
    <3>3. from0.length[v] \in Int /\ from0.length[u] \in Int /\ r.length[u] \in Int /\ r.length[v] \in Int
      <4>1. \A x \in Vertices : from0.length[x] \in Int /\ r.length[x] \in Int
        BY <1>8, <2>6, SearchTyped
      <4> HIDE DEF u, v
      <4> QED BY <3>1, <4>1
    <3>4. v \in from0.seen /\ from0.length[v] <= from0.length[u] + edges[g].cost
      <4>1. CASE u = init
        <5>1. v \in r.seen /\ r.length[v] <= edges[g].cost
          BY <1>7, <2>3, <4>1 DEF FromInit
        <5>2. from0.length[v] = r.length[v] /\ from0.length[u] = 0 /\ v \in from0.seen
          BY <2>6, <3>1, <4>1, <5>1
        <5> HIDE DEF u, v
        <5> QED BY <3>1, <3>3, <5>1, <5>2
      <4>2. CASE u # init
        <5>1. Relaxed(TRUE, r, g)
          BY <1>7, <2>3, <3>2 DEF CoverOf, TailOf
        <5>2. v \in r.seen /\ r.length[v] <= r.length[u] + edges[g].cost
          BY <5>1 DEF Relaxed, TailOf, HeadOf
        <5>3. from0.length[u] = r.length[u] /\ v \in from0.seen
          BY <2>6, <3>1, <4>2, <5>2
        <5>4. from0.length[v] <= r.length[v]
          BY <2>5, <2>6, <3>1, <3>3, <5>2
        <5> HIDE DEF u, v
        <5> QED BY <3>1, <3>3, <5>2, <5>3, <5>4
      <4> QED BY <4>1, <4>2
    <3> QED BY <3>4 DEF Relaxed, TailOf, HeadOf
  <2>8. PICK K \in Nat : cost < K
    <3>1. CASE cost < 0
      BY <3>1
    <3>2. CASE cost >= 0
      <4>1. cost + 1 \in Nat /\ cost < cost + 1
        BY <3>2
      <4> QED BY <4>1
    <3> QED BY <3>1, <3>2
  <2>9. PICK L : /\ Potential(TRUE, list, L)
                 /\ \A v \in Vertices : IF v \in from0.seen THEN L[v] = from0.length[v] ELSE K <= L[v]
    BY <1>1, <2>4, <2>6, <2>7, PotentialExists
  <2>10. L \in [Vertices -> Int] /\ Fits(L, list)
    <3>1. L \in [Vertices -> Int]
      BY <2>9 DEF Potential
    <3>2. ASSUME NEW g \in Range(list) PROVE Holds(L, OfEdge(g))
      <4>1. g \in DOMAIN edges
        BY <1>1, RangeSplits DEF IsList
      <4>2. edges[g].from \in Vertices /\ edges[g].to \in Vertices /\ edges[g].cost \in Int
        BY <1>1, <4>1, EdgesTyped
      <4>3. L[edges[g].to] <= L[edges[g].from] + edges[g].cost
        BY <2>9 DEF Potential, HeadOf, TailOf
      <4>4. L[edges[g].to] \in Int /\ L[edges[g].from] \in Int
        BY <3>1, <4>2
      <4>5. L[edges[g].to] - L[edges[g].from] <= edges[g].cost
        BY <4>2, <4>3, <4>4
      <4> QED BY <4>5 DEF Holds, OfEdge
    <3> QED BY <3>1, <3>2 DEF Fits
  <2>11. L[goal] - L[init] <= cost /\ L[goal] \in Int /\ L[init] = 0
    BY <2>6, <2>9, <2>10 DEF Bounding
  <2>12. L[goal] <= cost
    BY <2>11
  <2>13. goal \in from0.seen
    BY <2>8, <2>9, <2>11, <2>12
  <2>14. goal \in r.seen /\ L[goal] = r.length[goal]
    <3>1. goal \in r.seen
      BY <2>6, <2>13
    <3>2. L[goal] = from0.length[goal] /\ from0.length[goal] = r.length[goal]
      BY <2>6, <2>9, <2>13
    <3> QED BY <3>1, <3>2
  <2> QED BY <1>6, <1>7, <2>12, <2>14 DEF r
<1> QED BY <1>9, <1>10

-----------------------------------------------------------------------------
(* The walk back.                                                          *)

\* The type of the mapper's literals, and the sets of them that a walk collects.
AsgnTyped == edgeRefToAsgn \in [DOMAIN edges -> Literal \cup {NoLiteral}]

LiteralSets == SUBSET Range(edgeRefToAsgn)

\* The states of the walk, its step, and its recursion, which PathTo() declares.
Walks == [edge : 0..Len(edges), literals : LiteralSets]

StepBack(search, w) ==
    [edge |-> search.by[edges[w.edge].from], literals |-> w.literals \cup {edgeRefToAsgn[w.edge]}]

WalksBack(init, search, f) ==
    f = [w \in Walks |-> IF w.edge = 0 \/ edges[w.edge].from = init THEN w ELSE f[StepBack(search, w)]]

\* The literals that the walk collects from an edge on.
Collected(f, e, literals) ==
    f[[edge |-> e, literals |-> literals]].literals
        \cup {edgeRefToAsgn[f[[edge |-> e, literals |-> literals]].edge]}

\* The literals of some edges.
LiteralsOf(E) == {edgeRefToAsgn[g] : g \in E}

\* The walk ends at an edge from the start.
LEMMA WalkEnds ==
    ASSUME StoreTyped, NEW init, NEW r, NEW f, WalksBack(init, r, f),
           NEW g \in DOMAIN edges, NEW literals \in LiteralSets, edges[g].from = init
    PROVE  Collected(f, g, literals) = literals \cup {edgeRefToAsgn[g]}
<1> DEFINE w == [edge |-> g, literals |-> literals]
<1>1. w \in Walks
  BY EdgesTyped DEF Walks
<1>2. w.edge = g /\ w.literals = literals
  OBVIOUS
<1> HIDE DEF w
<1>3. f[w] = w
  BY <1>1, <1>2 DEF WalksBack
<1> QED BY <1>2, <1>3 DEF Collected, w

\* It goes on from any other.
LEMMA WalkGoesOn ==
    ASSUME StoreTyped, NEW init, NEW r, NEW f, WalksBack(init, r, f),
           NEW g \in DOMAIN edges, NEW literals \in LiteralSets, edges[g].from # init
    PROVE  Collected(f, g, literals) = Collected(f, r.by[edges[g].from], literals \cup {edgeRefToAsgn[g]})
<1> DEFINE w == [edge |-> g, literals |-> literals]
<1>1. w \in Walks /\ g # 0
  BY EdgesTyped DEF Walks
<1>2. w.edge = g /\ w.literals = literals
  OBVIOUS
<1> HIDE DEF w
<1>3. f[w] = f[StepBack(r, w)]
  BY <1>1, <1>2 DEF WalksBack
<1>4. StepBack(r, w) = [edge |-> r.by[edges[g].from], literals |-> literals \cup {edgeRefToAsgn[g]}]
  BY <1>2 DEF StepBack
<1> QED BY <1>3, <1>4 DEF Collected, w

\* A literal of an edge joins those that were collected.
LEMMA OneMore ==
    ASSUME AsgnTyped, NEW g \in DOMAIN edges, NEW literals \in LiteralSets
    PROVE  literals \cup {edgeRefToAsgn[g]} \in LiteralSets
BY DEF Range, LiteralSets, AsgnTyped

\* The walk is a function, and PathTo() what it collects.
LEMMA WalkDefined ==
    ASSUME StoreTyped, AsgnTyped,
           NEW init, NEW r \in Searches, NEW v \in Vertices
    PROVE  \E f : WalksBack(init, r, f) /\ PathTo(v, init, r) = Collected(f, r.by[v], {})
<1> DEFINE D == {w \in Walks : w.edge = 0 \/ edges[w.edge].from = init}
           F == [w \in Walks |-> IF w \in D THEN w ELSE StepBack(r, w)]
           back == CHOOSE f : WalksBack(init, r, f)
<1>1. ASSUME NEW w \in Walks, w \notin D PROVE StepBack(r, w) \in Walks
  <2>1. w.edge \in 0..Len(edges) /\ w.edge # 0 /\ w.literals \in LiteralSets
    BY <1>1 DEF Walks
  <2>2. w.edge \in DOMAIN edges
    BY <2>1, LenProperties DEF StoreTyped
  <2>3. edges[w.edge].from \in Vertices
    BY <2>2, EdgesTyped
  <2>4. r.by[edges[w.edge].from] \in 0..Len(edges)
    BY <2>3, SearchTyped
  <2>5. w.literals \cup {edgeRefToAsgn[w.edge]} \in LiteralSets
    BY <2>1, <2>2 DEF Range, LiteralSets, AsgnTyped
  <2> QED BY <2>4, <2>5 DEF Walks, StepBack
<1>2. F \in [Walks -> Walks] /\ D \in SUBSET Walks
  BY <1>1
<1>3. \E f : WalksBack(init, r, f)
  <2>1. PICK f : Loops(Walks, D, F, f)
    <3> HIDE DEF F, D
    <3> QED BY <1>2, LoopDefined
  <2>2. \A w \in Walks : IF w \in D THEN TRUE ELSE F[w] = StepBack(r, w)
    OBVIOUS
  <2>3. f = [w \in Walks |-> IF w.edge = 0 \/ edges[w.edge].from = init THEN w ELSE f[StepBack(r, w)]]
    BY <2>1, <2>2 DEF Loops
  <2> QED BY <2>3 DEF WalksBack
<1>4. WalksBack(init, r, back)
  BY <1>3
<1>5. PathTo(v, init, r) = Collected(back, r.by[v], {})
  BY DEF PathTo, Collected, WalksBack, StepBack, Walks, LiteralSets
<1> QED BY <1>4, <1>5

\* What a walk back from a vertex collects bounds its distance from the start.
Accounts(f, init, r, v, E) ==
    /\ \A literals \in LiteralSets :
          Collected(f, r.by[v], literals) = literals \cup LiteralsOf(E)
    /\ \A m \in [Vertices -> Int] : (\A g \in E : Obeys(m, g)) => m[v] - m[init] <= r.length[v]

\* An edge from the start accounts for itself.
LEMMA FirstAccounts ==
    ASSUME StoreTyped, AsgnTyped,
           NEW init, NEW r \in Searches, NEW f, WalksBack(init, r, f),
           NEW v \in Vertices, NEW g \in DOMAIN edges, r.by[v] = g,
           edges[g].from = init, edges[g].to = v, edges[g].cost <= r.length[v]
    PROVE  Accounts(f, init, r, v, {g})
<1>1. LiteralsOf({g}) = {edgeRefToAsgn[g]}
  BY DEF LiteralsOf
<1>2. ASSUME NEW literals \in LiteralSets
      PROVE  Collected(f, r.by[v], literals) = literals \cup LiteralsOf({g})
  <2>1. Collected(f, g, literals) = literals \cup {edgeRefToAsgn[g]}
    BY WalkEnds
  <2> QED BY <1>1, <2>1
<1>3. ASSUME NEW m \in [Vertices -> Int], Obeys(m, g) PROVE m[v] - m[init] <= r.length[v]
  <2>1. m[v] - m[init] <= edges[g].cost
    BY <1>3 DEF Obeys, Holds, OfEdge
  <2>2. edges[g].cost \in Int /\ init \in Vertices
    BY EdgesTyped
  <2>3. m[v] \in Int /\ m[init] \in Int /\ r.length[v] \in Int
    BY <2>2, SearchTyped
  <2> QED BY <2>1, <2>2, <2>3
<1> QED BY <1>2, <1>3 DEF Accounts

\* A further edge adds its literal and its cost.
LEMMA NextAccounts ==
    ASSUME StoreTyped, AsgnTyped,
           NEW init \in Vertices, NEW r \in Searches, NEW f, WalksBack(init, r, f),
           NEW v \in Vertices, NEW g \in DOMAIN edges, r.by[v] = g,
           edges[g].from # init, edges[g].to = v,
           r.length[edges[g].from] + edges[g].cost <= r.length[v],
           NEW E, Accounts(f, init, r, edges[g].from, E)
    PROVE  Accounts(f, init, r, v, E \cup {g})
<1> DEFINE u == edges[g].from
<1>1. LiteralsOf(E \cup {g}) = {edgeRefToAsgn[g]} \cup LiteralsOf(E)
  BY DEF LiteralsOf
<1>2. ASSUME NEW literals \in LiteralSets
      PROVE  Collected(f, r.by[v], literals) = literals \cup LiteralsOf(E \cup {g})
  <2>1. /\ Collected(f, g, literals) = Collected(f, r.by[u], literals \cup {edgeRefToAsgn[g]})
        /\ literals \cup {edgeRefToAsgn[g]} \in LiteralSets
    BY WalkGoesOn, OneMore
  <2>2. Collected(f, r.by[u], literals \cup {edgeRefToAsgn[g]}) = (literals \cup {edgeRefToAsgn[g]}) \cup LiteralsOf(E)
    BY <2>1 DEF Accounts
  <2> QED BY <1>1, <2>1, <2>2
<1>3. ASSUME NEW m \in [Vertices -> Int], \A h \in E \cup {g} : Obeys(m, h) PROVE m[v] - m[init] <= r.length[v]
  <2>1. m[v] - m[u] <= edges[g].cost
    BY <1>3 DEF Obeys, Holds, OfEdge
  <2>2. m[u] - m[init] <= r.length[u]
    BY <1>3 DEF Accounts
  <2>3. edges[g].cost \in Int /\ u \in Vertices
    BY EdgesTyped
  <2>4. m[v] \in Int /\ m[u] \in Int /\ m[init] \in Int /\ r.length[v] \in Int /\ r.length[u] \in Int
    BY <2>3, SearchTyped
  <2>5. r.length[u] + edges[g].cost <= r.length[v]
    OBVIOUS
  <2> HIDE DEF u
  <2> QED BY <2>1, <2>2, <2>3, <2>4, <2>5
<1> QED BY <1>2, <1>3 DEF Accounts

\* The path that a search found: its literals' edges bound the distance by its length.
LEMMA PathRight ==
    ASSUME StoreTyped, AsgnTyped,
           NEW list, IsList(list), NEW init \in Vertices,
           NEW r \in Searches, Reached(list, init, r), Grounded(init, r), NEW goal \in r.seen
    PROVE  \E E \in SUBSET Range(list) :
              /\ PathTo(goal, init, r) = LiteralsOf(E)
              /\ \A m \in [Vertices -> Int] : (\A g \in E : Obeys(m, g)) => m[goal] - m[init] <= r.length[goal]
<1>1. r.seen \subseteq Vertices /\ Range(list) \subseteq DOMAIN edges
  BY SearchTyped, RangeSplits DEF IsList
<1>2. PICK f : WalksBack(init, r, f) /\ PathTo(goal, init, r) = Collected(f, r.by[goal], {})
  BY <1>1, WalkDefined
<1> DEFINE Bad == {v \in r.seen : \A E \in SUBSET Range(list) : ~ Accounts(f, init, r, v, E)}
<1>3. Bad = {}
  <2> SUFFICES ASSUME Bad # {} PROVE FALSE
    OBVIOUS
  <2>1. PICK v \in Bad : edges[r.by[v]].from = init \/ edges[r.by[v]].from \notin Bad
    <3>1. Bad \in SUBSET r.seen
      OBVIOUS
    <3> HIDE DEF Bad
    <3> QED BY <3>1 DEF Grounded
  <2> DEFINE g == r.by[v]
             u == edges[g].from
  <2>2. v \in Vertices /\ v \in r.seen /\ \A E \in SUBSET Range(list) : ~ Accounts(f, init, r, v, E)
    BY <1>1
  <2>3. /\ g \in Range(list) /\ g \in DOMAIN edges /\ edges[g].to = v
        /\ IF u = init
           THEN edges[g].cost <= r.length[v]
           ELSE u \in r.seen /\ r.length[u] + edges[g].cost <= r.length[v]
    BY <1>1, <2>2 DEF Reached
  <2>4. CASE u = init
    <3>1. Accounts(f, init, r, v, {g})
      BY <1>2, <2>2, <2>3, <2>4, FirstAccounts
    <3> QED BY <2>2, <2>3, <3>1
  <2>5. CASE u # init
    <3>1. PICK E \in SUBSET Range(list) : Accounts(f, init, r, u, E)
      BY <2>1, <2>3, <2>5
    <3> HIDE DEF Bad
    <3>2. Accounts(f, init, r, v, E \cup {g})
      BY <1>2, <2>2, <2>3, <2>5, <3>1, NextAccounts
    <3> QED BY <2>2, <2>3, <3>2
  <2> QED BY <2>4, <2>5
<1>4. PICK E \in SUBSET Range(list) : Accounts(f, init, r, goal, E)
  BY <1>3
<1>5. PathTo(goal, init, r) = LiteralsOf(E)
  <2>1. {} \in LiteralSets
    BY DEF LiteralSets
  <2>2. Collected(f, r.by[goal], {}) = {} \cup LiteralsOf(E)
    BY <1>4, <2>1 DEF Accounts
  <2> QED BY <1>2, <2>2
<1>6. \A m \in [Vertices -> Int] : (\A g \in E : Obeys(m, g)) => m[goal] - m[init] <= r.length[goal]
  BY <1>4 DEF Accounts
<1> QED BY <1>5, <1>6

\* An explanation is made of the literals of edges that were set no later and imply the one explained.
LEMMA ExplanationRight ==
    ASSUME AllAssignments, SolverRight, AsgnRight, NEW e \in DOMAIN edges, isTrue(e), Explanation(e).inRange
    PROVE  \E E \in SUBSET Range(addedEdges) :
              /\ Explanation(e).literals = LiteralsOf(E)
              /\ \A g \in E : setTime[g] <= setTime[e]
              /\ \A m \in Assignments : (\A g \in E : Obeys(m, g)) => Obeys(m, e)
<1>1. StoreRight /\ StoreTyped /\ GraphRight /\ TimesOrdered /\ AsgnTyped
  BY DEF SolverRight, StoreRight, GraphRight, AsgnRight, AsgnTyped
<1>2. setTime[e] \in Nat /\ 0 < setTime[e] /\ setTime[e] <= timestamp /\ timestamp \in Nat
  BY <1>1, GraphFacts DEF isTrue
<1>3. CASE edgeRefToAsgn[e] # NoLiteral
  <2>1. e \in Range(addedEdges)
    BY <1>3 DEF AsgnRight
  <2>2. Explanation(e).literals = LiteralsOf({e})
    BY <1>3 DEF Explanation, LiteralsOf
  <2>3. {e} \in SUBSET Range(addedEdges) /\ \A g \in {e} : setTime[g] <= setTime[e]
    BY <1>2, <2>1
  <2> QED BY <2>2, <2>3
<1>4. CASE edgeRefToAsgn[e] = NoLiteral
  <2> DEFINE init == edges[e].from
             goal == edges[e].to
             cost == edges[e].cost
             list == SetUntil(setTime[e])
             search == Search(Started(<<init>>, init, {}, FALSE), TRUE, list, goal, cost)
  <2>1. search.inRange /\ Explanation(e).literals = PathTo(goal, init, search)
    BY <1>4 DEF Explanation
  <2>2. init \in Vertices /\ goal \in Vertices /\ init # goal /\ cost \in Int
    BY <1>1, EdgesTyped DEF StoreRight
  <2>3. IsList(list) /\ Range(list) = {g \in Range(addedEdges) : setTime[g] <= setTime[e]}
    BY <1>1, <1>2, SetUntilRight
  <2> HIDE DEF search, list, init, goal, cost
  <2>4. \A m : Fits(m, list) <=> ObeysUntil(m, setTime[e])
    BY <2>3 DEF Fits, ObeysUntil, Obeys
  <2>5. \E m \in [Vertices -> Int] : Fits(m, list)
    <3>1. PICK m \in Assignments : \A g \in Range(addedEdges) : Obeys(m, g)
      BY <1>1, GraphFacts
    <3>2. Fits(m, list)
      BY <2>3, <3>1 DEF Fits, Obeys
    <3> QED BY <3>1, <3>2 DEF AllAssignments
  <2>6. Sensible(list)
    BY <1>1, <2>3, <2>5 DEF Sensible, StoreRight
  <2>7. ASSUME NEW m \in [Vertices -> Int], Fits(m, list) PROVE m[goal] - m[init] <= cost
    <3>1. m \in Assignments /\ ObeysUntil(m, setTime[e])
      BY <2>4, <2>7 DEF AllAssignments
    <3>2. setTime[e] \in 0..timestamp
      BY <1>2
    <3>3. 0 < setTime[e] /\ setTime[e] <= setTime[e]
      BY <1>2
    <3>4. Obeys(m, e)
      BY <1>1, <3>1, <3>2, <3>3 DEF GraphRight, TimesExact
    <3> QED BY <3>4 DEF Obeys, Holds, OfEdge, goal, init, cost
  <2>8. Bounding(list, init, goal, cost)
    BY <2>7 DEF Bounding
  <2>9. /\ search \in Searches /\ Reached(list, init, search) /\ Grounded(init, search)
        /\ goal \in search.seen /\ search.length[goal] <= cost
    BY <2>1, <2>2, <2>6, <2>8, WalkRight DEF search
  <2>10. PICK E \in SUBSET Range(list) :
            /\ PathTo(goal, init, search) = LiteralsOf(E)
            /\ \A m \in [Vertices -> Int] : (\A g \in E : Obeys(m, g)) => m[goal] - m[init] <= search.length[goal]
    BY <1>1, <2>2, <2>3, <2>9, PathRight
  <2>11. E \in SUBSET Range(addedEdges) /\ \A g \in E : setTime[g] <= setTime[e]
    BY <2>3, <2>10
  <2>12. ASSUME NEW m \in Assignments, \A g \in E : Obeys(m, g) PROVE Obeys(m, e)
    <3>1. m \in [Vertices -> Int]
      BY DEF AllAssignments
    <3>2. m[goal] - m[init] <= search.length[goal]
      BY <2>10, <2>12, <3>1
    <3>3. m[goal] \in Int /\ m[init] \in Int /\ search.length[goal] \in Int
      BY <2>2, <2>9, <3>1, SearchTyped
    <3>4. m[goal] - m[init] <= cost
      BY <2>2, <2>9, <3>2, <3>3
    <3> QED BY <3>4 DEF Obeys, Holds, OfEdge, goal, init, cost
  <2> QED BY <2>1, <2>10, <2>11, <2>12
<1> QED BY <1>3, <1>4

\* With a literal for the negation of the edge, it contradicts itself.
LEMMA ExplanationRefutes ==
    ASSUME AllAssignments, SolverRight, AsgnRight, NEW e \in DOMAIN edges, isTrue(e), Explanation(e).inRange,
           NEW last, EdgeOf(last) = edges[e].neg
    PROVE  LET lits == Explanation(e).literals \cup {last}
           IN  /\ lits \ {last} \subseteq Given /\ ~ Satisfiable(ReadAs(lits))
               /\ \A l \in lits \ {last} : setTime[EdgeOf(l)] <= setTime[e]
<1> DEFINE lits == Explanation(e).literals \cup {last}
<1>1. PICK E \in SUBSET Range(addedEdges) :
         /\ Explanation(e).literals = LiteralsOf(E)
         /\ \A g \in E : setTime[g] <= setTime[e]
         /\ \A m \in Assignments : (\A g \in E : Obeys(m, g)) => Obeys(m, e)
  BY ExplanationRight
<1>2. StoreRight /\ GraphRight
  BY DEF SolverRight
<1>3. lits = LiteralsOf(E) \cup {last}
  BY <1>1
<1> HIDE DEF lits
<1>4. ASSUME NEW g \in E PROVE edgeRefToAsgn[g] \in Given /\ EdgeOf(edgeRefToAsgn[g]) = g
  <2>1. g \in Range(addedEdges) /\ g \in DOMAIN edges
    BY <1>2, GraphFacts
  <2>2. PICK i \in DOMAIN stack : stack[i] = edgeRefToAsgn[g] /\ EdgeOf(stack[i]) = g
    BY <2>1 DEF AsgnRight
  <2> QED BY <2>2 DEF Given, Range
<1>5. ASSUME NEW l \in lits \ {last} PROVE l \in Given /\ setTime[EdgeOf(l)] <= setTime[e]
  <2>1. PICK g \in E : l = edgeRefToAsgn[g]
    BY <1>3 DEF LiteralsOf
  <2> QED BY <1>1, <1>4, <2>1
<1>6. ASSUME NEW m \in Assignments, \A k \in ReadAs(lits) : Holds(m, k) PROVE FALSE
  <2>1. \A l \in lits : Obeys(m, EdgeOf(l))
    BY <1>6 DEF ReadAs, Obeys
  <2>2. \A g \in E : Obeys(m, g)
    <3> SUFFICES ASSUME NEW g \in E PROVE Obeys(m, g)
      OBVIOUS
    <3>1. edgeRefToAsgn[g] \in lits
      BY <1>3 DEF LiteralsOf
    <3> QED BY <1>4, <2>1, <3>1
  <2>3. Obeys(m, e)
    BY <1>1, <2>2
  <2>4. Obeys(m, edges[e].neg)
    BY <1>3, <2>1
  <2> QED BY <1>2, <2>3, <2>4, NegatedEdge
<1>7. lits \ {last} \subseteq Given /\ ~ Satisfiable(ReadAs(lits))
  BY <1>5, <1>6 DEF Satisfiable
<1> QED BY <1>5, <1>7 DEF lits

\* Both kinds of explanations that the solver gives are right.
LEMMA ExplanationsHold == ASSUME AllAssignments, SolverInv, AsgnInv PROVE ExplanationsRight
<1> DEFINE Right(lits, last) == lits \ {last} \subseteq Given /\ ~ Satisfiable(ReadAs(lits))
<1> SUFFICES ASSUME ~ thrown
             PROVE  /\ has_explanation /\ Explanation(edges[EdgeOf(inv_asgn)].neg).inRange => Right(Conflict, inv_asgn)
                    /\ \A i \in DOMAIN th_deductions :
                          LET l == th_deductions[i]
                          IN  (inv_asgn = NoLiteral /\ Explanation(EdgeOf(l)).inRange /\ l \notin Given)
                                  => /\ Right(Reason(l), Negated(l))
                                     /\ \A m \in Reason(l) \ {Negated(l)} : setTime[EdgeOf(m)] <= setTime[EdgeOf(l)]
  BY DEF ExplanationsRight
<1>1. SolverRight /\ AsgnRight /\ StoreRight /\ GraphRight /\ DeductionsKept
  BY DEF SolverInv, AsgnInv, SolverRight
<1>2. ASSUME has_explanation, Explanation(edges[EdgeOf(inv_asgn)].neg).inRange
      PROVE  Right(Conflict, inv_asgn)
  <2> DEFINE f == EdgeOf(inv_asgn)
             e == edges[f].neg
  <2>1. inv_asgn # NoLiteral
    BY <1>1, <1>2 DEF AsgnRight
  <2>2. inv_asgn \in Given /\ 0 < setTime[e]
    BY <1>1, <2>1, GivenFacts
  <2>3. f \in DOMAIN edges
    BY <1>1, <2>2, GivenFacts
  <2> HIDE DEF f
  <2>4. e \in DOMAIN edges /\ edges[e].neg = f
    BY <1>1, <2>3 DEF StoreRight, NegationRight
  <2>5. isTrue(e)
    BY <1>1, <2>2, <2>4, GraphFacts DEF isTrue
  <2>6. Explanation(e).inRange
    BY <1>2 DEF f
  <2>7. Conflict = Explanation(e).literals \cup {inv_asgn}
    BY DEF Conflict, f
  <2>8. EdgeOf(inv_asgn) = edges[e].neg
    BY <2>4 DEF f
  <2> HIDE DEF e
  <2> QED BY <1>1, <2>4, <2>5, <2>6, <2>7, <2>8, ExplanationRefutes
<1>3. ASSUME NEW i \in DOMAIN th_deductions, Explanation(EdgeOf(th_deductions[i])).inRange
      PROVE  /\ Right(Reason(th_deductions[i]), Negated(th_deductions[i]))
             /\ \A m \in Reason(th_deductions[i]) \ {Negated(th_deductions[i])} :
                   setTime[EdgeOf(m)] <= setTime[EdgeOf(th_deductions[i])]
  <2> DEFINE l == th_deductions[i]
             e == EdgeOf(l)
  <2>1. l \in Literal
    <3>1. th_deductions \in Seq(Literal)
      BY <1>1 DEF SolverRight, MarksOrdered
    <3>2. DOMAIN th_deductions = 1..Len(th_deductions)
      BY <3>1, LenProperties
    <3> QED BY <3>1, <3>2, ElementOfSeq
  <2>2. l.tr \in informed /\ 0 < setTime[e]
    BY <1>1 DEF DeductionsKept
  <2> HIDE DEF l
  <2>3. e \in DOMAIN edges /\ EdgeOf(Negated(l)) = edges[e].neg
    BY <1>1, <2>1, <2>2, EdgeOfLiteral
  <2>4. isTrue(e)
    BY <1>1, <2>2, <2>3, GraphFacts DEF isTrue
  <2>5. Explanation(e).inRange /\ Reason(l) = Explanation(e).literals \cup {Negated(l)}
    BY <1>3 DEF Reason, l
  <2> HIDE DEF e
  <2>6. /\ Right(Reason(l), Negated(l))
        /\ \A m \in Reason(l) \ {Negated(l)} : setTime[EdgeOf(m)] <= setTime[e]
    BY <1>1, <2>3, <2>4, <2>5, ExplanationRefutes
  <2> QED BY <2>6 DEF l, e
<1> QED BY <1>2, <1>3

\* Explanations use given literals only, that are contradictory by themselves, and a reason none that
\* became true after the literal it explains: whatever the graph and the path that the search took.
THEOREM ExplanationsAlwaysRight ==
    ASSUME AllAssignments
    PROVE  Spec => []ExplanationsRight
<1>1. SolverInv /\ AsgnInv => ExplanationsRight
  BY ExplanationsHold
<1> QED BY <1>1, SolverAlwaysRight, AsgnAlwaysRight, PTL
=============================================================================
