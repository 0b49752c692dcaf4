------------------------------ MODULE LASolver ------------------------------
(***************************************************************************)
(* The solver for linear arithmetic (tsolvers/lasolver).  An atom          *)
(* c <= t bounds the variable of its term t; a term that is a sum has a    *)
(* row in the tableau.  Asserting a literal only records a bound; a check  *)
(* runs the simplex method, one pivot a step here, until every basic       *)
(* variable is within its bounds or a row shows that it cannot be.  Values *)
(* are r + d * delta for an infinitesimal delta (Delta.h), so that strict  *)
(* bounds are bounds.  Rows without an active bound are kept aside as      *)
(* quasi-basic and brought up to date when they are needed again.          *)
(***************************************************************************)
EXTENDS TSolver, Rationals, SequencesExt, FiniteSetsExt, Functions

CONSTANTS
    Vars,       \* LVRef: numbers, within a problem in the order in which registerArithmeticTerm()
                \* creates them: a sum before the summands that are new
    Rows,       \* the polynomial of a variable that stands for a sum
    IntVars,    \* int_vars: the variables that only take integers
    Interface,  \* the variables shared with another theory
    Declared,   \* bound: the sequences of atoms declared before the first call
    Late,       \* bound: the atoms that may be declared after it
    MaxStack,   \* bound: literals asserted at once, of the problems that Long does not name
    Long,       \* bound: the literals asserted of the other problems, in this order only
    MaxChecks   \* bound: checks

VARIABLES
    kind, row, cols,        \* the tableau: "none", "nonbasic", "basic" or "quasi"; rows and columns
    value, backup,          \* the model: current_assignment and last_consistent_assignment
    bounds,                 \* the bounds of a variable in order, each as its literal
    bound_trace,            \* the bounds that hold, oldest first
    buffer,                 \* bufferOfActivatedBounds
    boundsActivated,        \* how many literals about a variable were asserted
    candidates,             \* the basic variables out of their bounds
    search,                 \* checkSimplex(): whether it runs, for check(complete), and `repeats'
    status,
    explanation,            \* [lit, coeff]: the bounds in conflict with their coefficients, until popped
    splitondemand,          \* the split requested: the literals of a clause
    stack,                  \* THandler's literals: [lit, decided, limit], limit into bound_trace
    checked,                \* how many of the oldest literals a check that answered SAT has seen
    verdict,                \* what the last check answered for the literals on the stack
    checks                  \* how many checks were made: the bound counts them

tableauVars == <<kind, row, cols>>
modelVars == <<value, backup, bound_trace>>
vars == <<tsolverVars, tableauVars, modelVars, bounds, buffer, boundsActivated, candidates, search,
          status, explanation, splitondemand, stack, checked, verdict, checks>>

-----------------------------------------------------------------------------
(* Numbers with an infinitesimal part. *)

\* K of a value that is computed once.
With(x, K(_)) == K(x)

Zero == Whole(0)
One == Whole(1)
Delta(r, d) == <<r, d>>
Plus(a, b) == Delta(mpq_add(a[1], b[1]), mpq_add(a[2], b[2]))
Minus(a, b) == Delta(mpq_sub(a[1], b[1]), mpq_sub(a[2], b[2]))
Times(k, a) == Delta(mpq_mul(k, a[1]), mpq_mul(k, a[2]))
Less(a, b) == mpq_cmp(a[1], b[1]) < 0 \/ (a[1] = b[1] /\ mpq_cmp(a[2], b[2]) < 0)
AtMost(a, b) == ~ Less(b, a)

(* Polynomials: the nonzero coefficients of variables. *)

Coeff(p, v) == IF v \in DOMAIN p THEN p[v] ELSE Zero
OfVar(v) == [x \in {v} |-> One]
Merged(p, q, k) ==
    LET total == [v \in DOMAIN p \cup DOMAIN q |-> mpq_add(Coeff(p, v), mpq_mul(k, Coeff(q, v)))]
    IN  Restrict(total, {v \in DOMAIN total : total[v] # Zero})
Eval(p, val) == FoldSet(LAMBDA v, s : Plus(s, Times(p[v], val[v])), Delta(Zero, Zero), DOMAIN p)

-----------------------------------------------------------------------------
(* Bounds. *)

\* getBoundsValue(): the least upper and greatest lower bound that v < k or v <= k stands for.
BoundsOf(v, k, strict) ==
    IF v \in IntVars
    THEN IF strict THEN [upper |-> Delta(mpq_ceil(mpq_sub(k, One)), Zero), lower |-> Delta(mpq_ceil(k), Zero)]
         ELSE [upper |-> Delta(mpq_floor(k), Zero), lower |-> Delta(mpq_floor(mpq_add(k, One)), Zero)]
    ELSE IF strict THEN [upper |-> Delta(k, Whole(-1)), lower |-> Delta(k, Zero)]
         ELSE [upper |-> Delta(k, Zero), lower |-> Delta(k, One)]

\* The variable of a literal, whether it bounds it from below, and by what: addBound().
Var(l) == l.tr.var
IsLower(l) == l.sgn # l.tr.neg
Value(l) ==
    LET b == IF l.tr.neg THEN BoundsOf(l.tr.var, mpq_neg(l.tr.c), FALSE)
             ELSE BoundsOf(l.tr.var, l.tr.c, TRUE)
    IN  IF IsLower(l) THEN b.lower ELSE b.upper
\* The literals of an atom, the upper bound first.
Pair(a) == IF a.neg THEN <<[tr |-> a, sgn |-> TRUE], [tr |-> a, sgn |-> FALSE]>>
           ELSE <<[tr |-> a, sgn |-> FALSE], [tr |-> a, sgn |-> TRUE]>>

\* allocBoundPairAndSort(): each in front of the bounds that are not less.
Inserted(s, l) ==
    LET before == SelectSeq(s, LAMBDA b : Less(Value(b), Value(l)))
    IN  before \o <<l>> \o SubSeq(s, Len(before) + 1, Len(s))
WithPair(s, a) == Inserted(Inserted(s, Pair(a)[1]), Pair(a)[2])

\* buildBounds(): minisat's sort exchanges each place with the first least bound from there on.
Sorted(s) ==
    LET Least(t, i) == Min({j \in i..Len(t) : \A k \in i..Len(t) : AtMost(Value(t[j]), Value(t[k]))})
        step[i \in 0..Len(s)] ==
            IF i = 0 THEN s
            ELSE LET t == step[i - 1]  j == Least(t, i)
                 IN  [t EXCEPT ![i] = t[j], ![j] = t[i]]
    IN  step[Len(s)]

Idx(l) == CHOOSE i \in DOMAIN bounds[Var(l)] : bounds[Var(l)][i] = l

\* The bounds that hold for a variable: int_lbounds and int_ubounds, the last one counts.
LowersIn(trace, v) == SelectSeq(trace, LAMBDA b : Var(b) = v /\ IsLower(b))
UppersIn(trace, v) == SelectSeq(trace, LAMBDA b : Var(b) = v /\ ~ IsLower(b))
hasLBound(v) == LowersIn(bound_trace, v) # <<>>
hasUBound(v) == UppersIn(bound_trace, v) # <<>>
LBound(v) == Last(LowersIn(bound_trace, v))
UBound(v) == Last(UppersIn(bound_trace, v))

isModelOutOfUpperBound(val, v) == hasUBound(v) /\ Less(Value(UBound(v)), val[v])
isModelOutOfLowerBound(val, v) == hasLBound(v) /\ Less(val[v], Value(LBound(v)))
isModelOutOfBounds(val, v) == isModelOutOfUpperBound(val, v) \/ isModelOutOfLowerBound(val, v)
isModelStrictlyUnderUpperBound(v) == ~ hasUBound(v) \/ Less(value[v], Value(UBound(v)))
isModelStrictlyOverLowerBound(v) == ~ hasLBound(v) \/ Less(Value(LBound(v)), value[v])

boundTriviallySatisfied(l) ==
    IF IsLower(l) THEN hasLBound(Var(l)) /\ Idx(l) <= Idx(LBound(Var(l)))
    ELSE hasUBound(Var(l)) /\ Idx(l) >= Idx(UBound(Var(l)))
Opposite(l) == IF IsLower(l) THEN UBound(Var(l)) ELSE LBound(Var(l))
boundTriviallyUnsatisfied(l) ==
    IF IsLower(l) THEN hasUBound(Var(l)) /\ Idx(l) > Idx(Opposite(l)) /\ Value(l) # Value(Opposite(l))
    ELSE hasLBound(Var(l)) /\ Idx(l) < Idx(Opposite(l)) /\ Value(l) # Value(Opposite(l))

-----------------------------------------------------------------------------
(* The tableau, as a record of its three parts. *)

Tableau == [kind |-> kind, row |-> row, cols |-> cols]
SetTableau(t) == kind' = t.kind /\ row' = t.row /\ cols' = t.cols

\* normalizeRow(): a row in terms of variables that are not basic, after the quasi-basic ones in it.
NormalForms(t) ==
    LET nf[v \in Vars] ==
            IF t.kind[v] = "nonbasic" THEN OfVar(v)
            ELSE IF t.kind[v] = "basic" THEN t.row[v]
            ELSE FoldSet(LAMBDA x, p : Merged(p, nf[x], t.row[v][x]), <<>>, DOMAIN t.row[v])
    IN  nf
Touched(t) ==
    LET reach[v \in Vars] == {v} \cup UNION {reach[x] : x \in {y \in DOMAIN t.row[v] : t.kind[y] = "quasi"}}
    IN  reach
normalizeRow(t, v) ==
    LET nf == NormalForms(t)  touched == Touched(t)[v]
    IN  [t EXCEPT !.row = [w \in Vars |-> IF w \in touched THEN nf[w] ELSE t.row[w]]]

\* Bug to detect: the row is taken as it was when it was put aside.
quasiToBasicStale(t, v) ==
    IF t.kind[v] # "quasi" THEN t
    ELSE [kind |-> [t.kind EXCEPT ![v] = "basic"], row |-> t.row,
          cols |-> [x \in Vars |-> IF x \in DOMAIN t.row[v] THEN t.cols[x] \cup {v} ELSE t.cols[x]]]

quasiToBasic(t, v) ==
    IF t.kind[v] # "quasi" THEN t
    ELSE LET n == normalizeRow(t, v)
         IN  [kind |-> [n.kind EXCEPT ![v] = "basic"], row |-> n.row,
              cols |-> [x \in Vars |-> IF x \in DOMAIN n.row[v] THEN n.cols[x] \cup {v} ELSE n.cols[x]]]
basicToQuasi(t, S) ==
    [t EXCEPT !.kind = [v \in Vars |-> IF v \in S THEN "quasi" ELSE t.kind[v]],
              !.cols = [x \in Vars |-> t.cols[x] \ S]]
\* getValuation() of variables, which makes them basic; and the values they then have.
Basic(t, S) == FoldSet(LAMBDA v, s : quasiToBasic(s, v), t, S)
Valued(t, old, val) ==
    [v \in Vars |-> IF old[v] = "quasi" /\ t.kind[v] = "basic" THEN Eval(t.row[v], val) ELSE val[v]]

pivotRows(t, bv, nv) ==
    LET c == t.row[bv][nv]
        rest == Restrict(t.row[bv], DOMAIN t.row[bv] \ {nv})
        poly == Merged(Merged(<<>>, rest, mpq_neg(mpq_div(One, c))), OfVar(bv), mpq_div(One, c))
    IN  [v \in Vars |->
            IF v = nv THEN poly
            ELSE IF v = bv THEN <<>>
            ELSE IF v \in t.cols[nv]
            THEN Merged(Restrict(t.row[v], DOMAIN t.row[v] \ {nv}), poly, t.row[v][nv])
            ELSE t.row[v]]
\* The columns learn of the terms that the merging adds to rows and removes from them.
pivotCols(t, rows, bv, nv) ==
    [v \in Vars |->
        IF v = nv THEN {}
        ELSE LET was == IF v = bv THEN t.cols[nv] ELSE t.cols[v]
                 others == t.cols[nv] \ {bv}
                 added == {r \in others : v \in DOMAIN rows[r] /\ v \notin DOMAIN t.row[r]}
                 removed == {r \in others : v \notin DOMAIN rows[r] /\ v \in DOMAIN t.row[r]}
             IN  IF v \in DOMAIN rows[nv] THEN ((was \ {bv}) \cup {nv} \cup added) \ removed ELSE was]
TableauPivot(t, bv, nv) ==
    LET rows == pivotRows(t, bv, nv)
    IN  [kind |-> [t.kind EXCEPT ![bv] = "nonbasic", ![nv] = "basic"], row |-> rows,
         cols |-> pivotCols(t, rows, bv, nv)]

\* A variable as the sum of variables of terms that it stands for.
Definition(v) == IF v \in DOMAIN Rows THEN Rows[v] ELSE OfVar(v)

\* registerArithmeticTerm(): the variables of a term, and the row of a sum, which no bound uses yet.
Registered(t, v) ==
    LET terms == IF v \in DOMAIN Rows THEN DOMAIN Rows[v] ELSE {v}
        k == [w \in Vars |-> IF t.kind[w] # "none" THEN t.kind[w]
                             ELSE IF w \in terms THEN "nonbasic" ELSE IF w = v THEN "quasi" ELSE "none"]
    IN  IF t.kind[v] = "none" /\ v \in DOMAIN Rows
        THEN normalizeRow([t EXCEPT !.kind = k, !.row[v] = Rows[v]], v)
        ELSE [t EXCEPT !.kind = k]

-----------------------------------------------------------------------------
(* Values of variables. *)

\* changeValueBy(), on the values and the candidates.
changeValueBy(m, t, v, diff) ==
    LET val == [x \in Vars |-> IF x = v THEN Plus(m.value[x], diff)
                               ELSE IF x \in t.cols[v] THEN Plus(m.value[x], Times(t.row[x][v], diff))
                               ELSE m.value[x]]
        out == {x \in t.cols[v] : isModelOutOfBounds(val, x)}
    IN  [value |-> val, candidates |-> (m.candidates \ t.cols[v]) \cup out]

\* processBufferOfActivatedBounds(): the newest first.
Processed ==
    LET One1(m, l) ==
            LET v == Var(l)
                ok == IF IsLower(l) THEN AtMost(Value(l), m.value[v]) ELSE AtMost(m.value[v], Value(l))
            IN  IF kind[v] = "nonbasic"
                THEN IF ok THEN m ELSE changeValueBy(m, Tableau, v, Minus(Value(l), m.value[v]))
                ELSE IF isModelOutOfBounds(m.value, v) THEN [m EXCEPT !.candidates = @ \cup {v}] ELSE m
    IN  FoldLeft(One1, [value |-> value, candidates |-> candidates], Reverse(buffer))

-----------------------------------------------------------------------------

\* initSolver() runs in the first assertLit() or check(): it registers the atoms declared until then.
Start(atoms) ==
    LET blank == [kind |-> [v \in Vars |-> "none"], row |-> [v \in Vars |-> <<>>], cols |-> [v \in Vars |-> {}]]
        t == FoldLeft(LAMBDA s, a : Registered(s, a.var), blank, atoms)
        All(v) == FoldLeft(LAMBDA s, a : IF a.var = v THEN s \o Pair(a) ELSE s, <<>>, atoms)
    IN  /\ informed = ToSet(atoms)
        /\ kind = t.kind /\ row = t.row /\ cols = t.cols
        /\ bounds = [v \in Vars |-> Sorted(All(v))]

Init ==
    /\ \E atoms \in Declared : Start(atoms)
    /\ th_deductions = <<>> /\ deductions_next = 0 /\ deductions_marks = <<>>
    /\ polarity = {} /\ has_explanation = FALSE
    /\ value = [v \in Vars |-> Delta(Zero, Zero)] /\ backup = value
    /\ bound_trace = <<>> /\ buffer = <<>>
    /\ boundsActivated = [v \in Vars |-> 0]
    /\ candidates = {}
    /\ search = [on |-> FALSE, complete |-> FALSE, repeats |-> 0]
    /\ status = "SAT" /\ explanation = {} /\ splitondemand = {}
    /\ stack = <<>> /\ checked = 0 /\ verdict = "none" /\ checks = 0

Idle == ~ search.on
Lits(s) == [i \in DOMAIN s |-> s[i].lit]
Given == ToSet(Lits(stack))
\* hasPolarity(l.tr) && getPolarity(l.tr) == l.sgn
Known(l) ==
    /\ l.tr \in polarity
    /\ l \in ToSet(th_deductions) \cup {stack[i].lit : i \in {j \in DOMAIN stack : stack[j].decided}}

\* Bug to detect: bounds on the other side are deduced as well.
getAllDeductions(l) ==
    LET s == bounds[Var(l)]
        Weaker(b) == b.tr \notin polarity \cup {l.tr}
    IN  IF IsLower(l) THEN SelectSeq(Reverse(SubSeq(s, 1, Idx(l) - 1)), Weaker)
        ELSE SelectSeq(SubSeq(s, Idx(l) + 1, Len(s) - 1), Weaker)

\* getSimpleDeductions(): the weaker bounds of the variable, next ones first.
getSimpleDeductions(l) ==
    LET s == bounds[Var(l)]
        Weaker(b) == IsLower(b) = IsLower(l) /\ b.tr \notin polarity \cup {l.tr}
    IN  IF IsLower(l) THEN SelectSeq(Reverse(SubSeq(s, 1, Idx(l) - 1)), Weaker)
        ELSE SelectSeq(SubSeq(s, Idx(l) + 1, Len(s) - 1), Weaker)

\* pushBacktrackPoint() of the TSolverHandler, then assertLit().
PushPoint == deductions_marks' = Append(deductions_marks, Mark)
Put(l, decided) == stack' = Append(stack, [lit |-> l, decided |-> decided, limit |-> Len(bound_trace)])

\* The sequences of literals that the bounds allow.
Within(s) ==
    LET long == {t \in Long : \E i \in DOMAIN t : t[i].tr \in informed}
    IN  IF long = {} THEN Len(s) <= MaxStack ELSE \E t \in long : IsPrefix(s, t)

assertLit(l) ==
    /\ Idle /\ status = "SAT"
    /\ l.tr \in informed \ {m.tr : m \in Given} /\ Within(Append(Lits(stack), l))
    /\ PushPoint /\ verdict' = "none"
    /\ \/ /\ Known(l)
          /\ Put(l, FALSE)
          /\ UNCHANGED <<th_deductions, polarity, has_explanation, tableauVars, modelVars, buffer,
                         boundsActivated, status, explanation>>
       \/ /\ ~ Known(l) /\ boundTriviallyUnsatisfied(l)
          /\ Put(l, FALSE)
          /\ status' = "UNSAT" /\ has_explanation' = TRUE
          /\ explanation' = {[lit |-> Opposite(l), coeff |-> One], [lit |-> l, coeff |-> One]}
          /\ UNCHANGED <<th_deductions, polarity, tableauVars, modelVars, buffer, boundsActivated>>
       \/ /\ ~ Known(l) /\ ~ boundTriviallyUnsatisfied(l)
          /\ Put(l, TRUE)
          /\ LET t == quasiToBasic(Tableau, Var(l))
                 deds == getSimpleDeductions(l)
             IN  /\ SetTableau(t)
                 /\ value' = Valued(t, kind, value) /\ backup' = Valued(t, kind, backup)
                 /\ th_deductions' = th_deductions \o deds
                 /\ polarity' = polarity \cup {l.tr} \cup {deds[i].tr : i \in DOMAIN deds}
          /\ boundsActivated' = [boundsActivated EXCEPT ![Var(l)] = @ + 1]
          /\ IF boundTriviallySatisfied(l) THEN UNCHANGED <<bound_trace, buffer>>
             ELSE bound_trace' = Append(bound_trace, l) /\ buffer' = Append(buffer, l)
          /\ explanation' = {}
          /\ UNCHANGED <<has_explanation, status>>
    /\ UNCHANGED <<informed, deductions_next, bounds, candidates, search, splitondemand, checked, checks>>

-----------------------------------------------------------------------------
(* check(): checkSimplex() until it accepts or finds a conflict. *)

check(complete) ==
    /\ Idle /\ status = "SAT"
    /\ checked < Len(stack) \/ (complete /\ verdict = "sat")
    /\ checks < MaxChecks /\ checks' = checks + 1
    /\ value' = Processed.value /\ candidates' = Processed.candidates
    /\ buffer' = <<>>
    /\ search' = [on |-> TRUE, complete |-> complete, repeats |-> 0]
    /\ UNCHANGED <<tsolverVars, tableauVars, backup, bound_trace, bounds, boundsActivated, status,
                   explanation, splitondemand, stack, checked, verdict>>

\* getNumOfCols(): the columns are those of all variables created, the sums among them.
NumOfCols == Cardinality({v \in Vars : kind[v] # "none"})
\* Bug to detect: the heuristic is kept, however often it has chosen.
BlandNever == FALSE
Bland == search.repeats + 1 > NumOfCols

\* getBasicVarToFix...(): by Bland's rule the first one, else the first of the shortest rows.
ToFix ==
    IF Bland THEN Min(candidates)
    ELSE Min({v \in candidates : \A w \in candidates : Cardinality(DOMAIN row[v]) <= Cardinality(DOMAIN row[w])})

\* findNonBasicForPivot...(): by Bland's rule the first one, else the first of the shortest columns.
CanMove(x, y) ==
    IF isModelOutOfLowerBound(value, x) = (mpq_cmp(row[x][y], Zero) > 0)
    THEN isModelStrictlyUnderUpperBound(y) ELSE isModelStrictlyOverLowerBound(y)
Movable(x) == {y \in DOMAIN row[x] : CanMove(x, y)}
ForPivot(x) ==
    IF Bland THEN Min(Movable(x))
    ELSE Min({y \in Movable(x) : \A z \in Movable(x) : Cardinality(cols[y]) <= Cardinality(cols[z])})

\* pivot(): x goes to the bound it violates and leaves the basis for y, which becomes quasi-basic
\* if no literal is about it.
pivot(x, y) ==
    LET target == IF isModelOutOfLowerBound(value, x) THEN Value(LBound(x)) ELSE Value(UBound(x))
        m == changeValueBy([value |-> value, candidates |-> candidates], Tableau, y,
                           Times(mpq_div(One, row[x][y]), Minus(target, value[x])))
        t == TableauPivot(Tableau, x, y)
        unused == boundsActivated[y] = 0
    IN  /\ SetTableau(IF unused THEN basicToQuasi(t, {y}) ELSE t)
        /\ value' = m.value
        /\ candidates' = (m.candidates \ {x})
                         \cup (IF ~ unused /\ isModelOutOfBounds(m.value, y) THEN {y} ELSE {})

\* Bug to detect: every bound counts once.
ConflictingBoundsOnce(x) ==
    LET low == isModelOutOfLowerBound(value, x)
        Term(y) == IF low = (mpq_cmp(row[x][y], Zero) > 0) THEN UBound(y) ELSE LBound(y)
    IN  {[lit |-> b, coeff |-> One] : b \in {IF low THEN LBound(x) ELSE UBound(x)} \cup {Term(y) : y \in DOMAIN row[x]}}

\* getConflictingBounds(): the bound of x and those that keep its row from reaching it.
ConflictingBounds(x) ==
    LET low == isModelOutOfLowerBound(value, x)
        Term(y) == IF low = (mpq_cmp(row[x][y], Zero) > 0)
                   THEN [lit |-> UBound(y), coeff |-> IF low THEN row[x][y] ELSE mpq_neg(row[x][y])]
                   ELSE [lit |-> LBound(y), coeff |-> IF low THEN mpq_neg(row[x][y]) ELSE row[x][y]]
    IN  {[lit |-> IF low THEN LBound(x) ELSE UBound(x), coeff |-> One]} \cup {Term(y) : y \in DOMAIN row[x]}

Pivots ==
    /\ search.on /\ candidates # {} /\ Movable(ToFix) # {}
    /\ pivot(ToFix, ForPivot(ToFix))
    /\ search' = [search EXCEPT !.repeats = @ + 1]
    /\ UNCHANGED <<tsolverVars, backup, bound_trace, bounds, buffer, boundsActivated, status,
                   explanation, splitondemand, stack, checked, verdict, checks>>

Conflicts ==
    /\ search.on /\ candidates # {} /\ Movable(ToFix) = {}
    /\ value' = backup
    /\ explanation' = ConflictingBounds(ToFix)
    /\ status' = "UNSAT" /\ has_explanation' = TRUE /\ verdict' = "unsat"
    /\ search' = [on |-> FALSE, complete |-> FALSE, repeats |-> 0]
    /\ UNCHANGED <<informed, th_deductions, deductions_next, deductions_marks, polarity, tableauVars,
                   backup, bound_trace, bounds, buffer, boundsActivated, candidates, splitondemand,
                   stack, checked, checks>>

\* checkIntegersAndSplit(): a random one of the integer variables that are not integers is split on.
\* (x <= c is the atom -c <= -x.)  The SAT solver fetches all deductions when the answer is SAT.
isInteger(a) == a[2] = Zero /\ a[1][2] = 1
SplitOf(v, c) == {[tr |-> [var |-> v, c |-> mpq_neg(c), neg |-> TRUE], sgn |-> TRUE],
                  [tr |-> [var |-> v, c |-> mpq_add(c, One), neg |-> FALSE], sgn |-> TRUE]}

Accepts ==
    /\ search.on /\ candidates = {}
    /\ LET ints == {v \in IntVars : kind[v] # "none"}
           t == IF search.complete THEN Basic(Tableau, ints) ELSE Tableau
           val == Valued(t, kind, value)
           toFix == {v \in ints : ~ isInteger(val[v])}
       IN  /\ SetTableau(t) /\ value' = val /\ backup' = val
           /\ \/ /\ ~ search.complete /\ status' = "SAT" /\ verdict' = "sat" /\ UNCHANGED splitondemand
              \/ /\ search.complete /\ toFix = {}
                 /\ status' = "SAT" /\ verdict' = "complete" /\ UNCHANGED splitondemand
              \/ /\ search.complete /\ status' = "NEWSPLIT" /\ verdict' = "split"
                 /\ \E v \in toFix : splitondemand' = SplitOf(v, mpq_floor(val[v][1]))
    /\ has_explanation' = FALSE /\ explanation' = {}
    /\ deductions_next' = Len(th_deductions)
    /\ checked' = Len(stack)
    /\ search' = [on |-> FALSE, complete |-> FALSE, repeats |-> 0]
    /\ UNCHANGED <<informed, th_deductions, deductions_marks, polarity, bound_trace, bounds, buffer,
                   boundsActivated, candidates, stack, checks>>

-----------------------------------------------------------------------------
(* What else the SAT solver calls. *)

\* popBacktrackPoints(n).  A backjump leaves only literals that passed a check: what was asserted
\* since is of the level that is left.
Unpopped(n) == SubSeq(stack, 1, Len(stack) - n)
popBacktrackPoints(n) ==
    /\ Idle /\ n <= Len(stack) /\ status # "NEWSPLIT"
    /\ Len(stack) - n <= checked
    /\ checked' = Len(stack) - n
    /\ LET gone == {i \in (Len(stack) - n + 1)..Len(stack) : stack[i].decided}
           left == [v \in Vars |-> boundsActivated[v] - Cardinality({i \in gone : Var(stack[i].lit) = v})]
           unused == {v \in Vars : kind[v] = "basic" /\ left[v] = 0 /\ boundsActivated[v] > 0}
           mark == deductions_marks[Len(deductions_marks) - n + 1]
       IN  /\ boundsActivated' = left
           /\ SetTableau(basicToQuasi(Tableau, unused))
           /\ th_deductions' = SubSeq(th_deductions, 1, mark.lim) /\ deductions_next' = mark.next
           /\ deductions_marks' = SubSeq(deductions_marks, 1, Len(deductions_marks) - n)
           /\ polarity' = polarity \ ({stack[i].lit.tr : i \in gone}
                                      \cup {th_deductions[i].tr : i \in (mark.lim + 1)..Len(th_deductions)})
    /\ bound_trace' = SubSeq(bound_trace, 1, stack[Len(stack) - n + 1].limit)
    /\ stack' = Unpopped(n)
    /\ buffer' = <<>> /\ candidates' = {}
    /\ status' = "SAT" /\ has_explanation' = FALSE /\ explanation' = {} /\ verdict' = "none"
    /\ UNCHANGED <<informed, value, backup, bounds, search, splitondemand, checks>>

\* getReasonFor(l) of a deduced literal that is not on the trail, or no longer: the negation is
\* asserted on a level of its own, which fails before it changes anything but what popping clears.
getReasonFor(l) ==
    /\ Idle /\ status = "SAT" /\ l.tr \notin {m.tr : m \in Given}
    /\ boundTriviallyUnsatisfied(Negated(l))
    /\ checked = Len(stack)
    /\ buffer' = <<>> /\ candidates' = {}
    /\ UNCHANGED <<tsolverVars, tableauVars, modelVars, bounds, boundsActivated, search, status,
                   explanation, splitondemand, stack, checked, verdict, checks>>

\* declareAtom() of a new atom, of the problem at hand; getNewSplits() declares those of its clause.
DeclareAll(atoms) ==
    LET t == FoldLeft(LAMBDA s, a : Registered(s, a.var), Tableau, atoms)
    IN  /\ informed' = informed \cup ToSet(atoms)
        /\ SetTableau(t)
        /\ bounds' = [v \in Vars |-> FoldLeft(LAMBDA s, a : IF a.var = v THEN WithPair(s, a) ELSE s,
                                              bounds[v], atoms)]
        /\ UNCHANGED <<th_deductions, deductions_next, deductions_marks, polarity, has_explanation,
                       modelVars, buffer, boundsActivated, candidates, search, explanation, stack, checked, checks>>

declareAtom(a) ==
    /\ Idle /\ status = "SAT" /\ a \in Late \ informed
    /\ \E v \in Vars : kind[v] # "none" /\ v \in DOMAIN Definition(a.var)
    /\ DeclareAll(<<a>>)
    /\ UNCHANGED <<status, splitondemand, verdict, checks>>

getNewSplits ==
    /\ Idle /\ status = "NEWSPLIT"
    /\ DeclareAll(SelectSeq(SetToSortSeq({l.tr : l \in splitondemand}, LAMBDA a, b : a.neg /\ ~ b.neg),
                            LAMBDA a : a \in Atoms \ informed))
    /\ status' = "SAT" /\ splitondemand' = {} /\ verdict' = "none"

\* getPolaritySuggestion(a), collectEqualitiesFor() and computeModel() read values, which brings
\* quasi-basic variables back.
ReadValues(S) ==
    /\ Idle /\ status = "SAT"
    /\ LET t == Basic(Tableau, S)
       IN  /\ SetTableau(t)
           /\ value' = Valued(t, kind, value) /\ backup' = Valued(t, kind, backup)
    /\ UNCHANGED <<tsolverVars, bound_trace, bounds, buffer, boundsActivated, candidates, search, status,
                   explanation, splitondemand, stack, checked, verdict, checks>>

getPolaritySuggestion(a) == a \in informed /\ verdict = "sat" /\ kind[a.var] = "quasi" /\ ReadValues({a.var})
collectEqualitiesFor == verdict = "complete" /\ ReadValues(Interface)
computeModel == verdict = "complete" /\ ReadValues({v \in Vars : kind[v] # "none"})

Next ==
    \/ \E l \in Literal : assertLit(l)
    \/ \E complete \in BOOLEAN : check(complete)
    \/ Pivots
    \/ Conflicts
    \/ Accepts
    \/ \E n \in DOMAIN stack : popBacktrackPoints(n)
    \/ \E i \in DOMAIN th_deductions : getReasonFor(th_deductions[i])
    \/ \E a \in Atoms : declareAtom(a)
    \/ getNewSplits
    \/ \E a \in Atoms : getPolaritySuggestion(a)
    \/ collectEqualitiesFor
    \/ computeModel

Spec == Init /\ [][Next]_vars

-----------------------------------------------------------------------------
(* Properties. *)

TypeOK ==
    /\ TSolverTypeOK
    /\ kind \in [Vars -> {"none", "nonbasic", "basic", "quasi"}]
    /\ \A v \in Vars : DOMAIN row[v] \subseteq Vars /\ cols[v] \subseteq Vars
    /\ candidates \subseteq Vars
    /\ status \in {"SAT", "UNSAT", "NEWSPLIT"}
    /\ verdict \in {"none", "sat", "complete", "split", "unsat"}

Registereds == {v \in Vars : kind[v] # "none"}
Proper == {v \in Registereds : v \notin DOMAIN Rows}

Expanded(p) == FoldSet(LAMBDA v, q : Merged(q, Definition(v), p[v]), <<>>, DOMAIN p)

\* The values getValuation() would return; computeDelta(); computeConcreteModel().
Valuation == Valued(Basic(Tableau, Registereds), kind, value)

\* Bug to detect: the infinitesimal is 1 whatever the bounds are.
computeDeltaOne == One
computeDelta ==
    LET Moving == {v \in Registereds : value[v][2] # Zero}
        low == {<<value[v], Value(LBound(v))>> : v \in {w \in Moving : hasLBound(w)}}
        up == {<<Value(UBound(v)), value[v]>> : v \in {w \in Moving : hasUBound(w)}}
        narrow == {p \in low \cup up : mpq_cmp(p[2][1], p[1][1]) < 0 /\ mpq_cmp(p[2][2], p[1][2]) > 0}
        ratios == {mpq_div(mpq_sub(p[1][1], p[2][1]), mpq_sub(p[2][2], p[1][2])) : p \in narrow}
        Half(least) == IF mpq_cmp(least, One) > 0 THEN One ELSE mpq_div(least, Whole(2))
    IN  With(ratios, LAMBDA R : IF R = {} THEN One ELSE Half(CHOOSE r \in R : \A q \in R : mpq_cmp(r, q) <= 0))
concrete_model ==
    With(Valuation, LAMBDA val :
        With(computeDelta, LAMBDA delta : [v \in Registereds |-> mpq_add(val[v][1], mpq_mul(val[v][2], delta))]))

\* What a literal says of a model, and a row of the values of its sum.
Holds(l, m) ==
    LET c == l.tr.c  t == IF l.tr.neg THEN mpq_neg(m[l.tr.var]) ELSE m[l.tr.var]
    IN  (mpq_cmp(c, t) <= 0) = l.sgn
SumHolds(v, m) ==
    m[v] = FoldSet(LAMBDA x, s : mpq_add(s, mpq_mul(Rows[v][x], m[x])), Zero, DOMAIN Rows[v])

\* Once the literals on the stack, or more, passed a check, the model made of the values of the
\* simplex method, with its infinitesimal replaced by a number, satisfies every literal as written
\* and every sum; after a complete check its integers are integers, and a split that is asked for
\* excludes it (checkSimplex, quasiToBasic, computeDelta, computeModel, checkIntegersAndSplit).
SatHasModel ==
    (Idle /\ status # "UNSAT" /\ checked = Len(stack)) =>
        With(concrete_model, LAMBDA m :
            /\ \A l \in Given : Holds(l, m)
            /\ \A v \in Registereds \cap DOMAIN Rows : SumHolds(v, m)
            /\ verdict = "complete" => \A v \in IntVars \cap Proper : m[v][2] = 1
            /\ status = "NEWSPLIT" => \A l \in splitondemand : ~ Holds(l, m))

\* The bounds reported as a conflict are given, and with their coefficients they add up to a
\* contradiction: the variables cancel and the constants do not (getConflictingBounds, assertBound).
ConflictHasFarkas ==
    status = "UNSAT" =>
        LET Signed(l, k) == IF IsLower(l) THEN mpq_neg(k) ELSE k
            left == FoldSet(LAMBDA e, p : Merged(p, Definition(Var(e.lit)), Signed(e.lit, e.coeff)), <<>>, explanation)
            right == FoldSet(LAMBDA e, s : Plus(s, Times(Signed(e.lit, e.coeff), Value(e.lit))),
                             Delta(Zero, Zero), explanation)
        IN  /\ \A e \in explanation : e.lit \in Given /\ mpq_cmp(e.coeff, Zero) > 0
            /\ DOMAIN left = {} /\ Less(right, Delta(Zero, Zero))

\* A literal deduced and not asserted follows from a literal given, the one that getReasonFor()
\* finds when the negation of the deduced one is asserted (getSimpleDeductions, deduce): also after
\* atoms declared since shifted the places of the bounds.
DeductionsJustified ==
    \A i \in DOMAIN th_deductions :
        LET l == th_deductions[i]
        IN  l.tr \notin {m.tr : m \in Given} =>
                /\ boundTriviallyUnsatisfied(Negated(l))
                /\ Opposite(Negated(l)) \in Given
                /\ IF IsLower(l) THEN AtMost(Value(l), Value(Opposite(Negated(l))))
                   ELSE AtMost(Value(Opposite(Negated(l))), Value(l))

\* Both: what the SAT solver is told, of conflicts and of literals deduced (getConflict, deduce).
ConflictsAndDeductionsRight == ConflictHasFarkas /\ DeductionsJustified

\* Rows and columns agree, a row says of its variable what the term says, and so does every row put
\* aside; variables that are not basic are within their bounds and the values of the others follow
\* (Tableau::checkConsistency, Simplex::invariantHolds and valueConsistent, compiled out).
TableauExact ==
    /\ \A v \in Registereds :
         kind[v] \in {"basic", "quasi"} => Expanded(row[v]) = Definition(v)
    /\ \A v \in Registereds : kind[v] = "nonbasic" => row[v] = <<>>
                              /\ cols[v] = {w \in Vars : kind[w] = "basic" /\ v \in DOMAIN row[w]}
    /\ \A v \in Registereds : kind[v] = "basic" =>
         (\A x \in DOMAIN row[v] : kind[x] = "nonbasic") /\ value[v] = Eval(row[v], value)
    /\ (search.on \/ (Idle /\ status = "SAT" /\ verdict # "none")) =>
         \A v \in Registereds : kind[v] = "nonbasic" => ~ isModelOutOfBounds(value, v)
    /\ search.on => candidates = {v \in Registereds : kind[v] = "basic" /\ isModelOutOfBounds(value, v)}

\* The tableau stays what its terms say through pivots, declarations and backtracking, and so the
\* model read off it satisfies what was asserted.
ModelsExact == TableauExact /\ SatHasModel

\* Bug to detect: values that only a choice of the infinitesimal makes equal are not looked at.
EqualitiesOfClassesOnly(val) ==
    {{u, w} : <<u, w>> \in {p \in (Interface \cap Registereds) \X (Interface \cap Registereds) :
                              p[1] # p[2] /\ val[p[1]] = val[p[2]]}}

\* The equalities collectEqualitiesFor() may return first: of variables with one value, else of
\* two whose values an infinitesimal of at most 1 makes equal.
Equalities(val) ==
    LET shared == Interface \cap Registereds
        pairs == {{u, w} : u, w \in shared} \ {{u} : u \in shared}
        Same(u, w) == val[u] = val[w]
        Could(u, w) == LET d == Minus(val[u], val[w])
                       IN  /\ d[2] # Zero
                           /\ mpq_cmp(mpq_div(d[1], d[2]), Zero) < 0
                           /\ mpq_cmp(mpq_div(d[1], d[2]), Whole(-1)) >= 0
    IN  {e \in pairs : \A u, w \in e : u # w => Same(u, w)}
        \cup {e \in pairs : \E u, w \in e : u # w /\ (val[u][2] # Zero \/ val[w][2] # Zero) /\ Could(u, w)}

\* When no equality of shared variables is proposed that is not known, the model gives different
\* values to the variables that are not known to be equal: the infinitesimal merges none
\* (collectEqualitiesFor, computeDelta).
ModelKeepsApart ==
    (verdict = "complete" /\ status = "SAT") =>
        With(concrete_model, LAMBDA m :
            With(Equalities(Valuation), LAMBDA known :
                \A u, w \in Interface \cap Registereds : (u # w /\ {u, w} \notin known) => m[u] # m[w]))

\* Every check ends: after as many pivots as there are variables Bland's rule is switched to, and
\* under it no choice of basic variables comes twice (checkSimplex, findNonBasicForPivotByBland).
\* Without the switch a check of the problem Circle of MCLASolver goes on for ever.
CheckEnds ==
    LET basic == Cardinality({v \in Registereds : kind[v] = "basic"})
    IN  search.repeats <= NumOfCols + Cardinality({B \in SUBSET Registereds : Cardinality(B) = basic})
=============================================================================
