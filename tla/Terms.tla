------------------------------- MODULE Terms -------------------------------
(***************************************************************************)
(* The terms of a script (logics/Logic.cc, pterms/PtStore.cc).  A term is  *)
(* made once and then known by its PTRef, which orders the arguments of    *)
(* commutative operators; making a term simplifies it by what its          *)
(* arguments are.  A store is the sequence of the terms made so far, a     *)
(* PTRef is an index of it, and making a term is an operator on stores.    *)
(*                                                                         *)
(* Besides its symbol, arguments and sort a term here has its meaning: its *)
(* values in the interpretations of the script's symbols, one after the    *)
(* other.                                                                  *)
(***************************************************************************)
EXTENDS Integers, Sequences, FiniteSets, SequencesExt

CONSTANT maxDistinctClasses   \* distinctions over three terms or more that are terms of their own

\* A set as a sequence, and a set of PTRefs in their order.
InOrder(S, Before(_, _)) ==
    [k \in 1..Cardinality(S) |-> CHOOSE x \in S : Cardinality({y \in S : Before(y, x)}) = k - 1]
Ascending(S) == InOrder(S, <)

\* A value used in several places.
With(x, K(_)) == K(x)

Term(sym, args, sort, sem) == [sym |-> sym, args |-> args, sort |-> sort, sem |-> sem]
Made(s, t) == [store |-> s, ref |-> t]

\* getTerm_true(), getTerm_false(): the first terms there are.
term_TRUE == 1
term_FALSE == 2

\* Terms without arguments: constants of the language or of a sort, and variables.
ConstantSymbols == {"true", "false", "c", "d"}
Connectives == {"and", "or", "not", "xor", "iff", "ite"}

hasSortBool(s, t) == s[t].sort = "Bool"
isNot(s, t) == s[t].sym = "not"
isAnd(s, t) == s[t].sym = "and"
isOr(s, t) == s[t].sym = "or"
isIte(s, t) == s[t].sym \in {"ite", "iteU"}
isEquality(s, t) == s[t].sym \in {"iff", "eq"}
isDisequality(s, t) == s[t].sym = "distinct"
isConstant(s, t) == s[t].sym \in ConstantSymbols
isBooleanOperator(s, t) == s[t].sym \in Connectives
isVar(s, t) == s[t].args = <<>> /\ ~ isConstant(s, t)
isUF(s, t) == s[t].sym \in {"f", "g", "P"}
isUP(s, t) == isUF(s, t) /\ hasSortBool(s, t)
isBoolAtom(s, t) == hasSortBool(s, t) /\ isVar(s, t)
isAtom(s, t) ==
    hasSortBool(s, t) /\ (s[t].args = <<>> \/ s[t].sym \in {"eq", "distinct"} \/ isUP(s, t))
-----------------------------------------------------------------------------
(* What an application means. *)

SortOf(s, sym, args) == IF sym \in {"f", "g", "iteU"} THEN "U" ELSE "Bool"
\* The value of an application, v being the values of the arguments; F that of the symbol, when it is
\* one of the script.
Apply(sym, v, F) ==
    CASE sym = "not" -> ~ v[1]
      [] sym = "and" -> \A k \in DOMAIN v : v[k]
      [] sym = "or" -> \E k \in DOMAIN v : v[k]
      [] sym = "xor" -> v[1] # v[2]
      [] sym = "implies" -> v[1] => v[2]
      [] sym \in {"iff", "eq"} -> \A k \in 2..Len(v) : v[k] = v[k - 1]
      [] sym = "distinct" -> \A k, l \in DOMAIN v : k # l => v[k] # v[l]
      [] sym \in {"ite", "iteU"} -> IF v[1] THEN v[2] ELSE v[3]
      [] OTHER -> F[v[1]]
\* The symbols of functions are kept in the store too, for what they mean.
FunctionValue(s, sym, i) == s[CHOOSE t \in DOMAIN s : s[t].sort = "Function" /\ s[t].sym = sym].sem[i]
Interpretations(s) == DOMAIN s[term_TRUE].sem
Meaning(s, sym, args) ==
    [i \in Interpretations(s) |->
        Apply(sym, [k \in DOMAIN args |-> s[args[k]].sem[i]], FunctionValue(s, sym, i))]
\* The value of t in i when the terms in the domain of given are variables with those values.
ValueUnder(s, t, i, given) ==
    LET value[u \in 1..t] ==
            IF u \in DOMAIN given THEN given[u]
            ELSE IF s[u].args = <<>> THEN s[u].sem[i]
            ELSE Apply(s[u].sym, [k \in DOMAIN s[u].args |-> value[s[u].args[k]]],
                       FunctionValue(s, s[u].sym, i))
    IN  value[t]

newTerm(s, sym, args) ==
    Made(Append(s, Term(sym, args, SortOf(s, sym, args), Meaning(s, sym, args))), Len(s) + 1)

\* mkFun(): the arguments of a connective are not sorted here, those of a commutative relation are.
mkFun(s, sym, args) ==
    LET key == IF sym \in {"eq", "distinct"} THEN SortSeq(args, <) ELSE args
        known == {t \in DOMAIN s : s[t].sym = sym /\ s[t].args = key}
    IN  IF known # {} THEN Made(s, CHOOSE t \in known : TRUE) ELSE newTerm(s, sym, key)

\* A term made for each item in turn.
Each(s, items, Make(_, _)) ==
    FoldLeft(LAMBDA acc, x :
                 With(Make(acc.store, x), LAMBDA m : [store |-> m.store, refs |-> Append(acc.refs, m.ref)]),
             [store |-> s, refs |-> <<>>], items)
-----------------------------------------------------------------------------
(* The connectives. *)

mkNot(s, t) ==
    IF isNot(s, t) THEN Made(s, s[t].args[1])
    ELSE IF t = term_TRUE THEN Made(s, term_FALSE)
    ELSE IF t = term_FALSE THEN Made(s, term_TRUE)
    ELSE mkFun(s, "not", <<t>>)

\* The arguments of a conjunction or disjunction: literals, each once, in the order of their terms.
PtAsgns(s, args) ==
    {IF isNot(s, args[k]) THEN <<s[args[k]].args[1], FALSE>> ELSE <<args[k], TRUE>> : k \in DOMAIN args}
mkNary(s, args, sym, neutral, absorbing) ==
    With(PtAsgns(s, args), LAMBDA lits :
        IF \E l \in lits : l[1] = absorbing \/ <<l[1], ~ l[2]>> \in lits THEN Made(s, absorbing)
        ELSE IF {l[1] : l \in lits} \subseteq {neutral} THEN Made(s, neutral)
        ELSE With(Each(s, InOrder({l \in lits : l[1] # neutral}, LAMBDA k, l : k[1] < l[1]),
                       LAMBDA st, l : IF l[2] THEN Made(st, l[1]) ELSE mkNot(st, l[1])), LAMBDA kept :
             IF Len(kept.refs) = 1 THEN Made(kept.store, kept.refs[1])
             ELSE mkFun(kept.store, sym, kept.refs)))
mkAnd(s, args) == mkNary(s, args, "and", term_TRUE, term_FALSE)
mkOr(s, args) == mkNary(s, args, "or", term_FALSE, term_TRUE)

mkAndOf(made) == mkAnd(made.store, made.refs)

\* The negation of the second argument is made whether it is used or not.
mkXor(s, a, b) ==
    With(mkNot(s, b), LAMBDA neg :
        IF a = b THEN Made(s, term_FALSE)
        ELSE IF a = neg.ref THEN Made(neg.store, term_TRUE)
        ELSE IF a = term_TRUE THEN neg
        ELSE IF b = term_TRUE THEN mkNot(neg.store, a)
        ELSE IF a = term_FALSE THEN Made(neg.store, b)
        ELSE IF b = term_FALSE THEN Made(neg.store, a)
        ELSE mkFun(neg.store, "xor", SortSeq(<<a, b>>, <)))

mkImpl(s, a, b) ==
    IF a = term_FALSE \/ b = term_TRUE THEN Made(s, term_TRUE)
    ELSE IF a = term_TRUE /\ b = term_FALSE THEN Made(s, term_FALSE)
    ELSE With(mkNot(s, a), LAMBDA neg : mkOr(neg.store, <<neg.ref, b>>))

mkIte(s, c, a, b) ==
    IF c = term_TRUE THEN Made(s, a)
    ELSE IF c = term_FALSE THEN Made(s, b)
    ELSE IF a = b THEN Made(s, a)
    ELSE mkFun(s, IF hasSortBool(s, a) THEN "ite" ELSE "iteU", <<c, a, b>>)
-----------------------------------------------------------------------------
(* Equality and distinctness. *)

mkIff(s, a, b) ==
    With(mkNot(s, b), LAMBDA neg :
        IF a = neg.ref THEN Made(neg.store, term_FALSE)
        ELSE IF a = term_TRUE THEN Made(neg.store, b)
        ELSE IF b = term_TRUE THEN Made(neg.store, a)
        ELSE IF a = term_FALSE THEN neg
        ELSE IF b = term_FALSE THEN mkNot(neg.store, a)
        ELSE mkFun(neg.store, "iff", <<a, b>>))
mkBinaryEq(s, a, b) ==
    IF a = b THEN Made(s, term_TRUE)
    ELSE IF isConstant(s, a) /\ isConstant(s, b) THEN Made(s, term_FALSE)
    ELSE IF hasSortBool(s, a) THEN mkIff(s, a, b)
    ELSE mkFun(s, "eq", <<a, b>>)

\* More than two arguments make a chain.
mkEq(s, args) ==
    IF Len(args) = 2 THEN mkBinaryEq(s, args[1], args[2])
    ELSE mkAndOf(Each(s, [k \in 1..Len(args) - 1 |-> k],
                      LAMBDA st, k : mkBinaryEq(st, args[k], args[k + 1])))

Pairs(args) ==
    InOrder({p \in (1..Len(args)) \X (1..Len(args)) : p[1] < p[2]},
            LAMBDA p, q : p[1] < q[1] \/ (p[1] = q[1] /\ p[2] < q[2]))
mkNotOf(made) == mkNot(made.store, made.ref)
AllDifferent(s, args) ==
    mkAndOf(Each(s, Pairs(args), LAMBDA st, p : mkNotOf(mkBinaryEq(st, args[p[1]], args[p[2]]))))
distinctClassCount(s) == Cardinality({t \in DOMAIN s : isDisequality(s, t)})

Neighbours(args) == \E k \in 1..Len(args) - 1 : args[k] = args[k + 1]
\* Bug to detect: equal arguments are looked for among neighbours without sorting first.
HasTwinsUnsorted(args) == Neighbours(args)
HasTwins(args) == Neighbours(SortSeq(args, <))
mkDistinct(s, args) ==
    IF Len(args) < 2 THEN Made(s, term_TRUE)
    ELSE IF Len(args) = 2 THEN mkNotOf(mkEq(s, args))
    ELSE IF hasSortBool(s, args[1]) \/ HasTwins(args) THEN Made(s, term_FALSE)
    ELSE IF \A k \in DOMAIN args : isConstant(s, args[k]) THEN Made(s, term_TRUE)
    ELSE IF distinctClassCount(s) < maxDistinctClasses
            \/ \E t \in DOMAIN s : isDisequality(s, t) /\ s[t].args = SortSeq(args, <)
    THEN mkFun(s, "distinct", args)
    ELSE AllDifferent(s, SortSeq(args, <))
-----------------------------------------------------------------------------
(* A symbol applied to arguments: insertTerm(). *)

insertTerm(s, sym, args) ==
    CASE sym = "and" -> mkAnd(s, args)
      [] sym = "or" -> mkOr(s, args)
      [] sym = "xor" -> mkXor(s, args[1], args[2])
      [] sym = "not" -> mkNot(s, args[1])
      [] sym \in {"iff", "eq"} -> mkEq(s, args)
      [] sym = "distinct" -> mkDistinct(s, args)
      [] sym \in {"ite", "iteU"} -> mkIte(s, args[1], args[2], args[3])
      [] sym = "implies" -> mkImpl(s, args[1], args[2])
      [] OTHER -> mkFun(s, sym, args)

\* The terms a term is made of, itself included, in the order of their PTRefs.
SubTerms(s, t) ==
    LET below[u \in 1..t] == {u} \cup UNION {below[s[u].args[k]] : k \in DOMAIN s[u].args}
    IN  below[t]
contains(s, t, u) == u \in SubTerms(s, t)
=============================================================================
