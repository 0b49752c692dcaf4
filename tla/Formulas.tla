------------------------------ MODULE Formulas ------------------------------
(***************************************************************************)
(* A script makes terms, one on top of another, and whatever formula it    *)
(* has made goes through every pass that stands between an assertion and   *)
(* the SAT solver.  The terms are built as the interpreter builds them,    *)
(* with the operators of Terms.                                            *)
(***************************************************************************)
EXTENDS BoolRewriting, IteHandler, Cnfizer

CONSTANTS
    Signatures,         \* for each kind of script: its leaves, its operators, how many terms it makes,
                        \* and interpretations of its leaves
    Universe            \* the elements of the sort U

VARIABLES
    kind,               \* the kind of script
    terms,              \* the store
    made                \* the terms the script asked for, besides its symbols

formulaVars == <<kind, terms, made>>
script == Signatures[kind]

\* The constants true and false, the leaves of a signature, and the terms a script has to begin with.
Leaves(sig) ==
    LET Const(sym, val) == Term(sym, <<>>, "Bool", [i \in DOMAIN sig.interpretations |-> val])
        Leaf(l) == Term(l[1], <<>>, l[2], [i \in DOMAIN sig.interpretations |-> sig.interpretations[i][l[1]]])
    IN  <<Const("true", TRUE), Const("false", FALSE)>> \o [k \in DOMAIN sig.leaves |-> Leaf(sig.leaves[k])]
FormulasInit ==
    /\ kind \in DOMAIN Signatures
    /\ LET start == Each(Leaves(script), script.start, LAMBDA st, t : insertTerm(st, t[1], t[2]))
       IN  terms = start.store /\ made = start.refs

Bools == {t \in DOMAIN terms : hasSortBool(terms, t)}
Others == {t \in DOMAIN terms : terms[t].sort = "U"}
Literal(st, l) == IF l[2] THEN Made(st, l[1]) ELSE mkNot(st, l[1])
\* What a script applies its operators to: leaves and the terms it made, the last one among them.
Args(S) == {t \in S : terms[t].args = <<>> \/ t \in ToSet(made)} \ {term_TRUE, term_FALSE}
Chained(ts) == made # <<>> /\ script.chained => Last(made) \in ts
Signs == IF script.signs THEN BOOLEAN ELSE {TRUE}

Make(m) ==
    /\ m.ref \notin ToSet(made)
    /\ terms' = m.store /\ made' = Append(made, m.ref) /\ UNCHANGED kind
MakeConnective ==
    \E op \in script.ops \cap {"and", "or", "xor", "iff"}, a, b \in Args(Bools), sa, sb \in Signs :
        /\ a # b /\ Chained({a, b}) /\ (op \in {"and", "or"} => a < b)
        /\ made = <<>> => {a, b} = {3, 4}
        /\ With(Literal(terms, <<a, sa>>), LAMBDA x :
           With(Literal(x.store, <<b, sb>>), LAMBDA y :
                Make(insertTerm(y.store, op, <<x.ref, y.ref>>))))
MakeConjunction ==
    "conjunction" \in script.ops /\ Make(mkAnd(terms, SelectSeq(made, LAMBDA t : hasSortBool(terms, t))))
MakeIte ==
    \E c \in Args(Bools), a, b \in Args(Bools \cup Others) :
        /\ a # b /\ terms[a].sort = terms[b].sort
        /\ (IF hasSortBool(terms, a) THEN "ite" ELSE "iteU") \in script.ops
        /\ Chained({a, b, c})
        /\ Make(mkIte(terms, c, a, b))
MakeEquality ==
    \E a, b \in Args(Others) :
        /\ a < b /\ "eq" \in script.ops /\ Chained({a, b})
        /\ "conjunction" \in script.ops => Len(made) < script.size - 1
        /\ Make(mkEq(terms, <<a, b>>))
MakeDistinct ==
    \E a, b, c \in Args(Others) :
        "distinct" \in script.ops /\ a < c /\ Make(mkDistinct(terms, <<a, b, c>>))
MakeApplication ==
    \E op \in script.ops \cap {"f", "g", "P"}, a \in Args(Bools \cup Others) :
        /\ hasSortBool(terms, a) = (op = "g") /\ Chained({a})
        /\ Make(mkFun(terms, op, <<a>>))
FormulasNext ==
    /\ Len(made) < script.size
    /\ \/ MakeConnective \/ MakeConjunction \/ MakeIte
       \/ MakeEquality \/ MakeDistinct \/ MakeApplication
-----------------------------------------------------------------------------
Sem(m) == m.store[m.ref].sem
Holds(t, i) == terms[t].sem[i]
Roots == {t \in ToSet(made) : hasSortBool(terms, t)}
NewRoot == made # <<>> /\ hasSortBool(terms, Last(made))
Root == Last(made)
Same(m) == Sem(m) = terms[Root].sem

\* No term is made twice, and whatever a script asks for, it gets a term of that meaning: the
\* simplifications of each operator are right for all arguments at hand (Logic.cc: mkAnd, mkOr, mkXor,
\* mkImpl, mkEq, mkDistinct, mkIte, insertTerm).
TermsMeanWhatIsAsked ==
    /\ \A t, u \in DOMAIN terms : (terms[t].sym = terms[u].sym /\ terms[t].args = terms[u].args) => t = u
    /\ \A op \in (script.ops \ {"conjunction"}) \cup {"implies"} :
         LET n == IF op \in {"ite", "iteU", "distinct"} THEN 3 ELSE IF op \in {"f", "g", "P"} THEN 1 ELSE 2
             Fits(args) ==
                CASE op \in {"and", "or", "xor", "iff", "implies", "ite"} -> \A k \in 1..n : args[k] \in Bools
                  [] op \in {"eq", "distinct", "f", "P"} -> \A k \in 1..n : args[k] \in Others
                  [] op = "g" -> args[1] \in Bools
                  [] OTHER -> args[1] \in Bools /\ args[2] \in Others /\ args[3] \in Others
         IN  \A args \in [1..n -> Bools \cup Others] :
                (Fits(args) /\ (made = <<>> \/ Last(made) \in ToSet(args)))
                    => Sem(insertTerm(terms, op, args)) = Meaning(terms, op, args)

\* Substitutions: the formula stays what it was when the substitutions are kept beside it as
\* equalities, and no substituted variable is left in it or in what replaces another, so that a model
\* of the rest gives them their values (MainSolver.cc: substitutionPass; Logic.cc: getNewFacts,
\* retrieveSubstitutions, substitutionsTransitiveClosure; SubstLoopBreaker.cc).
Vars(m) == {v \in SubTerms(m.store, m.ref) : isVar(m.store, v)}
NoneLeft(core) ==
    \A j \in DOMAIN core.substs :
        /\ core.substs[j][1] \notin Vars(core)
        /\ \A k \in DOMAIN core.substs : core.substs[j][1] \notin SubTerms(core.store, core.substs[k][2])
Substituted(core) == Same(Conjoined(core)) /\ NoneLeft(core)
SubstitutionsRight ==
    NewRoot => With(preprocessBeforeSubstitutions(terms, Root), LAMBDA s :
                    Same(s) /\ Substituted(computeSubstitutions(s.store, s.ref)))

\* The Boolean passes keep the meaning of the formula (BoolRewriting.cc, Rewritings.cc), and leave no
\* distinction where the congruence closure does not expect one.
NoDistinctionBut(m, kept) ==
    Same(m) /\ \A t \in SubTerms(m.store, m.ref) : isDisequality(m.store, t) => t \in kept
RewritingKeepsMeaning ==
    NewRoot =>
        /\ NoDistinctionBut(rewriteDistincts(terms, Root), {})
        /\ With(rewriteDistinctsKeepTopLevel(terms, Root), LAMBDA m :
                NoDistinctionBut(m, topLevelConjuncts(m.store, m.ref)))
        /\ isBooleanOperator(terms, Root) =>
             Same(rewriteMaxArityClassic(terms, Root)) /\ Same(rewriteMaxArityAggresive(terms, Root))
        /\ ~ isTerminal(terms, Root) =>
             Same(simplifyUnderAssignment(terms, Root)) /\ Same(simplifyUnderAssignment_Aggressive(terms, Root))

\* The formula that replaces one with if-then-else has its models: it means the same when the new
\* variables are what they stand for, and whatever values these have, and any if-then-else left, it is
\* only true where the formula is (IteToSwitch.cc, IteHandler.cc).
OpenIn(m) == Ites(m.store, m.ref) \cup {t \in DOMAIN m.store : t > Len(terms) /\ m.store[t].args = <<>>}
ValuesOf(m, open) ==
    With({t \in open : hasSortBool(m.store, t)}, LAMBDA bools :
         {x @@ y : x \in [bools -> BOOLEAN], y \in [open \ bools -> Universe]})
IteRemovalRight ==
    NewRoot => With(IteHandlerRewrite(terms, Root), LAMBDA m :
                    /\ Same(m)
                    /\ \A v \in ValuesOf(m, OpenIn(m)), i \in DOMAIN script.interpretations :
                         ValueUnder(m.store, m.ref, i, v) => Holds(Root, i))

\* Between substitution and conversion no pass changes what a formula means: distinctions, flattening,
\* simplification under an assignment and the removal of if-then-elses.
PassesKeepMeaning == RewritingKeepsMeaning /\ IteRemovalRight

\* Two formulas given to the solver one after the other, in any two frames: with the frame of one of
\* them and the base, the clauses say that it holds, give every formula nested in a term its value,
\* and exclude no other assignment of the atoms (Cnfizer.cc, Tseitin.cc).
NoIteIn(t) == \A u \in SubTerms(terms, t) : ~ isIte(terms, u)
VarOf(t) == purify(terms, t, TRUE)[1]
AllTrue(clauses, asg) == \A C \in clauses : \E l \in C : asg[l[1]] = l[2]
ValueIn(t, asg) == ValueUnder(terms, t, CHOOSE i \in DOMAIN script.interpretations : TRUE, asg)
Exact(clauses, given, nested, defined, fixed) ==
    /\ (\A t \in given : ValueIn(t, fixed)) => AllTrue(clauses, [v \in defined |-> ValueIn(v, fixed)] @@ fixed)
    /\ \A d \in [defined -> BOOLEAN] :
         AllTrue(clauses, d @@ fixed) =>
            /\ \A t \in given : ValueIn(t, fixed)
            /\ \A v \in nested : (d @@ fixed)[v] = ValueIn(v, fixed)
ExactFor(clauses, given) ==
    With({VarOf(t) : t \in UNION {getNestedBoolRoots(terms, r) : r \in given}}, LAMBDA nested :
    With({l[1] : l \in UNION clauses} \cup nested, LAMBDA vars :
         \A asg \in [{v \in vars : ~ Descends(terms, v)} \ {term_TRUE, term_FALSE} -> BOOLEAN] :
            Exact(clauses, given, nested, {v \in vars : Descends(terms, v)},
                  (term_TRUE :> TRUE) @@ (term_FALSE :> FALSE) @@ asg)))
ClausesRight ==
    \A frames \in {<<0, 0>>, <<0, 1>>, <<1, 1>>, <<1, 2>>}, first \in Roots :
        NewRoot /\ NoIteIn(Root) /\ NoIteIn(first) =>
            ExactFor(Active(cnfize(cnfize(NoClauses, terms, first, frames[1]), terms, Root, frames[2]),
                            frames[2]),
                     {Root} \cup (IF frames[1] \in {baseFrame, frames[2]} THEN {first} ELSE {}))
=============================================================================
