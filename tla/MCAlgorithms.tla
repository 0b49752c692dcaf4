---------------------------- MODULE MCAlgorithms ----------------------------
\* The pure algorithms, each driven by a module of its own: one of them at a time.
EXTENDS Formulas, RationalRegister, MCArraySolver, MCProofs
VARIABLES
    unit,
    commands, at, frames, clauses, mask, proof, attached, learnts, assumed, trail, level, simplified, failed, status,
    asserted, partitions, proof_graph, light, stage, reduced, answer

proofVars == <<commands, at, frames, clauses, mask, proof, attached, learnts, assumed, trail, level, simplified, failed,
               status, asserted, partitions, proof_graph, light, stage, reduced, answer>>
MCOperands == {Fraction(n, d) : n \in {WORD_MIN, -3, -1, 0, 1, WORD_MAX}, d \in {1, 2, 3, UWORD_MAX - 1, UWORD_MAX}}
    \cup {try_fit_word(Zero, q) : q \in {<<WORD_MAX + 1, 1>>, <<WORD_MIN - 1, 1>>, <<1, UWORD_MAX + 1>>, <<3, 1>>, <<WORD_MIN, 1>>}}
MCUniverse == 1..3
B(names) == [k \in DOMAIN names |-> <<names[k], "Bool">>]
U(names) == [k \in DOMAIN names |-> <<names[k], "U">>]
F(names) == [k \in DOMAIN names |-> <<names[k], "Function">>]
Signature(leaves, start, ops, size, chained, signs, interpretations) ==
    [leaves |-> leaves, start |-> start, ops |-> ops, size |-> size, chained |-> chained,
     signs |-> signs, interpretations |-> interpretations]

\* The interpretations are numbered; a number's k-th digit is the value of one of the leaves.
Digit(n, base, k) == (n \div base^k) % base
Bit(n, k) == Digit(n, 2, k) = 1
Shift == <<2, 3, 1>>
Exchange == <<3, 1, 1>>

Propositional ==
    Signature(B(<<"p", "q", "r">>), <<<<"and", <<3, 4>>>>>>, {"and", "or"}, 3, TRUE, TRUE,
              [n \in 1..8 |-> [p |-> Bit(n, 0), q |-> Bit(n, 1), r |-> Bit(n, 2)]])
AllConnectives ==
    Signature(B(<<"p", "q">>), <<>>, {"and", "xor", "iff", "ite"}, 2, TRUE, TRUE,
              [n \in 1..4 |-> [p |-> Bit(n, 0), q |-> Bit(n, 1)]])
\* Leaves 3, 4, 5, 6 are x, y, z, w: x = w, w = z, x = y, y = z, and the conjunction of the first two.
Paths ==
    Signature(U(<<"x", "y", "z", "w">>),
              <<<<"eq", <<3, 6>>>>, <<"eq", <<5, 6>>>>, <<"eq", <<3, 4>>>>, <<"eq", <<4, 5>>>>,
                <<"and", <<7, 8>>>>>>,
              {"and", "or"}, 7, FALSE, FALSE,
              [n \in 1..16 |-> [x |-> Digit(n, 2, 0), y |-> Digit(n, 2, 1), z |-> Digit(n, 2, 2),
                                w |-> Digit(n, 2, 3)]])
\* f(x) and f(y), equalities, and the conjunction of all.
Substitutions ==
    Signature(U(<<"x", "y", "z", "c">>) \o F(<<"f">>), <<<<"f", <<3>>>>, <<"f", <<4>>>>>>,
              {"eq", "conjunction"}, 6, FALSE, FALSE,
              [n \in 1..54 |-> [x |-> Digit(n, 3, 0) + 1, y |-> Digit(n, 3, 1) + 1, z |-> Digit(n, 3, 2) + 1,
                                c |-> 1, f |-> IF n <= 27 THEN Shift ELSE Exchange]])
Distinctions ==
    Signature(U(<<"x", "y", "c", "d">>), <<>>, {"distinct", "eq", "and", "or"}, 3, FALSE, TRUE,
              [n \in 1..9 |-> [x |-> Digit(n, 3, 0) + 1, y |-> Digit(n, 3, 1) + 1, c |-> 1, d |-> 2]])
Conditionals ==
    Signature(B(<<"p", "q">>) \o U(<<"x", "y">>), <<>>, {"iteU", "eq"}, 3, FALSE, FALSE,
              [n \in 1..16 |-> [p |-> Bit(n, 0), q |-> Bit(n, 1), x |-> Digit(n, 2, 2) + 1,
                                y |-> Digit(n, 2, 3) + 1]])
Nested ==
    Signature(B(<<"p", "q">>) \o U(<<"x">>) \o F(<<"g", "P">>), <<>>, {"and", "g", "P", "eq", "or"}, 4, TRUE, FALSE,
              [n \in 1..12 |-> [p |-> Bit(n, 0), q |-> Bit(n, 1), x |-> (n % 3) + 1,
                                g |-> [b \in BOOLEAN |-> IF b THEN 1 ELSE 2],
                                P |-> [u \in MCUniverse |-> u = 2]]])
NoScript == Signature(<<>>, <<>>, {}, 0, TRUE, FALSE, <<>>)
MCSignatures == [none |-> NoScript, propositional |-> Propositional, connectives |-> AllConnectives, paths |-> Paths,
                 substitutions |-> Substitutions, distinctions |-> Distinctions,
                 conditionals |-> Conditionals, nested |-> Nested]

\* What drives the proofs, some variables of which go by other names here.
Refutations == INSTANCE Proofs WITH Problems <- MCScripts, Heads <- MCHeads, problem <- commands, graph <- proof_graph

\* No derivation is lost that a clause, a literal of the trail or an assumption rests on, and each
\* derives its clause (ResolutionProof; stated in Proofs).
DerivationsKept == Refutations!DerivationsKept
\* The proof graph is a refutation through building, lifting and every reduction (PGBuild.cc and
\* PGTransformationAlgorithms.cc; stated in Proofs).
ProofRight == Refutations!ProofRight
\* What (get-interpolants) prints separates its groups, and successive groups fit together
\* (InterpolationContext.cc; stated in Proofs).
InterpolantsRight == Refutations!InterpolantsRight

Init ==
    /\ unit \in {"formulas", "rationals", "proofs", "arrays"}
    /\ FormulasInit /\ (unit = "formulas" <=> kind # "none")
    /\ RegisterInit
    /\ Refutations!Init /\ (unit # "proofs" => commands = OneLevel)
    /\ ArrayInit /\ (unit # "arrays" => problem = Read)
Next ==
    \/ unit = "formulas" /\ FormulasNext /\ UNCHANGED <<registerVars, proofVars, arrayVars, unit>>
    \/ unit = "rationals" /\ RegisterNext /\ UNCHANGED <<formulaVars, proofVars, arrayVars, unit>>
    \/ unit = "proofs" /\ Refutations!Next /\ UNCHANGED <<formulaVars, registerVars, arrayVars, unit>>
    \/ unit = "arrays" /\ ArrayNext /\ UNCHANGED <<formulaVars, registerVars, proofVars, unit>>
Spec == Init /\ [][Next]_<<formulaVars, registerVars, proofVars, arrayVars, unit>>
=============================================================================
