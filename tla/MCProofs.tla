------------------------------ MODULE MCProofs ------------------------------
(***************************************************************************)
(* Scripts for TLC: a propositional problem, one with levels, one whose    *)
(* theory deduces and has an atom with symbols of both sides of every      *)
(* grouping, one whose theory splits and two whose theory only checks.     *)
(***************************************************************************)
EXTENDS Integers, Sequences, TLC

Adding(c, p) == [do |-> "add", clause |-> c, part |-> p]
Do(x) == [do |-> x]
Literals(n) == (-n..n) \ {0}
Independent(n) == [v \in 1..n |-> {v}]

OneLevel == [script |-> <<Adding({1, 2}, 0), Adding({1, -2}, 0), Adding({-1, 3}, 1), Adding({-1, -3, 4}, 1), Adding({-1, -4}, 2), Do("check")>>,
         atoms |-> 1..4, symbols |-> Independent(4), worlds |-> SUBSET (1..4), deduces |-> FALSE, splits |-> {},
         phases |-> Literals(4)]
Levels == [script |-> <<Adding({1, 2}, 0), Do("push"), Adding({-1, 3}, 1), Adding({-1, -3}, 1), Adding({-2}, 2), Do("check"),
                         Do("pop"), Do("push"), Adding({-1}, 3), Adding({-2, 3}, 3), Do("check"), Adding({-3}, 4), Do("check"),
                         Do("check"), Adding({1}, 4), Do("pop"), Do("check")>>,
            atoms |-> 1..3, symbols |-> Independent(3), worlds |-> SUBSET (1..3), deduces |-> FALSE, splits |-> {},
            phases |-> Literals(3)]
\* x1 and u2 of the first group, z3 and v4 of the second, t5 of symbols of both; w6 is shared.
MixedWorlds == {w \in SUBSET (1..9) :
                  /\ {1, 3} \subseteq w => 5 \in w
                  /\ ~({2, 4, 5} \subseteq w)
                  /\ {1, 2} \subseteq w => 6 \in w
                  /\ ~({3, 4, 6} \subseteq w)}
MixedSymbols == 1 :> {"a", "s"} @@ 2 :> {"a", "s"} @@ 3 :> {"b", "s"} @@ 4 :> {"b", "s"} @@ 5 :> {"a", "b"}
                @@ 6 :> {"s"} @@ 7 :> {"p"} @@ 8 :> {"q"} @@ 9 :> {"r"}
Lemmas == [script |-> <<Adding({-7, 1}, 0), Adding({-8, 2}, 0), Adding({7, 9}, 0), Adding({7, -9}, 0), Adding({8, 9}, 1), Adding({8, -9}, 1),
                        Adding({3}, 2), Adding({4}, 2), Do("check")>>,
           atoms |-> (1..5) \cup (7..9), symbols |-> MixedSymbols, worlds |-> MixedWorlds, deduces |-> TRUE,
           splits |-> {}, phases |-> {7, 8, -7, -8}]
\* x1 and x3 cannot both be true while v4 is false: the theory says so by a split.
Splitting == [script |-> <<Adding({1, 3}, 0), Adding({1, -3}, 0), Adding({-1, 3}, 1), Adding({-4}, 1), Do("check")>>,
              atoms |-> {1, 3, 4}, symbols |-> Independent(4), worlds |-> {w \in SUBSET {1, 3, 4} : {1, 3} \subseteq w => 4 \in w},
              deduces |-> FALSE, splits |-> {{-1, -3, 4}}, phases |-> {1, -1, 3, -3}]
\* x1 and x3 cannot both be true; the theory only says so when they are.
Checking == [script |-> <<Adding({1, 2}, 0), Adding({3, 2}, 0), Adding({1, -2}, 0), Adding({3, -2}, 1), Do("check")>>,
             atoms |-> 1..3, symbols |-> Independent(3), worlds |-> {w \in SUBSET (1..3) : ~({1, 3} \subseteq w)},
             deduces |-> FALSE, splits |-> {}, phases |-> {1, 3, -2}]
\* A learnt clause is removed that a learnt unit was derived from.
Forgetting == [script |-> <<Adding({-1, 2, 3}, 0), Adding({-1, 2, -3}, 0), Adding({1, 4, 3}, 0), Adding({1, 4, -3}, 1), Adding({1, -4, 3}, 1),
                            Adding({1, -4, -3}, 1), Do("check")>>,
               atoms |-> 1..4, symbols |-> Independent(4), worlds |-> {w \in SUBSET (1..4) : ~({1, 2} \subseteq w)},
               deduces |-> FALSE, splits |-> {}, phases |-> {1, 2, 4}]
MCScripts == {OneLevel, Levels, Lemmas, Splitting, Checking, Forgetting}
MCHeads == {{}, 1..60}
=============================================================================
