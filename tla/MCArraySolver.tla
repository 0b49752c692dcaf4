--------------------------- MODULE MCArraySolver ---------------------------
(***************************************************************************)
(* Problems for TLC.  The first two enodes are the Boolean constants.      *)
(***************************************************************************)
EXTENDS ArraySolver

MCTrue == 1
MCFalse == 2

E(op, sort, args) == [op |-> op, sort |-> sort, args |-> args]
I(name) == E(name, "Index", <<>>)
V(name) == E(name, "Element", <<>>)
A(name) == E(name, "Array", <<>>)
Const(sort) == E("const", sort, <<>>)
Store(a, i, v) == E("store", "Array", <<a, i, v>>)
Select(a, i) == E("select", "Element", <<a, i>>)
P(x) == E("p", "Bool", <<x>>)
Problem(enodes, choices) == [enodes |-> <<Const("Bool"), Const("Bool")>> \o enodes, choices |-> choices]

Axiom(s, t) == {Lit({s, t}, TRUE)}      \* of a store: what is read where it stores
Apart(s, t) == {Lit({s, t}, FALSE)}
Either(s, t) == {Lit({s, t}, sgn) : sgn \in BOOLEAN}
True1(p) == {Lit({p}, TRUE)}

\* A store, and reads before and after it.
Read == Problem(<<I("i"), I("j"), V("v"), A("a"), Store(6, 3, 5), Select(7, 3), Select(6, 4), Select(7, 4), P(3)>>,
                <<Axiom(5, 8), Either(3, 4), Either(9, 10), True1(11)>>)

\* A chain of stores, read before and after.
Chain == Problem(<<I("i"), I("j"), V("v"), A("a"), Store(6, 3, 5), Store(7, 4, 5), Select(7, 3), Select(8, 4),
                   Select(6, 4)>>,
                 <<Axiom(5, 9), Axiom(5, 10), Either(3, 4), Either(5, 11)>>)

\* Two stores into one array that may be equal: the paths between them make a cycle.
Cycle == Problem(<<I("i"), I("j"), V("v"), A("a"), Store(6, 3, 5), Store(6, 4, 5), Select(7, 3), Select(8, 4),
                   Select(6, 3)>>,
                 <<Axiom(5, 9), Axiom(5, 10), Either(7, 8), Either(3, 4), Either(5, 11)>>)

\* Stores at two indices in either order.
Swap == Problem(<<Const("Index"), Const("Index"), V("v"), V("w"), A("a"),
                  Store(7, 3, 5), Store(8, 4, 6), Store(7, 4, 6), Store(10, 3, 5),
                  Select(8, 3), Select(9, 4), Select(10, 4), Select(11, 3)>>,
                <<Axiom(5, 12), Axiom(6, 13), Axiom(6, 14), Axiom(5, 15), Either(9, 11)>>)

\* Stores into two arrays that may be equal.
Two == Problem(<<I("i"), V("v"), A("a"), A("b"), Store(5, 3, 4), Store(6, 3, 4), Select(7, 3), Select(8, 3),
                 Select(5, 3), Select(6, 3)>>,
               <<Axiom(4, 9), Axiom(4, 10), Either(7, 8), Either(11, 12)>>)

\* Stores of two values at two constants into one array.
Constants == Problem(<<Const("Index"), Const("Index"), V("v"), V("w"), A("a"), Store(7, 3, 5), Store(7, 4, 6),
                       Select(8, 3), Select(9, 4), Select(7, 3)>>,
                     <<Axiom(5, 10), Axiom(6, 11), Either(8, 9), Either(5, 12)>>)

\* A cycle, and a store on from it.
Onward == Problem(<<Const("Index"), Const("Index"), V("v"), A("a"), Store(6, 3, 5), Store(6, 4, 5), Store(7, 4, 5),
                  Select(7, 3), Select(8, 4), Select(9, 4)>>,
                <<Axiom(5, 10), Axiom(5, 11), Axiom(5, 12), Either(7, 8)>>)

MCProblems == {Read, Chain, Cycle, Swap, Two, Constants, Onward}

\* Indices become equal by the values of predicates, by way of a function of them.
Predicates == Problem(<<I("x"), I("y"), P(3), P(4), E("f", "Index", <<5>>), E("f", "Index", <<6>>),
                        V("v"), A("a"), Store(10, 3, 9), Select(11, 3), Select(10, 7), Select(11, 8)>>,
                      <<Axiom(9, 12), Apart(3, 7), Apart(3, 8), Apart(13, 14), True1(5), True1(6)>>)
MCStaleProblems == {Predicates}
=============================================================================
