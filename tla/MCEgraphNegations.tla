------------------------- MODULE MCEgraphNegations -------------------------
(***************************************************************************)
(* Terms for TLC: a function of the negation of a predicate.               *)
(***************************************************************************)
EXTENDS Egraph

N(sym, args) == [symbol |-> sym, args |-> args]

MCTerms ==
    "true" :> N("true", <<>>) @@ "false" :> N("false", <<>>)
    @@ "x" :> N("x", <<>>) @@ "y" :> N("y", <<>>)
    @@ "fx" :> N("f", <<"x">>) @@ "fy" :> N("f", <<"y">>) @@ "-fx" :> N("not", <<"fx">>)
    @@ "g-fx" :> N("g", <<"-fx">>) @@ "gfalse" :> N("g", <<"false">>)
    @@ "x=y" :> N("=", <<"x", "y">>) @@ "g-fx=gfalse" :> N("=", <<"g-fx", "gfalse">>)
MCNodes == DOMAIN MCTerms
MCSymbol == [n \in MCNodes |-> MCTerms[n].symbol]
MCArgs == [n \in MCNodes |-> MCTerms[n].args]
MCAtoms == {"x=y", "g-fx=gfalse", "fx", "fy"}
MCConstants == {"true", "false"}
MCEqualities == {"x=y", "g-fx=gfalse"}
MCDistincts == {}
MCEarly == <<"x=y", "fy", "g-fx=gfalse", "fx">>
=============================================================================
