------------------------------ MODULE MCEgraph ------------------------------
(***************************************************************************)
(* Terms for TLC.                                                          *)
(***************************************************************************)
EXTENDS Egraph

N(sym, args) == [symbol |-> sym, args |-> args]

\* Functions of terms, one of them of a Boolean term; a split may bring up an equation.  Where y = x is
\* known before the distinction, two of its terms have another root when it is asserted.
MCTerms ==
    "true" :> N("true", <<>>) @@ "false" :> N("false", <<>>)
    @@ "x" :> N("x", <<>>) @@ "y" :> N("y", <<>>) @@ "z" :> N("z", <<>>)
    @@ "Px" :> N("P", <<"x">>) @@ "Py" :> N("P", <<"y">>) @@ "-Px" :> N("not", <<"Px">>) @@ "-Py" :> N("not", <<"Py">>)
    @@ "gPx" :> N("g", <<"Px">>) @@ "gPy" :> N("g", <<"Py">>)
    @@ "y=x" :> N("=", <<"y", "x">>) @@ "y=gPy" :> N("=", <<"y", "gPy">>)
    @@ "D" :> N("distinct", <<"x", "z", "gPx">>)
MCNodes == DOMAIN MCTerms
MCSymbol == [n \in MCNodes |-> MCTerms[n].symbol]
MCArgs == [n \in MCNodes |-> MCTerms[n].args]
MCAtoms == {"y=x", "y=gPy", "D", "Px", "Py"}
MCConstants == {"true", "false"}
MCEqualities == {"y=x", "y=gPy"}
MCDistincts == {"D"}
MCFacts == {"y=x", "D"}
MCEarly == <<"y=gPy", "Px", "D">>
=============================================================================
