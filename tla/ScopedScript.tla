---------------------------- MODULE ScopedScript ----------------------------
(***************************************************************************)
(* What SMT-LIB promises about scopes, and nothing of how: a script works  *)
(* on a stack of scopes, numbered from 1, the outermost of which is never  *)
(* popped.  A scope holds what was asserted, named and defined in it, and  *)
(* popping it forgets all three at once.  When declarations are global,    *)
(* names and definitions belong to the outermost scope instead, whichever  *)
(* is open.  A script that changes its mind about that while a scope is    *)
(* open is promised nothing about its names from then on.                  *)
(***************************************************************************)
EXTENDS Naturals

VARIABLES
    depth,      \* the innermost scope
    asserted,   \* pairs of a scope and a term
    named,      \* triples of a scope, a name and a term
    defined,    \* pairs of a scope and a function
    global,     \* :global-declarations
    mixed       \* it was changed while a scope was open

vars == <<depth, asserted, named, defined, global, mixed>>

Init ==
    /\ depth = 1
    /\ asserted = {} /\ named = {} /\ defined = {}
    /\ global \in BOOLEAN /\ mixed = FALSE

\* A script may change at any time whether declarations are global.
Choose ==
    /\ global' = ~global
    /\ mixed' = (mixed \/ depth > 1)
    /\ UNCHANGED <<depth, asserted, named, defined>>

Push ==
    /\ depth' = depth + 1
    /\ UNCHANGED <<asserted, named, defined, global, mixed>>

Pop ==
    /\ depth > 1
    /\ depth' = depth - 1
    /\ asserted' = {e \in asserted : e[1] < depth}
    /\ defined' = {e \in defined : e[1] < depth}
    /\ mixed \/ named' = {e \in named : e[1] < depth}
    /\ UNCHANGED <<global, mixed>>

\* A command may assert, name and define at once, and a refused one may stop halfway.  It forgets
\* nothing, puts each thing where it belongs, and takes no name that is in use.
Declare ==
    LET home == IF global THEN 1 ELSE depth IN
    /\ UNCHANGED <<depth, global, mixed>>
    /\ asserted \subseteq asserted' /\ \A e \in asserted' \ asserted : e[1] = depth
    /\ named \subseteq named' /\ \A e \in named' \ named : mixed \/ e[1] = home
    /\ defined \subseteq defined' /\ \A e \in defined' \ defined : e[1] = home
    /\ \A d, e \in named' : d[2] = e[2] => d = e
    /\ \A d, e \in defined' : d[2] = e[2] => d = e

Next == Choose \/ Push \/ Pop \/ Declare

Spec == Init /\ [][Next]_vars
=============================================================================
