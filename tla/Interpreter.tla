---------------------------- MODULE Interpreter ----------------------------
(***************************************************************************)
(* The SMT-LIB interpreter (api/Interpret), the tables it shares with      *)
(* MainSolver (common/TermNames, the assertion frames, the partition       *)
(* indexes) and the assertions R makes around it (solver.cc).              *)
(*                                                                         *)
(* A command is an action; push and pop, which loop over levels, take one  *)
(* step per level.  A term is an opaque value; an expression is what the   *)
(* parser makes of its text: the name it attaches on the way and the term  *)
(* it ends with, if it ends with one.  What a check leaves is the          *)
(* MainSolver module's subject; here it changes nothing.                   *)
(***************************************************************************)
EXTENDS Integers, Sequences, FiniteSets

CONSTANTS
    Names, Terms, Functions, Symbols, \* names, terms, defined functions, declared symbols
    NotBool,          \* the terms whose sort is not Bool
    NotDifference,    \* the terms with an atom the difference-logic solver cannot read
    Logics,           \* the logics the script may set: "difference" or "other"
    Undef, NoName,    \* PTRef_Undef; an expression that names nothing
    MaxLevels,        \* bound: the assertion level, and the scopes of names
    MaxAssertions     \* bound: the assertions recorded, and those inserted

ASSUME UndefAssumption == Undef \notin Terms
ASSUME NoNameAssumption == NoName \notin Names
ASSUME BoundsAssumption == MaxLevels \in Nat

VARIABLES
    logic,            \* "none" before set-logic
    global,           \* SMTConfig: :global-declarations
    f_exit,
    frames,           \* MainSolver: the terms asserted at each level, level 0 first
    assertions,       \* Interpret: every assertion it recorded, popped ones included
    inserted,         \* MainSolver: the array of inserted formulas (insertedFormulasCount long)
    top_level_flas,   \* FlaPartitionMap: the partition index of a term, -1 without one
    names,            \* TermNames: scopedNamesAndTerms
    nameToTerm, termToNames,
    scopedNames,      \* DefinedFunctions: the names defined in a scope
    defined_functions,
    user_declarations,
    command, n,       \* the command that is looping and the levels it has left
    undefined,        \* a scope was popped that does not exist: anything may happen
    switched          \* for the properties: :global-declarations was changed with a level open

nameVars == <<names, nameToTerm, termToNames>>
functionVars == <<scopedNames, defined_functions, user_declarations>>
solverVars == <<frames, inserted, top_level_flas>>
configVars == <<logic, global, f_exit, switched>>
loopVars == <<command, n, undefined>>
vars == <<configVars, solverVars, assertions, nameVars, functionVars, loopVars>>

-----------------------------------------------------------------------------
(* ScopedVector: elements and the number of them at each pushScope. *)

EmptyScoped == [elements |-> <<>>, limits |-> <<>>]

PushScope(v) == [elements |-> v.elements, limits |-> Append(v.limits, Len(v.elements))]

LastLimit(v) == v.limits[Len(v.limits)]

PopScope(v) == [elements |-> SubSeq(v.elements, 1, LastLimit(v)),
                limits |-> SubSeq(v.limits, 1, Len(v.limits) - 1)]

\* What popScope hands to its callback.
Leaving(v) == {v.elements[i] : i \in (LastLimit(v) + 1)..Len(v.elements)}

\* Whether some scope holds x.
Holds(v, x) == \E i \in DOMAIN v.elements : v.elements[i] = x

PushElement(v, e) == [elements |-> Append(v.elements, e), limits |-> v.limits]

-----------------------------------------------------------------------------
(* Expressions and the names they attach. *)

\* (! inner :named name) somewhere in the text; `whole' is the term the text ends up as: the named
\* term itself, one it is a part of, or none when the text goes wrong further on.
Expressions ==
    [name : {NoName}, inner : {Undef}, whole : Terms \cup {Undef}]
    \cup [name : Names, inner : Terms, whole : Terms \cup {Undef}]

NameTaken(e) == e.name # NoName /\ nameToTerm[e.name] # Undef

\* parseTerm: the term, or Undef after an error; a name is attached as soon as it is read.
Parsed(e) == IF NameTaken(e) THEN Undef ELSE e.whole

Attach(e) ==
    IF e.name = NoName \/ NameTaken(e) THEN UNCHANGED nameVars
    ELSE /\ nameToTerm' = [nameToTerm EXCEPT ![e.name] = e.inner]
         /\ termToNames' = [t \in DOMAIN termToNames \cup {e.inner} |->
                (IF t \in DOMAIN termToNames THEN termToNames[t] ELSE {})
                \cup (IF t = e.inner THEN {e.name} ELSE {})]
         /\ names' = PushElement(names, <<e.name, e.inner>>)

-----------------------------------------------------------------------------
(* Between the commands of a script. *)

Initialized == logic # "none"

Begin == ~f_exit /\ command = "none" /\ ~undefined

Init ==
    /\ logic = "none" /\ global = FALSE /\ f_exit = FALSE /\ switched = FALSE
    /\ frames = << <<>> >>
    /\ assertions = <<>> /\ inserted = <<>>
    /\ top_level_flas = [t \in Terms |-> -1]
    /\ names = EmptyScoped
    /\ nameToTerm = [m \in Names |-> Undef]
    /\ termToNames = [t \in {} |-> {}]
    /\ scopedNames = EmptyScoped
    /\ defined_functions = {} /\ user_declarations = {}
    /\ command = "none" /\ n = 0 /\ undefined = FALSE

SetLogic(l) ==
    /\ Begin
    /\ logic' = IF Initialized THEN logic ELSE l
    /\ UNCHANGED <<global, f_exit, switched, solverVars, assertions, nameVars, functionVars, loopVars>>

\* set-option is accepted at any point, also with levels open.
SetGlobal(b) ==
    /\ Begin
    /\ global' = b
    /\ switched' = (switched \/ (b # global /\ Len(frames) > 1))
    /\ UNCHANGED <<logic, f_exit, solverVars, assertions, nameVars, functionVars, loopVars>>

\* declare-fun and declare-const: a repeated declaration is accepted.
DeclareFun(s) ==
    /\ Begin
    /\ Initialized
    /\ user_declarations' = user_declarations \cup {s}
    /\ UNCHANGED <<configVars, solverVars, assertions, nameVars, loopVars,
                   scopedNames, defined_functions>>

\* Mutant: scoped although declarations are global.
DefinedAlwaysScoped(f) == PushElement(scopedNames, f)

\* DefinedFunctions::insert: a global definition is in no scope.
DefinedInScope(f) == IF global THEN scopedNames ELSE PushElement(scopedNames, f)

\* define-fun: parsed, compared with its declared sort, then stored unless the name has a definition.
DefineFun(f, e, sortsMatch) ==
    LET stored == Parsed(e) # Undef /\ sortsMatch /\ f \notin defined_functions IN
    /\ Begin
    /\ Initialized
    /\ Attach(e)
    /\ defined_functions' = IF stored THEN defined_functions \cup {f} ELSE defined_functions
    /\ scopedNames' = IF stored THEN DefinedInScope(f) ELSE scopedNames
    /\ UNCHANGED <<configVars, solverVars, assertions, loopVars, user_declarations>>

-----------------------------------------------------------------------------
(* Assertions. *)

\* Mutant: the sort is not looked at.
InsertableAnything(t) == TRUE

\* MainSolver::insertFormula throws unless the sort is Bool.
Insertable(t) == t \notin NotBool

\* MainSolver::insertFormula: the index is the count of formulas inserted so far.
Insert(t) ==
    /\ top_level_flas' = [top_level_flas EXCEPT ![t] = Len(inserted)]
    /\ inserted' = Append(inserted, t)
    /\ frames' = [frames EXCEPT ![Len(frames)] = Append(@, t)]

\* RInterpret::command refuses what the difference-logic solver cannot read before it is recorded.
Refused(t) == logic = "difference" /\ t \in NotDifference

\* assert: parsed, recorded, and then offered to the solver, which may refuse it.
Assert(e) ==
    LET tr == Parsed(e)
        recorded == tr # Undef /\ ~Refused(tr)
    IN
    /\ Begin
    /\ Initialized
    /\ Len(assertions) < MaxAssertions /\ Len(inserted) < MaxAssertions
    /\ Attach(e)
    /\ assertions' = IF recorded THEN Append(assertions, tr) ELSE assertions
    /\ IF recorded /\ Insertable(tr) THEN Insert(tr) ELSE UNCHANGED solverVars
    /\ UNCHANGED <<configVars, functionVars, loopVars>>

\* C_solver_assert_var, C_solver_assert_pigeonhole: to the solver, past the interpreter, which is
\* not asked whether the script has exited.
AssertDirectly(t) ==
    /\ command = "none" /\ ~undefined
    /\ Initialized /\ Insertable(t)
    /\ Len(inserted) < MaxAssertions
    /\ Insert(t)
    /\ UNCHANGED <<configVars, assertions, nameVars, functionVars, loopVars>>

-----------------------------------------------------------------------------
(* Levels. *)

Loop(c, k) ==
    /\ Begin
    /\ Initialized
    /\ command' = c /\ n' = k
    /\ UNCHANGED <<configVars, solverVars, assertions, nameVars, functionVars, undefined>>

Push(k) ==
    /\ Len(frames) + k <= MaxLevels + 1 /\ Len(names.limits) + k <= MaxLevels
    /\ Loop("push", k)
Pop(k) == Loop("pop", k)

\* Mutant: a scope of names is pushed although popScope will leave it.
PushNamesAlways == PushScope(names)

\* TermNames::pushScope
PushNames == IF global THEN names ELSE PushScope(names)

\* DefinedFunctions::pushScope, then MainSolver::push and with it TermNames::pushScope.
PushLevel ==
    /\ command = "push" /\ n > 0
    /\ n' = n - 1
    /\ scopedNames' = PushScope(scopedNames)
    /\ frames' = Append(frames, <<>>)
    /\ names' = PushNames
    /\ UNCHANGED <<configVars, inserted, top_level_flas, assertions, nameToTerm,
                   termToNames, defined_functions, user_declarations, command, undefined>>

\* Mutant: the names are erased, but their terms keep them.
ForgetNamesOnly ==
    /\ names' = PopScope(names)
    /\ nameToTerm' = [m \in Names |->
          IF \E p \in Leaving(names) : p[1] = m THEN Undef ELSE nameToTerm[m]]
    /\ UNCHANGED termToNames

\* TermNames::popScope erases the names but keeps the (possibly empty) entry of their term.
ForgetNames ==
    LET left == Leaving(names) IN
    /\ names' = PopScope(names)
    /\ nameToTerm' = [m \in Names |->
          IF \E p \in left : p[1] = m THEN Undef ELSE nameToTerm[m]]
    /\ termToNames' = [t \in DOMAIN termToNames |->
          {m \in termToNames[t] : <<m, t>> \notin left}]

\* MainSolver::pop, then, as it succeeded, DefinedFunctions::popScope.
PopLevel ==
    /\ command = "pop" /\ n > 0 /\ Len(frames) > 1 /\ ~undefined
    /\ n' = n - 1
    /\ frames' = SubSeq(frames, 1, Len(frames) - 1)
    /\ IF global \/ names.limits = <<>> THEN UNCHANGED nameVars ELSE ForgetNames
    /\ undefined' = (~global /\ names.limits = <<>>)
    /\ scopedNames' = PopScope(scopedNames)
    /\ defined_functions' = defined_functions \ Leaving(scopedNames)
    /\ UNCHANGED <<configVars, inserted, top_level_flas, assertions, user_declarations,
                   command>>

\* The loop ends: every level was done, or there was none left to pop.
EndLoop ==
    /\ command # "none" /\ ~undefined
    /\ n = 0 \/ (command = "pop" /\ Len(frames) = 1)
    /\ command' = "none" /\ n' = 0
    /\ UNCHANGED <<configVars, solverVars, assertions, nameVars, functionVars, undefined>>

-----------------------------------------------------------------------------
(* Queries and the end. *)

\* get-value, get-interpolants: their arguments are terms, and parsing them attaches names.
\* (get-value is refused before that when the last check did not say "sat".)  What the terms are
\* makes no difference: Next takes an expression without one.
Query(e) ==
    /\ Begin
    /\ Initialized
    /\ Attach(e)
    /\ UNCHANGED <<configVars, solverVars, assertions, functionVars, loopVars>>

Exit ==
    /\ Begin
    /\ f_exit' = TRUE
    /\ UNCHANGED <<logic, global, switched, solverVars, assertions, nameVars, functionVars, loopVars>>

Next ==
    \/ \E l \in Logics : SetLogic(l)
    \/ \E b \in BOOLEAN : SetGlobal(b)
    \/ \E s \in Symbols : DeclareFun(s)
    \/ \E f \in Functions, e \in Expressions, b \in BOOLEAN : DefineFun(f, e, b)
    \/ \E e \in Expressions : Assert(e)
    \/ \E e \in {d \in Expressions : d.whole = Undef} : Query(e)
    \/ \E t \in Terms : AssertDirectly(t)
    \/ \E k \in 0..MaxLevels : Push(k) \/ Pop(k)
    \/ PushLevel \/ PopLevel \/ EndLoop
    \/ Exit

Spec == Init /\ [][Next]_vars

-----------------------------------------------------------------------------
(* Properties. *)

Scoped(S, v) == v \in [elements : Seq(S), limits : Seq(Nat)]

\* The tables hold what their declarations say.
TypeOK ==
    /\ logic \in Logics \cup {"none"}
    /\ global \in BOOLEAN /\ f_exit \in BOOLEAN /\ undefined \in BOOLEAN /\ switched \in BOOLEAN
    /\ frames \in Seq(Seq(Terms \ NotBool)) /\ frames # <<>>
    /\ assertions \in Seq(Terms) /\ inserted \in Seq(Terms \ NotBool)
    /\ top_level_flas \in [Terms -> Nat \cup {-1}]
    /\ Scoped(Names \X Terms, names)
    /\ nameToTerm \in [Names -> Terms \cup {Undef}]
    /\ DOMAIN termToNames \subseteq Terms
    /\ \A t \in DOMAIN termToNames : termToNames[t] \subseteq Names
    /\ Scoped(Functions, scopedNames)
    /\ defined_functions \subseteq Functions /\ user_declarations \subseteq Symbols
    /\ command \in {"none", "push", "pop"} /\ n \in Nat

\* The limits of a ScopedVector never decrease and never pass its end.
Nested(v) ==
    /\ \A i \in DOMAIN v.limits : v.limits[i] <= Len(v.elements)
    /\ \A i, j \in DOMAIN v.limits : i <= j => v.limits[i] <= v.limits[j]

\* Definitions and the solver's frames count the same open levels after any mixture of commands,
\* refused ones and a pop that ran out of levels included (Interpret::push and pop; MainSolver::push
\* and pop).  So do term names, and no scope is popped that does not exist, until a script changes
\* :global-declarations while a level is open: nothing in the code keeps it from that.
ScopesAgree ==
    /\ Nested(names) /\ Nested(scopedNames)
    /\ Len(scopedNames.limits) = Len(frames) - 1
    /\ ~switched =>
          /\ ~undefined
          /\ Len(names.limits) = IF global THEN 0 ELSE Len(frames) - 1

\* The three tables of TermNames tell one story: no name is in two scopes, a name is found exactly
\* while some scope holds it, and a term knows its names (tryInsert and popScope keep them).
NameTablesAgree ==
    /\ \A i, j \in DOMAIN names.elements :
          names.elements[i][1] = names.elements[j][1] => i = j
    /\ \A m \in Names, t \in Terms :
          nameToTerm[m] = t <=> Holds(names, <<m, t>>)
    /\ \A m \in Names, t \in Terms :
          nameToTerm[m] = t <=> t \in DOMAIN termToNames /\ m \in termToNames[t]

\* Names, definitions and assertions come and go together, and each table of them says the same.
NamesAndScopesAgree == ScopesAgree /\ NameTablesAgree

\* The scope an element of a ScopedVector belongs to, the outermost being 1.
ScopeOf(v, k) == 1 + Cardinality({j \in DOMAIN v.limits : v.limits[j] < k})

\* The scope that will forget what is held at one place: the outermost if it is held nowhere.
ScopeAmong(v, places) == IF places = {} THEN 1 ELSE ScopeOf(v, CHOOSE k \in places : TRUE)

NameScope(m) ==
    ScopeAmong(names, {k \in DOMAIN names.elements : names.elements[k][1] = m})

FunctionScope(f) ==
    ScopeAmong(scopedNames, {k \in DOMAIN scopedNames.elements : scopedNames.elements[k] = f})

AssertedIn == {e \in (DOMAIN frames) \X Terms : \E j \in DOMAIN frames[e[1]] : frames[e[1]][j] = e[2]}
NamedIn == {<<NameScope(m), m, nameToTerm[m]>> : m \in {o \in Names : nameToTerm[o] # Undef}}
DefinedIn == {<<FunctionScope(f), f>> : f \in defined_functions}

Script == INSTANCE ScopedScript WITH
    depth <- Len(frames), asserted <- AssertedIn, named <- NamedIn, defined <- DefinedIn,
    mixed <- switched

\* The interpreter and MainSolver together keep SMT-LIB's stack of scopes: popping a level forgets
\* exactly what was asserted, named and defined in it, and nothing else does.  Of names this is said
\* until :global-declarations is changed with a level open; of the rest whenever it is changed.
ImplementsScopedScript == Script!Spec

\* Interpret::get_assertion_index
AssertionIndex(t) ==
    IF \E i \in DOMAIN assertions : assertions[i] = t
    THEN (CHOOSE i \in DOMAIN assertions :
             assertions[i] = t /\ \A j \in 1..(i - 1) : assertions[j] # t) - 1
    ELSE -1

\* "Each top-level assertion has an index, and a partition is a bitmask over those indices"
\* (solver.cc:876): the bit get_assertion_index gives for a name is the partition of the assertion
\* it names, for everything on the stack.
IndexIsPartition ==
    \A m \in Names : \A i \in DOMAIN frames : \A j \in DOMAIN frames[i] :
        nameToTerm[m] = frames[i][j] /\ AssertionIndex(nameToTerm[m]) # -1
        => AssertionIndex(nameToTerm[m]) = top_level_flas[nameToTerm[m]]

\* "Returns any name from the vector", which is not empty (TermNames.h:60-62): true of each assertion
\* on the stack that contains() says is named, which is what an unsat core prints the name of.
CoreTermsHaveNames ==
    \A i \in DOMAIN frames : \A j \in DOMAIN frames[i] :
        frames[i][j] \in DOMAIN termToNames => termToNames[frames[i][j]] # {}
=============================================================================
