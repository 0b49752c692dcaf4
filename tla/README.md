# A TLA+ verification of zusmt

zusmt is an R package that bundles the OpenSMT2 solver.  R code creates a
*handle*, feeds it SMT-LIB text, asks for a check, and reads a model, an unsat
core or an interpolant.  The package adds a boundary (`src/src/*.cc`,
`src/R/*.R`) to a vendored and patched copy of OpenSMT
(`src/src/opensmt/`).  This directory holds TLA+ models of that program, the
configurations with which TLC checks them, and proofs that TLAPS checks.

    tlc -workers 2 -config MainSolverSound.cfg MCMainSolver
    tlc -workers 2 -config Egraph.cfg MCEgraph
    tlapm MainSolverAnswerProofs.tla

`PROJECT.json` lists the components, the runs with the properties each checks,
for every definition the lines it models, the hazards the properties are for,
for every property a faulty variant of the code that breaks it, the findings
and the theorems.

## 1. Inventory

| component | state | operations | hard because |
|---|---|---|---|
| R handle (`src/src/solver.cc`, `src/R/solver.R`) | the interpreter, `result_current`, the external pointer | new, run, check with a timeout, model, core, interpolant, release, finalize | scripts that fail half way; results read after the assertions changed; `status` and `result_current` are two records of one fact |
| Deadlines and interrupts (`src/src/r_compat.cc`) | process-wide `Deadline`, `interrupt_seen`, the 50 ms throttle, the capture buffer | set, clear, poll | latched flags that outlive the call; a deadline racing a late answer |
| Interpreter (`api/Interpret.cc`) | declared symbols, `assertions`, scopes of names and definitions, exit flag | one per SMT-LIB command | records kept in step with MainSolver by hand; commands that fail after recording |
| MainSolver (`api/MainSolver.cc`) | frames, `firstNotSimplifiedFrame`, substitutions per level, `status` | push, pop, insertFormula, simplifyFormulas, check | nothing is retracted from the SAT solver; indices, ids and flags in five places must survive pops, interrupts and exceptions |
| Terms and rewriting (`logics/`, `rewriters/`, `simplifiers/`, `itehandler/`) | the store of hash-consed terms, substitutions | the constructors, one pass after another | terms are simplified while they are made, in the order of their references; substitutions may be circular |
| Cnfizer (`cnfizers/`) | caches of converted formulas per frame id | cnfize | a stale cache entry makes an assertion vanish |
| SAT solver (`smtsolvers/`) | trail, clauses, watches, `ok`, `conflict_frame`, assumptions | addOriginalClause, solve, search, cancelUntil | incremental use: state left by one search is read by the next call |
| Theory handler (`tsolvers/THandler.cc`, `TSolver.cc`) | a stack beside the trail, deductions with marks | assertLits, check, backtrack, reasons | must stand at a prefix of the trail after every backjump |
| Difference logic (`tsolvers/stpsolver/`) | a graph of edges with times | assertLit, backtrack, explain, model | finds consequences instead of conflicts; machine integers |
| Congruence closure (`tsolvers/egraph/`) | classes, signatures, forbid lists, an undo stack | declare, assertLit, check, undo, explain | every pointer structure must be undone exactly |
| Linear arithmetic (`tsolvers/lasolver/`, `common/numbers/`) | tableau, bounds, values with an infinitesimal part | assertLit, check, backtrack, split, model | a tableau that is only partly up to date; termination; arithmetic that changes representation |
| Arrays (`tsolvers/arraysolver/`) | a graph of weak equivalences, lemmas found in it | assertLit, check, splits | a cache over classes that another solver changes; edges that are turned round |
| Proofs and interpolants (`proof/`, `smtsolvers/ResolutionProof.cc`) | the log of derivations; a graph | log, build, reduce, interpolate | derivations of removed clauses; rewriting of a shared graph |

Who calls whom: R calls `C_solver_run` or `C_solver_check`; a script goes through
`run_script` to `Interpret::interp`, one command at a time, and from there to
MainSolver; a check goes to MainSolver directly.  MainSolver simplifies the
levels, calls the Cnfizer, which calls it back with clauses, and the SAT solver,
which calls the theory solvers through the theory handler, logs derivations and
polls `zusmt::should_stop()` in its loop.  Everything runs in one thread.  What
makes the behaviour hard is not interleaving of threads but the order of the
calls, undone and repeated, and the points at which one can end early: a deadline
or Ctrl-C seen by a poll, an arithmetic overflow, a failed allocation, a refused
command.  The handle goes on being used afterwards.

What makes each part correct:

* MainSolver: an answer `sat` or `unsat` is right for the assertions on the
  stack, whatever was pushed, popped, simplified, interrupted or refused before.
* Handle: a model, core or interpolant is only given out for the assertions
  it belongs to; a script that fails leaves exactly its prefix in effect.
* Deadlines and interrupts: a stop request ends the call it was meant for and
  no other; a decided answer is not turned into a timeout.
* Interpreter: names, definitions, partition indices and solver levels are
  popped together.
* Terms, rewriting, Cnfizer: what is given to the SAT solver has the models of
  what was asserted.
* SAT solver and theory handler: after every backjump both stand at the same
  prefix of the trail; what is learnt follows from what was added; an answer
  is right, and comes.
* Theory solvers: conflicts are exact after any backtracking, explanations and
  deductions follow from what was given, the model satisfies it.
* Arrays: a lemma holds of all arrays, and when none is missing there is a model.
* Proofs: a logged derivation derives its clause, a reduced proof still refutes,
  an interpolant separates its groups.

## 2. Plan

All but the last are done; the order was by how much an error would cost a caller.

1. `AssertionStack` (abstract) and `MainSolver`, its implementation, with proofs
   in `MainSolverProofs` and `MainSolverAnswerProofs`.
2. `StopRequests` and `SolverHandle`, which uses it, with proofs in
   `SolverHandleProofs`.  MainSolver appears in it as its caller sees it, with
   the answers that module 1 shows to be right.
3. `ScopedScript` (abstract) and `Interpreter`, its implementation, with proofs in
   `InterpreterProofs`.
4. `TSolver`, `CoreSMTSolver` with the theory handler: the search that is one
   step of MainSolver, with proofs in `CoreSMTSolverProofs`, `CoreSMTSolverImpliedProofs` and
   `CoreSMTSolverSatProofs`.
5. `STPSolver`, `Egraph`, `LASolver`, each on `TSolver`, with proofs about the first in
   `STPSolverProofs`.
6. `FastRational` with `Rationals`; `Terms`, `Rewriting`, `BoolRewriting`,
   `IteHandler`, `Cnfizer`, `Formulas`: the pure algorithms.
7. `ResolutionProof`, `ProofGraph`, `ProofTransformation`, `Interpolation`,
   `Proofs`: from the log of a search to interpolants.
8. `ArraySolver`, beside a congruence closure that is taken as exact.
9. Left to do: the interpolators of the theories, the arithmetic constructors
   of terms, the admission predicate of difference logic.

## 3. The modules

### AssertionStack

What a caller of an incremental solver may rely on: a stack of levels, each a
conjunction; `Check` answers `sat` or `unsat` only if that is so, and may answer
`unknown` or `error`.

### MainSolver

A formula is the set of the *worlds* (valuations) that satisfy it; conjunction is
intersection, `{}` is false.  With two worlds there are four formulas, enough for
two independent assertions and their conflict; with three, eight.

| variable | code |
|---|---|
| `frameCount`, `frames`, `frameId` | `AssertionStack frames`: per level an id, its formulas, the mark `unsat`; the id counter |
| `firstNotSimplifiedFrame`, `status` | members of MainSolver of that name |
| `internalFrameCount`, `substitutions` | `Preprocessor`: maps are created lazily, so there may be fewer than levels |
| `cnfCache` | `Cnfizer::alreadyProcessed`: what was converted under each frame id |
| `clauses` | the clause database: what the clauses carrying the literal of an id say |
| `ok`, `conflict_frame` | members of CoreSMTSolver |
| `pendingConflict`, `missedConflict` | what can be left at decision level 0: a unit not yet propagated, a falsified clause that propagation has passed |
| `heldFrames`, `heldWorlds` | the assumed frames and the decisions left on the trail by an abandoned search |
| `model`, `call`, `answer` | the assignment of the last satisfiable search, the call in progress, what it returned |

| action | code |
|---|---|
| `Push`, `Pop`, `InsertFormula` | the methods of that name |
| `CheckKnownUnsat` | `check()` on a marked level |
| `BeginSimplify`, `SimplifyFrame`, `SimplifyFrameUnsat`, `SimplifyFrameThrows`, `EndSimplify` | `simplifyFormulas()`, called by `check()` or by `(simplify)`, one step per level, so that an exception can leave it between two |
| `EmitNothing`, `EmitDropped`, `EmitAccepted`, `EmitConflict` | `giveToSolver()` with the Cnfizer's cache and `addOriginalClause_()` at decision level 0 |
| `EmitUnderDecisions`, `EmitConflictUnderDecisions` | the same above level 0, which an exception in a search makes possible |
| `SolveSat`, `SolveUnsat`, `SolveInterrupted`, `SolveThrows` | the ends of `solve()` |

Abstractions.  Rewriting a level is *any* formula that agrees with it wherever
the known substitutions hold; the equations found are *any* consequences of the
result.  This covers every rewriting that is correct; a rewriter that changes
the meaning of a formula is outside the model.  A search is one step whose
outcomes are those of a complete search over the enabled clauses.  Where the trail
is not clean when it starts, it is widened by what the code can do there.

`MCMainSolver` gives the worlds as model values.  They are interchangeable, so
their permutations are a symmetry.

### StopRequests

The two reasons to end a search, all of it process-wide state.

| variable | code |
|---|---|
| `deadline` | `Deadline`: not armed, armed, armed and passed (or latched as `reached`; the clock is monotonic, so the two are one) |
| `interrupt_seen` | the latch of that name |
| `pending` | R's own record that Ctrl-C was pressed |
| `throttled` | the last look at R's flag is less than 50 ms ago |

`should_stop()` is four steps, by what it finds: `StopForDeadline`,
`StopForSeenInterrupt`, `ConsumeInterrupt` (R's flag was set; looking at it has
cleared it), `NoReasonToStop`.  `ClockPasses`, `ThrottleEnds`, `CtrlC` and
`DeliveredByR` (R raises a pending Ctrl-C when no C code runs) belong to the
world outside.

### SolverHandle

| variable | code |
|---|---|
| `life` | the address in the external pointer: not yet set, set, cleared |
| `frames`, `status`, `model` | MainSolver: levels with their formula and mark, `status`, the assignment of the last satisfiable search |
| `result_current`, `f_exit` | members of SolverHandle and Interpret |
| `self`, `call`, `pc`, `todo` | the call in progress, where it is, the commands of its script still to run |
| `verdict`, `outcome`, `consumed` | for the properties: what `check()` came back with, what R was told, whether a poll of this call took a Ctrl-C from R |

| action | code |
|---|---|
| `New`, `Release`, `UseReleased`, `RejectCall`, `AssertTerm` | calls that return at once; a finalizer run by R is a `Release` |
| `BeginCheck`, `EndCheck`, `CheckThrown` | `C_solver_check()` up to `check()`, after it, and its unwinding |
| `CheckKnownUnsat`, `Preprocess`, `FindUnsat`, `FindModel`, `SearchFailure`, `ModelFailure` | the ends of `MainSolver::check()`, with what each leaves in `status` and `model` |
| `PollGoesOn`, `PollStops`, `SearchOn` | `okContinue()` in the loops of the SAT solver, and the work between two polls |
| `BeginScript`, `RejectCall`, `EndScript` | `run_script()`: a script that parses or not, its end |
| `RunAssert`, `RunPush`, `RunPop`, `RunSimplify`, `RunExit`, `RunHarmless`, `RunCheckSat`, `EndCheckSat`, `CheckSatThrown` | its loop, one step per command, but for `(check-sat)`, which searches and polls like a check |

The commands of a script are chosen as it runs, which gives all scripts; the text
only decides beforehand whether it parses.  `RunHarmless` is every command that
leaves the solver alone: readers and declarations, which keep the result;
`(set-option ...)`, and an assertion, a push or a pop that is refused, which do
not.  MainSolver's answers are right: `FindsUnsat` needs a contradiction among the
levels, `FindModel` takes a world that satisfies them all.  This is what
AssertionStack promises and MainSolver implements where nothing fails; what interrupts
and exceptions do to MainSolver's answers (section 4) is therefore not seen here.

R is one thread, and a second handle can only be called when the first call has
returned.  What two handles share is the state of StopRequests.

### ScopedScript and Interpreter

`ScopedScript` is what SMT-LIB says about scopes: a scope holds what was asserted,
named and defined in it, and popping it forgets the three together; with global
declarations names and definitions live in the outermost scope.  A script may change
that option whenever it likes (`Choose`); one that does so while a scope is open
(`mixed`) is promised nothing about the scopes of its names from then on, and still
everything about assertions and definitions.

`Interpreter` keeps what the code keeps, which is not one stack of scopes but six
tables that are pushed and popped separately.

| variable | code |
|---|---|
| `frames`, `inserted`, `assertions`, `top_level_flas` | MainSolver's frames and its array of inserted formulas; Interpret's own list; the partition index of a term |
| `names`, `nameToTerm`, `termToNames` | `TermNames`: a scoped vector and two maps |
| `scopedNames`, `defined_functions`, `user_declarations` | `DefinedFunctions` and Interpret's lists of declarations |
| `logic`, `global`, `f_exit` | the logic, `:global-declarations`, the exit flag |
| `command`, `n`, `undefined` | the loop of a `(push n)` or `(pop n)`; whether the C++ has popped a scope that is not there |
| `switched` | for the properties: `:global-declarations` was changed with a level open |

| action | code |
|---|---|
| `SetLogic`, `SetGlobal`, `DeclareFun`, `DefineFun`, `Exit` | the branches of `Interpret::interp` of that name |
| `Assert`, `Query`, `AssertDirectly` | `(assert e)`, a command that parses a term and may name it, and solver.cc's assertion |
| `Push`, `Pop`, `PushLevel`, `PopLevel`, `EndLoop` | `Interpret::push(n)` and `pop(n)`, one step per level; a pop that runs out of levels stops halfway |

Terms are model values; an expression is the name it attaches and the term it ends
with.  The refinement mapping numbers the scopes: `AssertedIn` gives each assertion
its frame, `NameScope` and `FunctionScope` count the limits below an entry of a
scoped vector.

### TSolver, CoreSMTSolver

`TSolver` is the part that every theory solver inherits: deductions, the cursor of
what the SAT solver has fetched, polarities, and a mark of them per backtrack point.

`CoreSMTSolver` is the search, with the theory handler and one theory solver behind
it.  The theory is a parameter of the problem: which sets of literals contradict,
which clauses it splits on; whether it notices at once or only in the check, and
what it deduces, is chosen freely within the contract that the code asks of a
`TSolver`.

| variable | code |
|---|---|
| `db` | clauses and learnts, the two watched literals first |
| `trail`, `trail_lim`, `qhead`, `ok`, `conflict_frame`, `conflictC` | members of that name |
| `decision`, `order_heap` | `decision`, and the variables waiting in the heap; which comes first is free |
| `watchers`, `seen` | the clauses that `propagate()` still has to visit for its literal; the literals that `analyze()` has marked and not resolved yet |
| `new_splits`, `propData`, `res` | what `handleNewSplitClauses()` still has to add and to enqueue, and what it will return |
| `stack`, `given` | `THandler::stack`; the literals asserted in the theory solver |
| `pc`, `problem`, `round`, `loaded` | where `solve_()` and `search()` are; the clauses and assumptions of each call of `solve()` |

| action | code |
|---|---|
| `addOriginalClause_`, `solve_`, `complete`, `clearSearch` | adding a clause; the frame of a solve |
| `takeLiteral`, `keepWatch`, `moveWatch`, `propagateUnit`, `falsified`, `propagated` | `propagate()`: a literal of the trail, then the clauses that watch it one by one in any order, by what each visit finds (the blocker is the other watch or any true literal) |
| `resolve`, `learn`, `handleUnsat` | `analyze()` one literal at a time with the reasons the theory gives; minimisation, backjump, the learnt clause; a conflict of the theory |
| `assertLit`, `handleSat`, `deduceTheory` | `assertLits()` and `check()`, one literal a step, and what is deduced |
| `handleNewSplitClauses`, `addUnitSplit`, `addSplit`, `enqueueSplits` | the clauses of the theory, one a step, then the literals they imply |
| `skipAssumption`, `assume`, `analyzeFinal`, `pickBranchLit` | the decision part of `search()` |
| `stop`, `restart`, `simplify`, `removeSatisfied` | `okContinue()` is false, the conflict limit, `simplify()` at level 0, one clause a step |

The loops are broken into the steps of one iteration: every state in which a clause has
been visited and another not is one of the model's, and an invariant has one small step
to survive.

### STPSolver, Egraph, LASolver

The three theory solvers, each driven by any legal sequence of calls: declare,
assert, check, backtrack by any number, ask for reasons, deductions and the model.
All keep a `stack` of the literals given, which is THandler's and which the properties
compare with.

`STPSolver` (`tsolvers/stpsolver`): the store of edges, the graph of the set ones
with its times, consequences, backtrack points, the literal that made it inconsistent.
Costs are words of `Width` bits, which overflow as `SafeInt` says; a constant of
the script first passes through a double of `Mantissa` bits.  `Search` is the loop
of `dfsSearch()` and of `findExplanation()`, an edge or an open vertex at a time, as a
tail recursion over the records of `Searches`; both searches of `setTrue()` are the operator
`Consequences`.  `bellmanFord()` is the same loop from a queue in place of the stack
(`Opened`), and `PathTo` the loop that follows `visited` back and collects literals.  `Assignments` are the numbers that the variables may stand for: all
integers in the proofs, enough of them for TLC.

`Egraph` (`tsolvers/egraph`): roots and rings of classes, use vectors, the table of
signatures, forbid lists as linked lists at addresses, distinction bits, the
explanation forest with its own undo stack, and the undo stack.  Calls are broken
into the steps of their loops (`todo`, `pending`, `goal`), so that the pointer
structure is seen between them.  `units` is what the SAT solver knows at decision level 0:
a search tells it first, in the same order as the searches before, and `clearSearch`,
which follows each search, takes it back as well, distinctions included (`undoDist`).
`MCEgraph` is the instance with a late equation; `MCEgraphNegations` one with a function
of negated predicates.

`LASolver` (`tsolvers/lasolver`): the tableau with its quasi-basic rows, ordered
bounds, values r + d * delta, the buffer of activated bounds, one pivot a step under
either rule (Bland's once there were more pivots in a check than there are columns), conflicts with
their coefficients, deductions by neighbouring bounds,
splits over the integers, the value of delta, interface equalities.

### ArraySolver

`ArraySolver` (`tsolvers/arraysolver`, and `TSolverHandler`, by which literals reach
it): enodes and their roots, of which one with the most users is kept when classes
merge; the nodes of the weak equivalence graph with primary and secondary edges, built
store by store in the order of their numbers; paths, as a cursor that collects the
indices and the explanations on its way; lemmas for two reads at one index, and for
two arrays of which the same is known.  The graph, `valid`, the lemmas and the table of
selects are state, since they outlive the call that made them.  `Explain` is what
`Explainer` promises, and the classes are the least congruence, which `egraph` checks of
`Egraph`.  A problem fixes the order in which its own atoms are given values; atoms that
lemmas bring are given theirs in any order.  Eight problems (`MCArraySolver`): a store read
before and after, a chain, a cycle, a store on from a cycle, two stores exchanged, stores
into two arrays, stores at constant indices; and one apart, in which predicates make
indices equal.  The properties refer to *worlds*: the sets of
atoms true of some arrays, indices and elements, all functions that matter enumerated.

### FastRational, Rationals, RationalRegister

`FastRational` is the arithmetic of a fraction of words: which operation takes
the fast path, what `CHECK_WORD` tests, what wraps where nothing is tested, when
the number becomes one of GMP, and back.  `Rationals` is GMP as the code uses it,
`RationalRegister` a variable to which operations are applied one after another,
beside the exact number.

### Terms, Rewriting, BoolRewriting, IteHandler, Cnfizer, Formulas

A store of terms in which a term is made once; the constructors of `Logic` with
their simplifications; then the passes of `MainSolver::simplifyFormulas()`:
facts and substitutions with the breaking of loops, distinctions, flattening and
simplification under assignments, the removal of if-then-elses, clauses.  Each is an
operator on stores.  A term carries its values in a few interpretations, which
is its meaning; the constructors do not look at it.  `Formulas` is a script that
builds terms one on another; `MCAlgorithms` gives signatures (propositional,
connectives, chains of equations, functions, distinctions, if-then-elses over a
sort) and unites it with RationalRegister, Proofs and ArraySolver: a behaviour of it is one
of one of the four.

### ResolutionProof, ProofGraph, ProofTransformation, Interpolation, Proofs

`ResolutionProof` is the search as the log of its derivations sees it: what is
resolved, learnt, removed, popped, with the count of uses that keeps a removed
clause's derivation.  `ProofGraph` has the graph of a refutation and the reductions
that work on it as a whole (recycling of pivots and units, lowering of units,
structural hashing), `ProofTransformation` the local rules and the traversals that
apply them, `Interpolation` the labelled interpolation systems over sets of
valuations.  `Proofs` composes them with the partitions of the assertion stack.
Six scripts (`MCProofs`): flat, with levels and frames, with theory lemmas over
mixed atoms, with splits, with a theory that only checks, and one in which
a learnt clause is removed that a later derivation rests on.

## 4. The runs

| run | bounds | shows |
|---|---|---|
| `main_sound` | nothing fails; 2 worlds, 3 levels, ids 0..2 | `LevelsGiven`, `SatAnswerSound`, `UnsatFlagSound`, `UnsatAnswerSound`, refinement of AssertionStack |
| `main_abandoned` | interrupts, preprocessing and search throw, partitions tracked; 2 worlds, 2 levels, ids 0..1 | `StackInv` |
| `handle` | timeouts, the solver fails; 1 handle, 2 worlds, 2 levels, scripts of 2 | results current, endings accounted for; with fairness, a deadline and Ctrl-C end a search |
| `handle_models` | the solver fails, no timeouts; scripts of 1 | violation of `ModelOnlyAfterSat` |
| `interpreter` | 2 names, 2 levels, an assertion at a time, options at any time | `NamesAndScopesAgree`, refinement of ScopedScript |
| `search` | 5 atoms, 6 problems, a restart after each conflict | `AllImplied`, `PropagationComplete`, `TheoryMirrorsTrail`, `AnswerRight`, `SearchEnds` |
| `stp` | 4 atoms, words of 4 bits with a mantissa of 2, 5 timestamps | conflicts, explanations, deductions and model |
| `egraph` | 9 terms with a late equation and a distinction of three, 3 literals at a time, an equation and the distinction at level 0 | classes are the least congruence, conflicts exact, deductions justified |
| `egraph_negations` | a function of negated predicates | violation of `SatIsConsistent` |
| `lasolver` | four problems; 3 literals at a time, 7 in the one the heuristic circles on, 3 checks, atoms declared late | tableau, model, conflicts, deductions, interface, pivots bounded |
| `algorithms` | scripts of 2 to 7 terms in each signature; words of 3 bits, parts up to 12; six scripts with proofs, in every order the search may take; seven array problems of 4 to 7 atoms, 1 to 4 stores | constructors, substitutions, passes, clauses; fractions; derivations, proof, interpolants; `WeakEquivalenceExact`, `LemmasRight`, `SatRight` |
| `arrays_stale` | one problem with two predicates and a function of them | violation of `SelectsAgree` |

Why the bounds are enough for what they are about.

* `MaxLevels` bounds the stack, `MaxFrameId` the number of pushes.  Two levels give
  a level that survives and one that is popped; one id more than levels gives a
  level pushed after a pop at the same depth, which is what stale clauses, caches,
  substitutions and cursors need to do harm; three levels give a conflict below the
  level popped.  Inserts and checks are not bounded: the variables are finite, so
  TLC visits behaviours of any length.
* For the handle, two commands make a script that has a part before and a part
  after a failure, and scripts follow each other without bound.  Two levels suffice
  for a result that is read at another level than it was computed at, and for a
  mark inherited by a push.  One handle suffices for the run because what handles
  share is left over between calls of one as well as of two; the proofs are for
  any number.
* For the interpreter two names are one that is taken and one that is free, two
  levels a scope kept and one popped.  An assertion may be repeated after its level is
  popped, so that one at a time reaches every scope.  The proofs are for any number.
* The search needs few atoms but the right problems: `Frames` has two rounds with
  frames enabled and disabled, `Boolean` conflicts at three levels with
  minimisation, `Theory` contradictions noticed early or late and deductions,
  `Excluding` the same with an atom that excludes two others, `Splitting` splits on known and new atoms, `Contradiction` a refutation at
  level 0.  What the code chooses by a heuristic is free, so all orders are seen.
* In `stp` words are short so that sums overflow, mantissas shorter so that constants
  are rounded; four atoms close positive, zero and negative cycles and leave one
  literal to be deduced; a model may leave the range that the searches kept to.  `MaxTime` allows
  two rounds of backtracking.  An assignment counts from `zero`, which loses nothing because
  only differences matter, and constraints that can be satisfied are so by shortest
  distances, which are sums of at most two of the costs: at most 14.
* In `egraph` three literals are what a congruence through two applications
  with a conflict or deduction at its end takes, or an equation and a distinction at level 0
  and a literal more; backtracking and searches are unbounded.  With the equation known first,
  two terms of the distinction have roots other than themselves when it is asserted, which is when
  `undoDistinction()` clears other bits than `assertDist()` set.
* In `lasolver` rows share variables and bounds have neighbours on both sides, one of them
  declared in between; a third check is one after a backtrack from a second.  `CheckEnds` bounds the
  number of pivots within a check, so termination is a safety property here.  The problem
  `Circle`, three variables and four sums with seven bounds, is one on which the heuristic of short rows and
  short columns repeats itself for ever; TLC follows it until Bland's rule takes over and ends it, and finds
  `CheckEnds` violated without the switch.
* The array problems of `algorithms` differ in the shape of the graph, which is what the code walks:
  a path, two paths that meet, a cycle that a later store turns round, classes joined in
  the middle.  Checks, complete or not, come anywhere between the literals.
* In the rest of `algorithms` every word of three bits occurs and results exceed words and
  double words; scripts are as long as the longest chain that one pass treats
  specially (a loop of substitutions, an if-then-else shared by two others).
* The scripts behind the proofs are fixed, the orders in which the search decides,
  propagates, conflicts, restarts and removes are not.

Deadlock is checked for `main_*`, `handle` and `handle_models`, where some call is always possible.
The others may stop: after `(exit)`, after the last round of a search, at the bound of a
script, of the calls or of the timestamps, or (`egraph`) with a conflict at level 0, which ends
the last search.

Fairness is assumed by two runs.  `handle` uses it for `BoundedCheckReturns` (a
check whose deadline is armed returns) and `CtrlCEndsSearch`: `FairSpec` has weak
fairness of `Step`, since nothing preempts the thread and no step waits for
anything, and of `ClockPasses` and `ThrottleEnds`: time passes.  It has none of
`CtrlC`, of calls, nor of the ends of a search, which may go on for ever: that a
deadline ends it is the point.  What the two properties rest on is that the loop
keeps polling; `src/R/zusmt.R` says as much of a timeout ("a floor on when the call
returns").  That searches end by themselves is `SearchEnds` of `search`, under
`WF_vars(Next)`: the search is sequential code that goes on, whichever of its
choices it makes.

The faulty variants (definitions whose comment begins with "Faulty" or "Bug to
detect") are not used by the specifications.  Each stands for a likely error in the
definition that follows it; with it in place, TLC finds the property violated.

### The findings

*Wrong `sat` from a function of a negation* (`egraph_negations`).  A predicate `f(x)`
that congruence has deduced gets its polarity from `deduce()`; when the SAT solver
asserts it, `assertLit()` returns at once and never merges the node of `not f(x)`
with `false`.  A term `g(not f(x))` then stays apart from `g(false)`, and an assignment
without a model is answered `sat`.  The compiled solver does so on the script in
`PROJECT.json`.  Incrementally there is a second way to it: declaring `not f(y)`
in the middle of a search (`EgraphSolver.cc:266`).

*A model after "error"* (`handle_models`).  `solve()` sets the status to true before it has the
model computed.  An overflow there comes back as `"error"`, but `C_solver_check()` sets
`result_current` whatever came back, so that `smt_model()` gives out what had been computed by
then.  `smt_model()`'s documentation reserves it for a check that returned `"sat"`.
`AnswersAreCurrent` says what is true nevertheless: the assertions of such a model can be
satisfied, though perhaps not by its values.

*Wrong `sat` from a stale graph* (`arrays_stale`).  Only an asserted equality makes the array
solver build its graph again (`ArraySolver.cc:36`; `TSolverHandler::assertLit` passes it no other
atom).  Two predicates `(p x)` and `(p y)` asserted after a check make `(f (p x))` and `(f (p y))`
equal; reads at them are then one index apart for the cached lemmas, and the lemma that joins
them is never sought.  `ArraySolver.h:26` says that the graph is built again when the context
of strong equivalence changes.

### Observations

Behaviours seen on the models that no run reports.  Where a definition is named, it is
in the module; adding it as an INVARIANT or PROPERTY to the configuration shows the trace.

1. *Wrong `sat` after an interrupt* (`SearchTrueIsConsistent`, MainSolver with
   interrupts).  The search stops right after learning a unit; its propagation
   conflicts while a pushed level is simplified; only that level is marked, `pop()`
   restores `ok`, and the falsified clause lies behind `qhead`.  Hence
   `SatAnswerSound` is claimed without interrupts only.
2. *`status` is not the status of the last call* (`StatusOfLastCall`).  `(simplify)`
   resets it, `check()` on a marked level does not set it; the core and the
   interpolants are then refused after `unsat`.
3. *A level skipped for good* (`SkippedLevelsSimplified`, preprocessing throws).  The
   cursor moves before the level is processed.
4. *Wrong `unsat` after an arithmetic overflow* (`UnsatFlagSound` with
   `SearchFails`).  The exception skips `clearSearch()`; later assertions are
   simplified by the decisions left on the trail.
5. *Ctrl-C lost to a deadline* (`InterruptedCheckReturnsNoValue`) and *in a script*
   (`InterruptedScriptRaises`).  The clock is read again after a search that Ctrl-C
   ended; `run_script()` never asks whether a poll saw an interrupt.
6. *Indices and names of assertions* (`IndexIsPartition`, `CoreTermsHaveNames`,
   Interpreter).  A refused assertion shifts the index of the later ones; the
   assertion at `TermNames.h:62` is reachable.  A refused difference-logic assertion
   leaves its `:named` name behind although `solver.cc:72` says it leaves nothing.
   `:global-declarations` is accepted at any time (`Interpret.cc:176`, `SMTConfig.h:345`); changed
   between a push and its pop it makes the pop take a scope of names that does not exist
   (`ScopedVector.h:46`), or leaves one behind.  `NamesAndScopesAgree` promises the scopes of
   names until then (`switched`), and the other tables always.
7. `(exit)` makes every later script on the handle a no-op that reports success, while direct
   assertions go on (`solver.cc:531`).  The interrupt branch of `C_solver_check()` never meets a decided answer:
   `DecidedAnswerReported` holds for interrupts too.  `check_nesting()` does not know
   the lexer's `\"`.
8. Pure code: `IteHandler::rewrite` gives the formula back unchanged when rewriting
   maps the root to itself; `iff` arguments are not sorted; in FastRational the
   remainder of the least word by -1 and the sign of `%` and of gcd differ from the
   exact ones where no caller relies on them.
9. Proofs: `transformProofForCNFInterpolants` always throws; erasing the derivation
    of the empty clause does not give back its uses, so derivations are kept too
    long; handlers for predicate and unit pushing, and the stronger and weaker
    transformations, are reached by no option.
10. *Wrong `sat` from functions of Booleans*.  `UFTheory` tells the congruence closure which
    Boolean terms are arguments of functions (`UFTheory.cc:16`); `ArrayTheory` and
    `UFLATheory` do not, so that in `QF_AX` or `QF_UFLIA` a function of a connective is not
    related to the connective's value.
11. *Bits of distinctions that stay behind*.  `assertDist()` sets the bits of the roots
    (`EgraphSolver.cc:657`), `undoDistinction()` clears those of the arguments (682-688).  After
    `clearSearch()` a root may so keep a bit of a distinction that is not asserted at the moment.
    It does no harm, because a distinction is a fact of level 0 and told again before anything else
    is: `ClosureExact` says exactly this, and without `Binding` in it TLC finds it violated.

The findings and observations 1, 2, 4 and 10 were reproduced by driving the compiled solver along the trace.

## 5. What is proved

For every value of the constants, except where a hypothesis is named.  The
assumptions on the constants are the `ASSUME`s of the modules: there is a world, bounds
are natural numbers, switches are Boolean, `NoModel`, `Undef` and `NoName` are none of the
values beside them; the explanations of the theory are complete (`TheoryAssumption`: what none of
them contradicts has a model), without which no answer `sat` could be right.

`MainSolverProofs`, without hypotheses:

* `TypeCorrect`, with one lemma per action.
* `StackInvariant`: `Spec => []StackInv`.  None of "ids are fresh", "a stuck solver
  is marked at the top", "a search never starts stuck" is inductive alone.
  `pop()` restores `ok` by the mark of the level below; that this mark is there
  when the solver stays stuck needs `StuckLevelsMarked`: all levels from the
  cursor on are marked.  `insertFormula()` moves the cursor down onto the last
  level, which keeps it because the last level is marked.  `SolveUnsat` marks
  level `conflict_frame`; that this is the level of its own final conflict
  needs `ok => conflict_frame = 0`.  `FrameIdsAlwaysFresh` and
  `NeverSearchesStuck` are read off it.

`MainSolverAnswerProofs`, under `~SearchFails` (observation 4 shows that it is needed),
with interrupts and failing preprocessing allowed:

* `UnsatInvariant`: `Spec => []UnsatInv`, and from it `NothingEverInvented`,
  `MarksAreSound`, `UnsatAnswersAreSound`.  `NothingInvented` says that the
  assertions up to level i entail the clauses and the substitutions of level i.
  A rewriting of level i loses no world of its assertions because only
  substitutions of levels up to i are known then (`SimplifiedInOrder`), and what is
  said under an id is said about one level (`FrameIdsFresh`).  A mark is set in
  three situations: the level rewrote to false; the solver was stuck, and then
  the level was marked already; or clauses contradict each other, and then
  so do the assertions that entail them.

... and the other direction:

* `NothingAssertedIsLost`: `Spec => []LevelsGiven` under `~SearchFails` and
  `~PreprocessingFails` (observation 3).  Every level below the cursor, and every
  substitution, is entailed by the clauses of the levels up to it.  The inductive
  invariant `GivenInv` adds to `UnsatInv` what the cache means (`CacheGiven`: a
  formula remembered under an id is said by the clauses of that id): without it a
  formula that the Cnfizer skips could be lost after a pop.
* `SatAnswersAreSound`: `Spec => []SatAnswerSound`, in addition under `~Interrupts`
  (observation 1), from `SatInv`: nothing is missed on the trail, and the model of
  a satisfiable search satisfies the enabled clauses.
* `ImplementsStack`: `Spec => ImplementsAssertionStack` under the same hypotheses.
  Each action of MainSolver is a Push, Pop, Insert or Check of the abstract
  stack, or a stutter; a Check that answers `sat` or `unsat` is right by the two
  soundness invariants.

`SolverHandleProofs`, for any number of handles, worlds and levels, scripts of any
length, with or without timeouts and failures:

* `TypeCorrect`, from `CallInv`, which ties a program point to its call: without
  it `todo - 1` after a `(check-sat)` could be negative.
* `DeadlineIsOwned`, `DecidedAnswerIsReported`, `InterruptsAreAccounted`, from
  `EndingInv`.  The properties speak of a check that has returned; `EndingInv` adds
  what holds while one runs: the latch says of this check whether it consumed a
  Ctrl-C, because the latch was cleared at its start, and a check that did has come
  back undecided.
* `ModelsStayCurrent` and `CoresStayCurrent`, together `AnswersStayCurrent`, from `ResultInv`: whenever
  `result_current` is set, or `check()` has just come back, the status describes the levels
  there are.  A status true means assertions that can be satisfied, and a model that satisfies them
  unless the check came back with an error or an exception; where the solver does not fail
  that does not happen, which is `ModelsAreRight`.  The
  argument has four parts: marks are sound (`MarksSound`, with a lemma for each
  way levels change); a search runs with the status undefined, so that a check
  that decides nothing leaves nothing to read; a status true comes with levels none of which is
  marked (`TrueUnmarked`), so that no check answers `unsat` from a mark and leaves it standing; a command
  that may change levels takes `result_current` back before it runs, and so also when it fails half way.

`InterpreterProofs`, for any names, terms, functions and bounds:

* `TypeCorrect` and `NameTablesAlwaysAgree`, without hypotheses, so even after a scope
  was popped that did not exist: the two maps and the scoped vector of names say the
  same.  A name is entered once (`AttachType`), and popping a scope takes out of
  the maps exactly the names that leave the vector.
* `NamesAndScopesAlwaysAgree` and `ImplementsScript`, without hypotheses: the
  number of limits of definitions is that of the frames below the top, and of names too
  (or none, with global declarations) until the option is changed with a level open, through
  pushes and pops that are half done; and the interpreter with MainSolver's frames implements
  the abstract stack of scopes, which promises as much.  The step that matters is `PopNames`, `PopDefinitions` and
  `PopAssertions`: each removes the entries of exactly the innermost scope.  Counting
  the limits below an entry needs cardinalities of intervals and of sets of
  indices, which are lemmas (`ScopeOfRange`, `PopScopeOf`).

`CoreSMTSolverProofs`, for any atoms, problems, theories (as sets of contradictions and
splits) and restart interval, with every choice the heuristics could make:

* `StepsInOrder`: `Spec => []StepInv`, the inductive invariant.  It has to say where
  every record stands in the middle of every loop, and its parts lean on each other.
  `Levelled` (no atom twice, a level is what `trail_lim` cuts off, only its first
  literal lacks a reason) makes `Kept(k)` a prefix, so that whatever held of the part
  below a backjump still holds.  `ReasonsFalse` needs `Watched` (a clause being visited
  watches the literal just propagated, so that a unit clause is otherwise false) and
  `Resolvents` (what `analyze()` has marked is false and above level 0, so that the
  learnt clause has one literal left above the level it jumps to).  `TheoryMirrorsTrail`
  needs `Marks` (the marks of the deductions are monotone, and the solver was given
  the told literals and nothing else) for `backtrack()` to pop the right number, and
  `Declared`: an atom of the theory on the trail was declared before the search
  began or came with a split, so that what is told does not change behind literals
  already counted.  `Phases` says which of these records are empty where.
* Read off it: `TypeCorrect`; `TheoryAlwaysMirrorsTrail`; `ReasonsAlwaysBefore`, which
  is the first half of `PropagationComplete`.

`CoreSMTSolverImpliedProofs`, with the same generality:

* `EverythingImplied`: `Spec => []AllImplied`.  The property speaks of sets of
  assignments; the inductive invariant `ImpliedInv` fixes one assignment that satisfies what
  was added and says what the records are to it: it satisfies each clause (`MeetsClauses`),
  the reason of a literal of the trail or the literal (`MeetsTrail`), a deduction unless it
  disagrees with what the theory solver had when it was made (`MeetsDeductions`), the
  resolvent (`MeetsResolvent`) and the split clauses under way (`MeetsSplits`).  Each
  step then is a resolution or a deduction, checked for that assignment.  Such an
  assignment disagrees with the trail first at a decision (`FirstDecided`), which gives
  back the property.
* `UnsatAnswersAlwaysRight`: `Spec => []UnsatAnswersRight`, one half of
  `AnswerRight`.  `ok` falls without a final conflict only if no such assignment exists.
  With a final conflict, the decisions that `analyzeFinal` marks are those of assumptions
  (`AssumptionsDecided`), all of frames below `conflict_frame`, and the marks are closed
  under reasons (`MarkedClosed`): an assignment that satisfies these assumptions would agree
  with the trail on everything marked, the negated assumption included.

`CoreSMTSolverSatProofs`, with the same generality:

* `PropagationAlwaysComplete`: `Spec => []PropagationComplete`.  The usual invariant of two
  watched literals, "if one is false, the other is true", does not hold here: a clause is
  visited later than its watch becomes false, a blocker may be any literal of the clause, a
  conflict leaves clauses unvisited, and a split may be attached with a false watch.  What
  holds (`WatchRight`) is about the propagated part of the trail: if both watches are
  false there, some literal of the clause is true at the level of one of them or below, so
  that it leaves the trail no earlier than that one does; except, while a conflict is
  analysed, when the level of one is the level about to be left (`Late`).  It survives a
  jump back because what waits to be propagated is of the current level only (`Fresh`).
  All this is for as long as the solver is consistent: a conflict at level 0 leaves
  clauses unvisited for good.
* `SatAnswersAlwaysRight`: `Spec => []SatAnswersRight`, from `SatInv`.  At the end no
  clause is false, but it has to be true.  So: a variable to be decided is on the trail or in
  the heap (`HeapComplete`, which is what `insertVarOrder()` in `cancelUntil()` is for); the atoms
  of clauses are to be decided (`AtomsDecided`), although `declareVarsToTheories()` takes
  others away; a clause that was added is stored but for literals false at level 0, or is
  true there, or has a literal and its negation (`Represented`); level j makes
  assumption j true (`AssumedTrue`); and between the complete check and the answer the theory
  changes its mind in no other way than by a split, which brings a variable to decide
  (`Believed`).  The model is the trail, and elsewhere what the theory offers.
* With `UnsatAnswersAlwaysRight`, `AnswersAlwaysRight`: `Spec => []AnswerRight`.

`STPSolverProofs`, for any finite numbers of variables and atoms with any constants, any width
and mantissa, and searches of any length; `AllAssignments` says that the variables stand for all
integers:

* `SolverAlwaysRight`: `Spec => []SolverInv`.  The property that counts, "the edges that are
  true are those that the graph implies", is not inductive: backtracking goes back to a
  graph of which it says nothing.  `TimesExact` says it of the graph at *every* time so far.
  Then `removeAfter()` finds the answer it needs already there, because times grow along the
  graph (`TimesOrdered`) and the point it goes back to is the time of an edge, unless
  nothing is left (`PointsOrdered`).  `StackRight` ties the literals to the graph (an edge became true after
  its literal's point and before the next), and a conflict to the point at which it
  disappears; `DeductionsKept` and `MarksOrdered` tie what is listed as deduced to
  the edges that hold, before each point.  Of the state after an exception
  nothing is claimed.
* The step that adds an edge is `ConsequencesRight`: `findConsequences()` finds what the
  new edge implies together with the others, and nothing else.  It rests on
  `ReachRight`: `dfsSearch()` ends with the shortest distances to all that it can reach.  A search
  ends because something decreases (`SearchShrinks`): the vertices not seen and the lengths
  still possible, by `MeasureExists`, then the open vertices, then the edges to look at.
  Its lengths bound every assignment (`SoundLengths`), and an edge that might shorten
  one waits behind an open vertex (`Pending`), so at the end they are a solution themselves
  (`PotentialExists`).  That nothing else is implied is `Glue`: a solution of the
  other constraints that violates the one in question is raised to the distances before the
  new edge and cut at those behind it, which makes it satisfy the edge and still violates
  the constraint.
* `ConflictAlwaysExact`, `DeductionsAlwaysExact` and `TrueEdgesAlwaysExact`, read off it.
  For the first, the constraint of an edge is the one the user wrote where a double
  holds the constant (`EdgeMeans`).
* `ModelAlwaysRight`: `Spec => []ModelRight`.  Bellman and Ford's search ends as the others do, with
  lengths that satisfy every edge of the graph.  A literal whose edge was true already has no
  edge in the graph, but by `TimesExact` the graph implies it.  The model gives a value
  to both its ends all the same (`ModelObeys`): the graph implies nothing about a variable that
  it does not name.
* `ExplanationsAlwaysRight`: `Spec => []ExplanationsRight`.  The invariant gets a second part,
  `AsgnRight`: an edge of the graph, and no other, keeps the literal on the stack that set it,
  which was given before the edge's time.  Of the search, `WalkOf` says that the edge by which
  a vertex was reached starts at one that was reached before it, and that the length there plus
  the cost is at most the length here (`Reached`).  The walk back must not go in circles, which is
  `Grounded`: the step that closes a circle of such edges would make the sum of its costs less
  than 0 (`ImprovedGrounded`), and some numbers satisfy the graph.  So it ends at the
  start, with the literals of a path of at most the edge's cost (`TimesExact` again: the graph of
  that time implies the edge), all set no later than what is explained.  As in the property,
  a search whose sums leave the range explains nothing, and the solver stops with an exception.

TLC finds no violation of `SolverInv` on the instance of `stp`.

### Only model-checked, and why

* Liveness (`BoundedCheckReturns`, `CtrlCEndsSearch`, `SearchEnds`): out of the prover's
  reach.
* `Egraph`, `LASolver`: that classes, conflicts and models are exact is about least congruences and
  rational arithmetic, defined by recursion over the terms and the numbers.
* `RationalRegister`: multiplication, gcd and rounding of machine words.
* `ArraySolver`, `Formulas` and `Proofs`: recursive operators over graphs, terms and proofs; their
  modules declare RECURSIVE operators.

## 6. What is not modelled

Inside MainSolver: timing and printing.  `solve()`'s early return on a stuck solver
is left out because `OkUnlessMarked`, which is proved, makes it unreachable.  Inside
the handle: what the readers compute once they may read, `print-cores-full`, the
capture of output, the random seed.  The clock has no width: a timeout beyond the range of
the clock's integer is not distinguished from a short one.

Inside the interpreter: reading terms, `get-value` and its like, printing.  Inside
the search: the order of decisions (free), `reduceDB` (it starts at thousands of learnt
clauses), the lookahead variants and ghost variables, elimination of variables
(`SimpSMTSolver`; it needs `:incremental false`).  In difference logic the admission
predicate and the nesting scanner of `solver.cc`.  In Egraph the values of its model; in
LASolver cuts from proofs, `clearSolver()`.  Of proofs,
the interpolators of the theories, unsat cores, and what no option reaches.

Of arrays, those of arrays, whose stores and selects are arrays themselves.

Left out for good: arithmetic terms and their normal forms, bit-vectors (not
part of the build, `src/roadmap.md:161`), option tables, model printing, the
generated parser, packaging.
