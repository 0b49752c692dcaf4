----------------------------- MODULE MainSolver -----------------------------
(***************************************************************************)
(* OpenSMT's MainSolver as zusmt drives it: the stack of assertion levels, *)
(* the preprocessing that turns a level into clauses, the clause database  *)
(* of the SAT solver, and the flags that let check() answer without        *)
(* searching (src/src/opensmt/api/MainSolver.cc and .h).                   *)
(*                                                                         *)
(* A formula is the set of the worlds that satisfy it.  A level is never   *)
(* retracted from the SAT solver: its clauses carry the literal of their   *)
(* frame's id and are switched off by an assumption when the level is      *)
(* popped.  What has to survive pops, pushes and failures is therefore     *)
(* spread over five places that are kept in step by hand: the frames, the  *)
(* index firstNotSimplifiedFrame, the substitutions learnt per level, the  *)
(* clause database with the Cnfizer's cache, and the solver's "ok" bit.    *)
(*                                                                         *)
(* The search is one step whose outcomes are those that a complete         *)
(* DPLL(T) search may have.  simplifyFormulas() is one step per level, so  *)
(* that an exception can leave it half done.                               *)
(***************************************************************************)
EXTENDS Naturals

CONSTANTS
  Worlds,           \* the valuations the formulas are about
  MaxLevels,        \* bound: assertion levels on the stack
  MaxFrameId,       \* bound: frame ids handed out, i.e. pushes
  TrackPartitions,  \* trackPartitions(): a proof is being logged
  Interrupts,       \* a deadline or Ctrl-C may end a search undecided
  PreprocessingFails, \* an exception (out of memory) may end simplifyFormulas()
  SearchFails       \* an exception (SafeInt overflow in QF_IDL) may end solve()

ASSUME WorldsAssumption == Worlds # {}
ASSUME BoundsAssumption == MaxLevels \in Nat /\ MaxFrameId \in Nat
ASSUME SwitchesAssumption ==
  /\ TrackPartitions \in BOOLEAN
  /\ Interrupts \in BOOLEAN
  /\ PreprocessingFails \in BOOLEAN
  /\ SearchFails \in BOOLEAN

VARIABLES
  frameCount,       \* frames.frameCount()
  frames,           \* frames[i] = [id, fla, unsat] for i in 0..frameCount-1
  frameId,          \* AssertionStack::frameId, the next id to give out
  firstNotSimplifiedFrame,
  status,           \* "True", "False", "Undef"
  internalFrameCount, \* Preprocessor: levels that have a substitution map
  substitutions,    \* what the map of level i asserts, i < internalFrameCount
  cnfCache,         \* Cnfizer::alreadyProcessed: what was converted under an id
  clauses,          \* the clause database: what its clauses of an id say
  ok,               \* CoreSMTSolver::ok
  conflict_frame,   \* CoreSMTSolver::conflict_frame
  pendingConflict,  \* a unit waits in the trail whose propagation conflicts
  missedConflict,   \* a falsified clause lies behind qhead: no propagation sees it
  heldFrames,       \* frames assumed by a search that an exception left on the
                    \* trail, at a decision level above 0; {} if there is none
  heldWorlds,       \* the worlds that agree with the decisions of that search
  model,            \* the world the last satisfiable search ended in
  call,             \* the call being executed: "idle", "simplify", "check"
  answer            \* what the last call returned, "none" if not a check

stackVars  == <<frameCount, frames, frameId>>
prepVars   == <<firstNotSimplifiedFrame, internalFrameCount, substitutions, cnfCache>>
heldVars   == <<heldFrames, heldWorlds>>
satVars    == <<clauses, ok, conflict_frame, pendingConflict, missedConflict, heldVars>>
resultVars == <<status, model, call, answer>>
vars == <<frameCount, frames, frameId, firstNotSimplifiedFrame, status,
          internalFrameCount, substitutions, cnfCache, clauses, ok,
          conflict_frame, pendingConflict, missedConflict, heldFrames,
          heldWorlds, model, call, answer>>

-----------------------------------------------------------------------------
BaseFrame == 0
FrameIds  == 0..(MaxFrameId - 1) \cup {BaseFrame}

Formula == SUBSET Worlds
Status  == {"True", "False", "Undef"}
Answer  == {"none", "sat", "unsat", "unknown", "error"}
Frame   == [id : FrameIds, fla : Formula, unsat : BOOLEAN]

Levels    == 0..(frameCount - 1)
LastLevel == frameCount - 1

isLastFrameUnsat == frames[LastLevel].unsat

\* Worlds that satisfy the assertions of levels 0..i.
AssertedUpTo(i) == {w \in Worlds : \A j \in 0..i : w \in frames[j].fla}
Asserted == AssertedUpTo(LastLevel)

\* Worlds that satisfy every clause the assumptions of levels 0..i enable.
EnabledUpTo(i) == {w \in Worlds : \A j \in 0..i : w \in clauses[frames[j].id]}
Enabled == EnabledUpTo(LastLevel)

\* Preprocessor::getCurrentSubstitutions(): those of every level that has any.
CurrentSubstitutions ==
  {w \in Worlds : \A j \in 0..(internalFrameCount - 1) : w \in substitutions[j]}

\* Faulty: rememberUnsatFrame() one level too low.
RememberUnsatFrameTooLow(fs, k) ==
  [i \in DOMAIN fs |-> IF i + 1 >= k THEN [fs[i] EXCEPT !.unsat = TRUE] ELSE fs[i]]

\* rememberUnsatFrame(k): level k and every level above it.
RememberUnsatFrame(fs, k) ==
  [i \in DOMAIN fs |-> IF i >= k THEN [fs[i] EXCEPT !.unsat = TRUE] ELSE fs[i]]

Min2(a, b) == IF a < b THEN a ELSE b

-----------------------------------------------------------------------------
Init ==
  /\ frameCount = 1
  /\ frames = [i \in {0} |-> [id |-> BaseFrame, fla |-> Worlds, unsat |-> FALSE]]
  /\ frameId = 1
  /\ firstNotSimplifiedFrame = 0
  /\ status = "Undef"
  /\ internalFrameCount = 1
  /\ substitutions = [i \in {0} |-> Worlds]
  /\ cnfCache = [id \in FrameIds |-> Worlds]
  /\ clauses = [id \in FrameIds |-> Worlds]
  /\ ok = TRUE
  /\ conflict_frame = 0
  /\ pendingConflict = FALSE
  /\ missedConflict = FALSE
  /\ heldFrames = {}
  /\ heldWorlds = Worlds
  /\ model \in Worlds
  /\ call = "idle"
  /\ answer = "none"

\* Faulty: ids given out by depth, so that a popped id comes back.
NextFrameIdByDepth == frameCount + 1

\* AssertionStack::push(): ids only grow.
NextFrameId == frameId + 1

\* Faulty: push() forgets that the stack is unsat already.
NewFrameClean == [id |-> frameId, fla |-> Worlds, unsat |-> FALSE]

\* The frame push() adds: unsat from the start when the last one is.
NewFrame == [id |-> frameId, fla |-> Worlds, unsat |-> isLastFrameUnsat]

Push ==
  /\ call = "idle"
  /\ frameCount < MaxLevels /\ frameId < MaxFrameId
  /\ frames' = [i \in 0..frameCount |->
                  IF i < frameCount THEN frames[i] ELSE NewFrame]
  /\ frameCount' = frameCount + 1
  /\ frameId' = NextFrameId
  /\ answer' = "none"
  /\ UNCHANGED <<prepVars, satVars, status, model, call>>

\* Faulty: pop() leaves the cursor beyond the top of the stack.
CursorKeptByPop == firstNotSimplifiedFrame

CursorAfterPop == Min2(firstNotSimplifiedFrame, frameCount - 1)

\* Faulty: Preprocessor::pop() always returns early.
SubstitutionLevelsKeptByPop == internalFrameCount

\* Preprocessor::pop(): the popped level's map goes if it had one.
SubstitutionLevelsAfterPop == Min2(internalFrameCount, frameCount - 1)

\* Faulty: the solver stays stuck in the conflict of the popped level.
NoRestore == UNCHANGED <<ok, conflict_frame>>

\* restoreOK() unless the level below the popped one is itself unsat.
RestoreOK ==
  IF frames[frameCount - 2].unsat
  THEN UNCHANGED <<ok, conflict_frame>>
  ELSE ok' = TRUE /\ conflict_frame' = 0

\* pop(): the clauses of the level stay in the solver.
Pop ==
  /\ call = "idle"
  /\ frameCount > 1
  /\ frames' = [i \in 0..(frameCount - 2) |-> frames[i]]
  /\ frameCount' = frameCount - 1
  /\ firstNotSimplifiedFrame' = CursorAfterPop
  /\ internalFrameCount' = SubstitutionLevelsAfterPop
  /\ substitutions' = [i \in 0..(internalFrameCount' - 1) |-> substitutions[i]]
  /\ RestoreOK
  /\ answer' = "none"
  /\ UNCHANGED <<frameId, cnfCache, clauses, pendingConflict, missedConflict,
                 heldVars, status, model, call>>

\* Faulty: a level already simplified is not simplified again.
CursorKeptByInsert == firstNotSimplifiedFrame

\* The last level has to be simplified again.
CursorAfterInsert == Min2(firstNotSimplifiedFrame, LastLevel)

InsertFormula(f) ==
  /\ call = "idle"
  /\ frames' = [frames EXCEPT ![LastLevel].fla = @ \cap f]
  /\ firstNotSimplifiedFrame' = CursorAfterInsert
  /\ answer' = "none"
  /\ UNCHANGED <<frameCount, frameId, internalFrameCount, substitutions, cnfCache,
                 satVars, status, model, call>>

\* check() on a level known to be unsat returns before it touches anything.
CheckKnownUnsat ==
  /\ call = "idle"
  /\ isLastFrameUnsat
  /\ answer' = "unsat"
  /\ UNCHANGED <<stackVars, prepVars, satVars, status, model, call>>

\* simplifyFormulas(), called by check() or by the command (simplify).
BeginSimplify(caller) ==
  /\ call = "idle"
  /\ caller = "check" => ~isLastFrameUnsat
  /\ call' = caller
  /\ status' = "Undef"
  /\ answer' = "none"
  /\ UNCHANGED <<stackVars, prepVars, satVars, model>>
-----------------------------------------------------------------------------
(***************************************************************************)
(* giveToSolver(G, id).  The Cnfizer emits nothing for a formula whose     *)
(* conjuncts it has converted under this id or under the base frame.       *)
(* Otherwise the clauses go to addOriginalClause_(), which drops them when *)
(* ok is false and may propagate: a conflict is found when the clauses of  *)
(* the base frame are contradictory, or when a unit left in the trail by   *)
(* an interrupted search now conflicts.  The conflict leaves qhead behind  *)
(* the falsified clause.  Clauses after the one that conflicts are not     *)
(* added, which makes no difference: the level is marked unsat and its id  *)
(* never comes back.                                                       *)
(*                                                                         *)
(* addOriginalClause_() is written for decision level 0: it drops a clause *)
(* with a true literal and strips the false ones.  After an exception it   *)
(* does so by the decisions of the abandoned search.  What is stored, H,   *)
(* then agrees with G only in the worlds of those decisions; the literal   *)
(* of a frame that search had assumed is stripped too, which puts H into   *)
(* the base frame; and a clause false in all those worlds is a conflict.   *)
(***************************************************************************)

\* Faulty: a formula converted under any frame counts as converted.
AlreadyProcessedAnywhere(G, id) ==
  {w \in Worlds : \A k \in FrameIds : w \in cnfCache[k]} \subseteq G

AlreadyProcessed(G, id) == cnfCache[id] \cap cnfCache[BaseFrame] \subseteq G

EmitNothing(G, id) ==
  /\ AlreadyProcessed(G, id)
  /\ UNCHANGED <<satVars, cnfCache>>

EmitDropped(G, id) ==
  /\ ~ok
  /\ cnfCache' = [cnfCache EXCEPT ![id] = @ \cap G]
  /\ UNCHANGED satVars

\* Faulty: the clauses go in without the literal of their frame.
EmitUnguarded(G, id) ==
  /\ ok /\ heldFrames = {}
  /\ cnfCache' = [cnfCache EXCEPT ![id] = @ \cap G]
  /\ clauses' = [clauses EXCEPT ![BaseFrame] = @ \cap G]
  /\ UNCHANGED <<ok, conflict_frame, pendingConflict, missedConflict, heldVars>>

EmitAccepted(G, id) ==
  /\ ok /\ heldFrames = {}
  /\ cnfCache' = [cnfCache EXCEPT ![id] = @ \cap G]
  /\ clauses' = [clauses EXCEPT ![id] = @ \cap G]
  /\ UNCHANGED <<ok, conflict_frame, pendingConflict, missedConflict, heldVars>>

EmitConflict(G, id) ==
  /\ ok /\ heldFrames = {}
  /\ cnfCache' = [cnfCache EXCEPT ![id] = @ \cap G]
  /\ clauses' = [clauses EXCEPT ![id] = @ \cap G]
  /\ pendingConflict \/ clauses'[BaseFrame] = {}
  /\ id = BaseFrame \/ pendingConflict
  /\ ok' = FALSE
  /\ pendingConflict' = FALSE
  /\ missedConflict' = TRUE
  /\ UNCHANGED <<conflict_frame, heldVars>>

\* A unit is only enqueued: it narrows the held worlds and is not stored.
EmitUnderDecisions(G, id) ==
  /\ ok /\ heldFrames # {}
  /\ cnfCache' = [cnfCache EXCEPT ![id] = @ \cap G]
  /\ heldWorlds' \in {heldWorlds, heldWorlds \cap G}
  /\ \E H \in Formula :
       /\ H \cap heldWorlds' = G \cap heldWorlds'
       /\ clauses' = [clauses EXCEPT ![IF id \in heldFrames THEN BaseFrame ELSE id] = @ \cap H]
  /\ UNCHANGED <<ok, conflict_frame, pendingConflict, missedConflict, heldFrames>>

EmitConflictUnderDecisions(G, id) ==
  /\ ok /\ heldFrames # {}
  /\ G \cap heldWorlds = {}
  /\ cnfCache' = [cnfCache EXCEPT ![id] = @ \cap G]
  /\ ok' = FALSE
  /\ UNCHANGED <<clauses, conflict_frame, pendingConflict, missedConflict, heldVars>>

\* giveToSolver() returns s_Undef, or s_False.
GiveToSolver(G, id)  == EmitNothing(G, id) \/ EmitAccepted(G, id) \/ EmitUnderDecisions(G, id)
GiveToSolverUnsat(G, id) ==
  EmitDropped(G, id) \/ EmitConflict(G, id) \/ EmitConflictUnderDecisions(G, id)

-----------------------------------------------------------------------------
(***************************************************************************)
(* One round of the loop of simplifyFormulas().  The conjunction F of the  *)
(* level is rewritten with the substitutions known so far, the level's own *)
(* previous ones included, into some G that agrees with F wherever they    *)
(* hold; the equations found on the way, S, follow from G and are put back *)
(* into it.  With partitions tracked there is no substitution: G is F.     *)
(***************************************************************************)
Rewritings(i) ==
  LET F == frames[i].fla
      K == CurrentSubstitutions
  IN  IF TrackPartitions \/ i = 0 THEN {F} ELSE {G \in Formula : G \cap K = F \cap K}

Equations(G) == IF TrackPartitions THEN {Worlds} ELSE {S \in Formula : G \subseteq S}

\* Faulty: the equations are kept for the base level, which is never popped.
StoreSubstitutionsAtBase(i, S) ==
  /\ internalFrameCount' = IF internalFrameCount <= i THEN i + 1 ELSE internalFrameCount
  /\ substitutions' = [j \in 0..(internalFrameCount' - 1) |->
                         IF j = 0 THEN S
                         ELSE IF j < internalFrameCount THEN substitutions[j] ELSE Worlds]

\* prepareForProcessingFrame(i), then setSubstitutions(i, S).
StoreSubstitutions(i, S) ==
  /\ internalFrameCount' = IF internalFrameCount <= i THEN i + 1 ELSE internalFrameCount
  /\ substitutions' = [j \in 0..(internalFrameCount' - 1) |->
                         IF j = i THEN S
                         ELSE IF j < internalFrameCount THEN substitutions[j] ELSE Worlds]

Simplifying ==
  /\ call \in {"simplify", "check"}
  /\ firstNotSimplifiedFrame < frameCount

\* The level is given to the solver and the loop goes on.
SimplifyFrame ==
  /\ Simplifying
  /\ LET i == firstNotSimplifiedFrame
         id == frames[i].id
     IN  \E G \in Rewritings(i) : \E S \in Equations(G) :
           /\ StoreSubstitutions(i, S)
           /\ GiveToSolver(G, id)
  /\ firstNotSimplifiedFrame' = firstNotSimplifiedFrame + 1
  /\ UNCHANGED <<stackVars, status, model, call, answer>>

\* The level is false on its face, or giveToSolver() returned s_False: the
\* level and those above it are marked and the call returns.
SimplifyFrameUnsat ==
  /\ Simplifying
  /\ LET i == firstNotSimplifiedFrame
         id == frames[i].id
     IN  /\ \E G \in Rewritings(i) : \E S \in Equations(G) :
              /\ StoreSubstitutions(i, S)
              /\ \/ GiveToSolverUnsat(G, id)
                 \/ ~TrackPartitions /\ G = {} /\ i > 0 /\ GiveToSolver(G, id)
                 \/ ~TrackPartitions /\ G = {} /\ i = 0 /\ EmitNothing(G, id)
         /\ frames' = RememberUnsatFrame(frames, i)
  /\ firstNotSimplifiedFrame' = firstNotSimplifiedFrame + 1
  /\ status' = "False"
  /\ answer' = IF call = "check" THEN "unsat" ELSE "none"
  /\ call' = "idle"
  /\ UNCHANGED <<frameCount, frameId, model>>

\* An exception leaves the loop while level i is processed.  firstNotSimplifiedFrame
\* has moved past it already; the substitutions may be stored, the Cnfizer
\* may have noted the formula, and some of the clauses may be in.
SimplifyFrameThrows ==
  /\ PreprocessingFails
  /\ Simplifying
  /\ LET i == firstNotSimplifiedFrame
         id == frames[i].id
     IN  \E G \in Rewritings(i) :
           \/ /\ StoreSubstitutions(i, IF i < internalFrameCount
                                       THEN substitutions[i] ELSE Worlds)
              /\ UNCHANGED <<cnfCache, clauses>>
           \/ \E S \in Equations(G) :
                /\ StoreSubstitutions(i, S)
                /\ UNCHANGED <<cnfCache, clauses>>
           \/ \E S \in Equations(G) : \E part \in {H \in Formula : G \subseteq H} :
                /\ StoreSubstitutions(i, S)
                /\ cnfCache' = [cnfCache EXCEPT ![id] = @ \cap G]
                /\ clauses' = [clauses EXCEPT ![id] = IF ok THEN @ \cap part ELSE @]
  /\ firstNotSimplifiedFrame' = firstNotSimplifiedFrame + 1
  /\ call' = "idle"
  /\ answer' = "error"
  /\ UNCHANGED <<stackVars, ok, conflict_frame, pendingConflict, missedConflict,
                 heldVars, status, model>>

\* (simplify) returns with every level given to the solver.
EndSimplify ==
  /\ call = "simplify"
  /\ firstNotSimplifiedFrame >= frameCount
  /\ call' = "idle"
  /\ UNCHANGED <<stackVars, prepVars, satVars, status, model, answer>>
-----------------------------------------------------------------------------
Solving ==
  /\ call = "check"
  /\ firstNotSimplifiedFrame >= frameCount

\* clearSearch(): back to decision level 0.
ClearSearch == heldFrames' = {} /\ heldWorlds' = Worlds

\* Worlds that satisfy the clauses of the frames the search assumes.  A search
\* that finds decisions on the trail keeps those of the first n frames, which
\* are of the stack of the abandoned search, until a conflict undoes them.
SearchSpace(n) ==
  {w \in Worlds :
    /\ \A id \in heldFrames : id <= n => w \in clauses[id]
    /\ \A i \in Levels : frames[i].id > n => w \in clauses[frames[i].id]}

SearchSpaces ==
  IF heldFrames = {} THEN {Enabled} ELSE {SearchSpace(n) : n \in FrameIds \cup {MaxFrameId}}

\* The search ends in an assignment.  One that found a queued unit in
\* conflict cannot; one that ran past a falsified clause can end anywhere.
SolveSat ==
  /\ Solving /\ ~pendingConflict
  /\ \E w \in Worlds :
       /\ missedConflict \/ \E space \in SearchSpaces : w \in space
       /\ model' = w
  /\ ClearSearch
  /\ status' = "True"
  /\ answer' = "sat"
  /\ call' = "idle"
  /\ UNCHANGED <<stackVars, prepVars, clauses, ok, conflict_frame, pendingConflict,
                 missedConflict>>

\* The search ends in a conflict.  k = 0: a conflict at decision level 0, from
\* clauses of the base frame alone, and conflict_frame is left as it was.
\* k > 0: the final conflict is over the assumptions of levels up to k, and
\* conflict_frame is the highest of them.
SolveUnsat ==
  /\ Solving
  /\ \E k \in Levels :
       /\ EnabledUpTo(k) = {} \/ (heldFrames # {} /\ k > 0 /\ {} \in SearchSpaces)
       /\ pendingConflict => k = 0
       /\ conflict_frame' = IF k = 0 THEN conflict_frame ELSE k
       /\ frames' = RememberUnsatFrame(frames, conflict_frame')
  /\ ok' = FALSE
  /\ pendingConflict' = FALSE
  /\ ClearSearch
  /\ status' = "False"
  /\ answer' = "unsat"
  /\ call' = "idle"
  /\ UNCHANGED <<frameCount, frameId, prepVars, clauses, missedConflict, model>>

\* okContinue() ends the search.  If it does so right after a unit was learnt,
\* the unit stays in the trail unpropagated; with a contradictory base frame
\* its propagation may be the one that conflicts.
SolveInterrupted ==
  /\ Interrupts
  /\ Solving
  /\ \/ UNCHANGED pendingConflict
     \/ clauses[BaseFrame] = {} /\ pendingConflict' = TRUE
  /\ ClearSearch
  /\ status' = "Undef"
  /\ answer' = "unknown"
  /\ call' = "idle"
  /\ UNCHANGED <<stackVars, prepVars, clauses, ok, conflict_frame, missedConflict, model>>

\* An exception leaves solve(): clearSearch() is not called.  It comes before
\* the first decision, among the decisions, or out of computeModel(), when
\* the status is True already and the decisions are those of a model.
SolveThrows ==
  /\ SearchFails
  /\ Solving
  /\ \/ UNCHANGED <<heldVars, status, model>>
     \/ /\ ~pendingConflict
        /\ heldWorlds' \in Formula \ {{}}
        /\ heldFrames' = {frames[i].id : i \in Levels}
        /\ UNCHANGED <<status, model>>
     \/ /\ ~pendingConflict
        /\ \E w \in Worlds :
             /\ missedConflict \/ \E space \in SearchSpaces : w \in space
             /\ heldWorlds' = {w}
             /\ model' = w
        /\ heldFrames' = {frames[i].id : i \in Levels}
        /\ status' = "True"
  /\ answer' = "error"
  /\ call' = "idle"
  /\ UNCHANGED <<stackVars, prepVars, clauses, ok, conflict_frame, pendingConflict,
                 missedConflict>>

-----------------------------------------------------------------------------
Next ==
  \/ Push
  \/ Pop
  \/ \E f \in Formula : InsertFormula(f)
  \/ CheckKnownUnsat
  \/ \E caller \in {"simplify", "check"} : BeginSimplify(caller)
  \/ SimplifyFrame
  \/ SimplifyFrameUnsat
  \/ SimplifyFrameThrows
  \/ EndSimplify
  \/ SolveSat
  \/ SolveUnsat
  \/ SolveInterrupted
  \/ SolveThrows

Spec == Init /\ [][Next]_vars
-----------------------------------------------------------------------------
(***************************************************************************)
(* Properties                                                              *)
(***************************************************************************)
TypeOK ==
  /\ frameCount \in 1..MaxLevels \cup {1}
  /\ frames \in [Levels -> Frame]
  /\ frameId \in Nat
  /\ firstNotSimplifiedFrame \in 0..frameCount
  /\ status \in Status
  /\ internalFrameCount \in 1..frameCount
  /\ substitutions \in [0..(internalFrameCount - 1) -> Formula]
  /\ cnfCache \in [FrameIds -> Formula]
  /\ clauses \in [FrameIds -> Formula]
  /\ ok \in BOOLEAN
  /\ conflict_frame \in Nat
  /\ pendingConflict \in BOOLEAN
  /\ missedConflict \in BOOLEAN
  /\ heldFrames \in SUBSET FrameIds
  /\ heldWorlds \in Formula
  /\ model \in Worlds
  /\ call \in {"idle", "simplify", "check"}
  /\ answer \in Answer

\* Frame ids grow up the stack and are never given out twice: nothing has been
\* said yet under the ids still to be given out, so the clauses of a popped
\* level are never switched on by a level pushed later.
FrameIdsFresh ==
  /\ frames[0].id = BaseFrame
  /\ \A i \in Levels : \A j \in Levels : i < j => frames[i].id < frames[j].id
  /\ \A i \in Levels : frames[i].id < frameId
  /\ \A id \in FrameIds : id >= frameId => clauses[id] = Worlds /\ cnfCache[id] = Worlds

\* The solver never holds more than was asserted: an enabled clause of level i
\* and the substitutions kept for level j follow from the assertions up to
\* that level.  Survives interrupts and failed allocations.
NothingInvented ==
  /\ \A i \in Levels : AssertedUpTo(i) \subseteq clauses[frames[i].id]
  /\ \A j \in 0..(internalFrameCount - 1) : AssertedUpTo(j) \subseteq substitutions[j]

\* MainSolver.h: a marked frame means that the stack up to it is unsat, and
\* then every frame above it is marked as well.
UnsatFlagSound ==
  /\ \A i \in Levels : frames[i].unsat => AssertedUpTo(i) = {}
  /\ \A i \in Levels : \A j \in Levels : frames[i].unsat /\ i < j => frames[j].unsat

\* "unsat" is never answered for a satisfiable stack, whatever was
\* interrupted or failed before.
UnsatAnswerSound == answer = "unsat" => Asserted = {}

\* Between calls the solver is stuck in a conflict only while the last level
\* is marked; a search is never started on a stuck solver, so that solve()'s
\* early return is dead code, nor with the conflict frame of an older search.
OkUnlessMarked ==
  /\ call = "idle" /\ ~ok => isLastFrameUnsat
  /\ call = "check" => ok
  /\ ok => conflict_frame = 0

\* The strengthenings that make the properties above inductive.  First, what
\* keeps a solver that is stuck in a conflict away from satisfiable levels:
\* every level it could still be asked about is marked.
StuckLevelsMarked ==
  ~ok => /\ isLastFrameUnsat
         /\ \A i \in Levels : i >= firstNotSimplifiedFrame => frames[i].unsat

\* A level is never rewritten with the equations of a level above it.
SimplifiedInOrder == internalFrameCount <= firstNotSimplifiedFrame + 1

UnsatAnswerMarked == answer = "unsat" => isLastFrameUnsat

\* What an exception in the search leaves behind is the only way to find the
\* trail above decision level 0; a unit waits in conflict only at level 0.
SearchCleared == ~SearchFails => heldFrames = {} /\ heldWorlds = Worlds
PendingConflictAtBase == pendingConflict => clauses[BaseFrame] = {}

\* The flags, the cursor and the ids fit each other, whatever fails.
StackInv ==
  /\ TypeOK
  /\ FrameIdsFresh
  /\ OkUnlessMarked
  /\ StuckLevelsMarked
  /\ SimplifiedInOrder
  /\ UnsatAnswerMarked

\* No mark and no clause is unjustified, as long as no search is abandoned.
UnsatInv ==
  /\ StackInv
  /\ SearchCleared
  /\ PendingConflictAtBase
  /\ NothingInvented
  /\ UnsatFlagSound

\* A level that is not to be simplified again, and is not marked, is in the
\* solver: its clauses and those below say all that was asserted.
SimplifiedLevelsGiven ==
  \A i \in Levels :
    i < firstNotSimplifiedFrame /\ ~frames[i].unsat => EnabledUpTo(i) \subseteq AssertedUpTo(i)

\* A substitution kept for a level is entailed by the clauses up to it, so
\* applying it to later assertions loses nothing.
SubstitutionsGiven ==
  \A j \in 0..(internalFrameCount - 1) :
    ~frames[j].unsat => EnabledUpTo(j) \subseteq substitutions[j]

\* What simplifyFormulas() and the Preprocessor take for done is done: nothing asserted is skipped
\* and nothing substituted away is lost, whatever was pushed, popped and asserted in between.
LevelsGiven == SimplifiedLevelsGiven /\ SubstitutionsGiven

\* What the Cnfizer takes for converted under the id of an unmarked level did
\* reach the clause database.
CacheGiven ==
  \A i \in Levels : ~frames[i].unsat => clauses[frames[i].id] \subseteq cnfCache[frames[i].id]

\* The inductive invariant behind LevelsGiven, when nothing is thrown.
GivenInv ==
  /\ UnsatInv
  /\ CacheGiven
  /\ LevelsGiven

\* Without interrupts a search never finds a conflict it did not look for: no
\* unit is left waiting, and a clause can be missed only below a marked stack.
NothingMissed ==
  /\ ~pendingConflict
  /\ missedConflict => frames[0].unsat
  /\ call = "check" => ~isLastFrameUnsat

\* "sat" is answered with a world that satisfies every assertion.
SatAnswerSound == answer = "sat" => model \in Asserted /\ status = "True"

\* The inductive invariant behind SatAnswerSound.
SatInv ==
  /\ GivenInv
  /\ NothingMissed
  /\ SatAnswerSound

\* MainSolver.h: status is "the status of the last solver call".
StatusOfLastCall ==
  /\ answer = "sat" => status = "True"
  /\ answer = "unsat" => status = "False"

\* CoreSMTSolver.cc, search(): l_True means that an assignment consistent
\* with the clause set was found.
SearchTrueIsConsistent == answer = "sat" => model \in Enabled

\* MainSolver.h: simplifyFormulas() simplifies until all levels are
\* simplified, and skips those that already are.
SkippedLevelsSimplified ==
  call = "check" /\ firstNotSimplifiedFrame >= frameCount => Enabled \subseteq Asserted

\* The refinement: MainSolver is an AssertionStack.
Abstract == INSTANCE AssertionStack
  WITH depth <- frameCount, level <- [i \in Levels |-> frames[i].fla]

ImplementsAssertionStack == Abstract!Spec
=============================================================================
