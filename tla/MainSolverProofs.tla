-------------------------- MODULE MainSolverProofs --------------------------
(***************************************************************************)
(* What holds of MainSolver for every set of worlds, every bound on levels *)
(* and ids, and whatever the switches allow to fail.                       *)
(***************************************************************************)
EXTENDS MainSolver, TLAPS

-----------------------------------------------------------------------------
(***************************************************************************)
(* Types                                                                   *)
(***************************************************************************)

\* The clause database keeps its type whatever giveToSolver() does to it.
LEMMA GiveToSolverType ==
  ASSUME TypeOK, NEW G \in Formula, NEW id \in FrameIds,
         GiveToSolver(G, id) \/ GiveToSolverUnsat(G, id)
  PROVE  /\ cnfCache' \in [FrameIds -> Formula]
         /\ clauses' \in [FrameIds -> Formula]
         /\ ok' \in BOOLEAN
         /\ conflict_frame' \in Nat
         /\ pendingConflict' \in BOOLEAN
         /\ missedConflict' \in BOOLEAN
         /\ heldFrames' \in SUBSET FrameIds
         /\ heldWorlds' \in Formula
<1> USE DEF TypeOK, Formula, satVars, heldVars
<1>1. CASE EmitNothing(G, id)
  BY <1>1 DEF EmitNothing
<1>2. CASE EmitAccepted(G, id)
  BY <1>2 DEF EmitAccepted
<1>3. CASE EmitUnderDecisions(G, id)
  BY <1>3 DEF EmitUnderDecisions
<1>4. CASE EmitDropped(G, id)
  BY <1>4 DEF EmitDropped
<1>5. CASE EmitConflict(G, id)
  BY <1>5 DEF EmitConflict
<1>6. CASE EmitConflictUnderDecisions(G, id)
  BY <1>6 DEF EmitConflictUnderDecisions
<1> QED
  BY <1>1, <1>2, <1>3, <1>4, <1>5, <1>6 DEF GiveToSolver, GiveToSolverUnsat

\* prepareForProcessingFrame() never gives a map to a level that is not there.
LEMMA StoreSubstitutionsType ==
  ASSUME TypeOK, NEW i \in Levels, NEW S \in Formula, StoreSubstitutions(i, S)
  PROVE  /\ internalFrameCount' \in 1..frameCount
         /\ substitutions' \in [0..(internalFrameCount' - 1) -> Formula]
BY DEF TypeOK, StoreSubstitutions, Formula, Levels

\* Rewriting a level and reading equations off it yields formulas.
LEMMA RewritingType ==
  ASSUME TypeOK, NEW i \in Levels, NEW G \in Rewritings(i), NEW S \in Equations(G)
  PROVE  G \in Formula /\ S \in Formula
BY DEF TypeOK, Rewritings, Equations, Formula, Frame, Levels

LEMMA TypeInit == Init => TypeOK
<1> SUFFICES ASSUME Init PROVE TypeOK
  OBVIOUS
<1> USE DEF Init, Formula, FrameIds, BaseFrame
<1>1. Levels = {0} /\ 0..(internalFrameCount - 1) = {0}
  BY DEF Levels
<1>2. frames \in [Levels -> Frame]
  BY <1>1 DEF Frame
<1>3. substitutions \in [0..(internalFrameCount - 1) -> Formula]
  BY <1>1
<1>4. cnfCache \in [FrameIds -> Formula] /\ clauses \in [FrameIds -> Formula]
  OBVIOUS
<1>5. /\ ok \in BOOLEAN /\ pendingConflict \in BOOLEAN /\ missedConflict \in BOOLEAN
      /\ heldFrames \in SUBSET FrameIds /\ heldWorlds \in Formula
  OBVIOUS
<1>6. /\ frameCount \in 1..MaxLevels \cup {1}
      /\ frameId \in Nat
      /\ firstNotSimplifiedFrame \in 0..frameCount
      /\ internalFrameCount \in 1..frameCount
      /\ conflict_frame \in Nat
  OBVIOUS
<1>7. model \in Worlds /\ status \in Status /\ answer \in Answer
  BY DEF Status, Answer
<1> QED
  BY <1>2, <1>3, <1>4, <1>5, <1>6, <1>7 DEF TypeOK

\* Marking frames leaves them frames.
LEMMA RememberUnsatFrameType ==
  ASSUME TypeOK, NEW k \in Nat
  PROVE  RememberUnsatFrame(frames, k) \in [Levels -> Frame]
<1>1. ASSUME NEW i \in Levels
      PROVE  [frames[i] EXCEPT !.unsat = TRUE] \in Frame
  BY DEF TypeOK, Frame
<1> QED
  BY <1>1 DEF TypeOK, RememberUnsatFrame

LEMMA TypePush == ASSUME TypeOK, Push PROVE TypeOK'
<1> USE DEF TypeOK, Push, Levels
<1>1. NewFrame \in Frame
  <2>1. frameId \in FrameIds
    BY BoundsAssumption DEF FrameIds
  <2>2. isLastFrameUnsat \in BOOLEAN
    BY DEF isLastFrameUnsat, LastLevel, Frame
  <2> QED
    BY <2>1, <2>2 DEF NewFrame, Frame, Formula
<1>2. frames' \in [Levels' -> Frame]
  BY <1>1
<1>3. /\ frameCount' \in 1..MaxLevels \cup {1}
      /\ frameId' \in Nat
      /\ firstNotSimplifiedFrame' \in 0..frameCount'
      /\ internalFrameCount' \in 1..frameCount'
  BY BoundsAssumption DEF NextFrameId, prepVars
<1> QED
  BY <1>2, <1>3 DEF prepVars, satVars, heldVars, Answer

LEMMA TypePop == ASSUME TypeOK, Pop PROVE TypeOK'
<1> USE DEF TypeOK, Pop, Levels
<1>1. frames' \in [Levels' -> Frame]
  OBVIOUS
<1>2. /\ frameCount' \in 1..MaxLevels \cup {1}
      /\ firstNotSimplifiedFrame' \in 0..frameCount'
      /\ internalFrameCount' \in 1..frameCount'
      /\ internalFrameCount' <= internalFrameCount
  BY BoundsAssumption DEF CursorAfterPop, SubstitutionLevelsAfterPop, Min2
<1>3. substitutions' \in [0..(internalFrameCount' - 1) -> Formula]
  BY <1>2
<1>4. conflict_frame' \in Nat /\ ok' \in BOOLEAN
  <2>1. CASE frames[frameCount - 2].unsat
    BY <2>1 DEF RestoreOK
  <2>2. CASE ~frames[frameCount - 2].unsat
    BY <2>2 DEF RestoreOK
  <2> QED
    BY <2>1, <2>2
<1> QED
  BY <1>1, <1>2, <1>3, <1>4 DEF heldVars, Answer

LEMMA TypeInsert == ASSUME TypeOK, NEW f \in Formula, InsertFormula(f) PROVE TypeOK'
<1> USE DEF TypeOK, InsertFormula, Levels
<1>1. LastLevel \in Levels
  BY DEF LastLevel
<1>2. [frames[LastLevel] EXCEPT !.fla = @ \cap f] \in Frame
  BY <1>1 DEF Frame, Formula
<1>3. frames' \in [Levels' -> Frame]
  BY <1>1, <1>2
<1>4. firstNotSimplifiedFrame' \in 0..frameCount'
  BY DEF CursorAfterInsert, Min2, LastLevel
<1> QED
  BY <1>3, <1>4 DEF satVars, heldVars, Answer

\* The level the loop of simplifyFormulas() is at.
LEMMA SimplifyingType ==
  ASSUME TypeOK, Simplifying
  PROVE  /\ firstNotSimplifiedFrame \in Levels
         /\ firstNotSimplifiedFrame + 1 \in 0..frameCount
         /\ frames[firstNotSimplifiedFrame].id \in FrameIds
BY DEF TypeOK, Simplifying, Levels, Frame

LEMMA TypeSimplifyFrame == ASSUME TypeOK, SimplifyFrame PROVE TypeOK'
<1>0. PICK G \in Rewritings(firstNotSimplifiedFrame) : \E S \in Equations(G) :
        /\ StoreSubstitutions(firstNotSimplifiedFrame, S)
        /\ GiveToSolver(G, frames[firstNotSimplifiedFrame].id)
  BY DEF SimplifyFrame
<1>1. PICK S \in Equations(G) :
        /\ StoreSubstitutions(firstNotSimplifiedFrame, S)
        /\ GiveToSolver(G, frames[firstNotSimplifiedFrame].id)
  BY <1>0
<1>2. Simplifying
  BY DEF SimplifyFrame
<1>3. G \in Formula /\ S \in Formula
  BY <1>1, <1>2, SimplifyingType, RewritingType
<1>4. /\ internalFrameCount' \in 1..frameCount
      /\ substitutions' \in [0..(internalFrameCount' - 1) -> Formula]
  BY <1>1, <1>2, <1>3, SimplifyingType, StoreSubstitutionsType
<1>5. firstNotSimplifiedFrame' \in 0..frameCount
  BY <1>2, SimplifyingType DEF SimplifyFrame
<1> QED
  BY <1>1, <1>2, <1>3, <1>4, <1>5, SimplifyingType, GiveToSolverType
  DEF TypeOK, SimplifyFrame, stackVars, Levels

LEMMA TypeSimplifyFrameUnsat == ASSUME TypeOK, SimplifyFrameUnsat PROVE TypeOK'
<1>0. PICK G \in Rewritings(firstNotSimplifiedFrame) : \E S \in Equations(G) :
        /\ StoreSubstitutions(firstNotSimplifiedFrame, S)
        /\ \/ GiveToSolver(G, frames[firstNotSimplifiedFrame].id)
           \/ GiveToSolverUnsat(G, frames[firstNotSimplifiedFrame].id)
  BY DEF SimplifyFrameUnsat, GiveToSolver
<1>1. PICK S \in Equations(G) :
        /\ StoreSubstitutions(firstNotSimplifiedFrame, S)
        /\ \/ GiveToSolver(G, frames[firstNotSimplifiedFrame].id)
           \/ GiveToSolverUnsat(G, frames[firstNotSimplifiedFrame].id)
  BY <1>0
<1>2. Simplifying
  BY DEF SimplifyFrameUnsat
<1>3. G \in Formula /\ S \in Formula
  BY <1>1, <1>2, SimplifyingType, RewritingType
<1>4. /\ internalFrameCount' \in 1..frameCount
      /\ substitutions' \in [0..(internalFrameCount' - 1) -> Formula]
  BY <1>1, <1>2, <1>3, SimplifyingType, StoreSubstitutionsType
<1>5. firstNotSimplifiedFrame' \in 0..frameCount
  BY <1>2, SimplifyingType DEF SimplifyFrameUnsat
<1>6. frames' \in [Levels -> Frame]
  <2>1. firstNotSimplifiedFrame \in Nat
    BY DEF TypeOK
  <2>2. frames' = RememberUnsatFrame(frames, firstNotSimplifiedFrame)
    BY DEF SimplifyFrameUnsat
  <2> QED
    BY <2>1, <2>2, RememberUnsatFrameType
<1>7. status' \in Status /\ answer' \in Answer
  BY DEF SimplifyFrameUnsat, Status, Answer
<1> QED
  BY <1>1, <1>2, <1>3, <1>4, <1>5, <1>6, <1>7, SimplifyingType, GiveToSolverType
  DEF TypeOK, SimplifyFrameUnsat, Levels

\* An exception leaves a formula as the substitutions of the level at the cursor.
LEMMA ThrowsStoresFormula ==
  ASSUME TypeOK, SimplifyFrameThrows
  PROVE  \E S \in Formula : StoreSubstitutions(firstNotSimplifiedFrame, S)
<1> DEFINE i == firstNotSimplifiedFrame
<1>1. i \in Levels
  BY SimplifyingType DEF SimplifyFrameThrows
<1>2. CASE StoreSubstitutions(i, IF i < internalFrameCount THEN substitutions[i] ELSE Worlds)
  <2>1. (IF i < internalFrameCount THEN substitutions[i] ELSE Worlds) \in Formula
    BY <1>1 DEF TypeOK, Formula, Levels
  <2> QED
    BY <1>2, <2>1
<1>3. ASSUME NEW G \in Rewritings(i), NEW S \in Equations(G), StoreSubstitutions(i, S)
      PROVE  \E T \in Formula : StoreSubstitutions(i, T)
  BY <1>1, <1>3, RewritingType
<1> QED
  BY <1>2, <1>3 DEF SimplifyFrameThrows

LEMMA TypeSimplifyFrameThrows == ASSUME TypeOK, SimplifyFrameThrows PROVE TypeOK'
<1> DEFINE i == firstNotSimplifiedFrame
           id == frames[i].id
<1>1. Simplifying
  BY DEF SimplifyFrameThrows
<1>2. i \in Levels
  BY <1>1, SimplifyingType
<1>3. \E S \in Formula : StoreSubstitutions(i, S)
  BY ThrowsStoresFormula
<1>4. /\ internalFrameCount' \in 1..frameCount
      /\ substitutions' \in [0..(internalFrameCount' - 1) -> Formula]
  BY <1>2, <1>3, StoreSubstitutionsType
<1>5. cnfCache' \in [FrameIds -> Formula] /\ clauses' \in [FrameIds -> Formula]
  <2>1. CASE UNCHANGED <<cnfCache, clauses>>
    BY <2>1 DEF TypeOK
  <2>2. ASSUME NEW G \in Rewritings(i), NEW part \in Formula,
               cnfCache' = [cnfCache EXCEPT ![id] = @ \cap G],
               clauses' = [clauses EXCEPT ![id] = IF ok THEN @ \cap part ELSE @]
        PROVE  cnfCache' \in [FrameIds -> Formula] /\ clauses' \in [FrameIds -> Formula]
    <3>1. cnfCache' \in [FrameIds -> Formula]
      BY <2>2 DEF TypeOK, Formula
    <3>2. clauses' \in [FrameIds -> Formula]
      <4>1. CASE ok
        BY <2>2, <4>1 DEF TypeOK, Formula
      <4>2. CASE ~ok
        BY <2>2, <4>2 DEF TypeOK, Formula
      <4> QED
        BY <4>1, <4>2
    <3> QED
      BY <3>1, <3>2
  <2> QED
    BY <2>1, <2>2 DEF SimplifyFrameThrows
<1>6. firstNotSimplifiedFrame' \in 0..frameCount
  BY <1>1, SimplifyingType DEF SimplifyFrameThrows
<1> QED
  BY <1>4, <1>5, <1>6 DEF TypeOK, SimplifyFrameThrows, stackVars, heldVars, Answer, Levels

LEMMA TypeSolveSat == ASSUME TypeOK, SolveSat PROVE TypeOK'
<1>1. model' \in Worlds
  BY DEF SolveSat
<1>2. heldFrames' \in SUBSET FrameIds /\ heldWorlds' \in Formula
  BY DEF SolveSat, ClearSearch, Formula
<1> QED
  BY <1>1, <1>2 DEF TypeOK, SolveSat, stackVars, prepVars, Status, Answer, Levels

LEMMA TypeSolveUnsat == ASSUME TypeOK, SolveUnsat PROVE TypeOK'
<1>1. PICK k \in Levels : /\ conflict_frame' = IF k = 0 THEN conflict_frame ELSE k
                         /\ frames' = RememberUnsatFrame(frames, conflict_frame')
  BY DEF SolveUnsat
<1>2. conflict_frame' \in Nat
  BY <1>1 DEF TypeOK, Levels
<1>3. frames' \in [Levels -> Frame]
  BY <1>1, <1>2, RememberUnsatFrameType
<1>4. heldFrames' \in SUBSET FrameIds /\ heldWorlds' \in Formula
  BY DEF SolveUnsat, ClearSearch, Formula
<1>5. ok' \in BOOLEAN /\ pendingConflict' \in BOOLEAN
  BY DEF SolveUnsat
<1> QED
  BY <1>2, <1>3, <1>4, <1>5 DEF TypeOK, SolveUnsat, prepVars, Status, Answer, Levels

LEMMA TypeSolveInterrupted == ASSUME TypeOK, SolveInterrupted PROVE TypeOK'
<1>1. heldFrames' \in SUBSET FrameIds /\ heldWorlds' \in Formula
  BY DEF SolveInterrupted, ClearSearch, Formula
<1>2. pendingConflict' \in BOOLEAN
  BY DEF SolveInterrupted, TypeOK
<1> QED
  BY <1>1, <1>2 DEF TypeOK, SolveInterrupted, stackVars, prepVars, Status, Answer, Levels

LEMMA TypeSolveThrows == ASSUME TypeOK, SolveThrows PROVE TypeOK'
<1>1. {frames[i].id : i \in Levels} \in SUBSET FrameIds
  BY DEF TypeOK, Frame
<1>2. /\ heldFrames' \in SUBSET FrameIds
      /\ heldWorlds' \in Formula
      /\ status' \in Status
      /\ model' \in Worlds
  BY <1>1 DEF SolveThrows, TypeOK, heldVars, Formula, Status
<1> QED
  BY <1>2 DEF TypeOK, SolveThrows, stackVars, prepVars, Answer, Levels

LEMMA TypeNext == ASSUME TypeOK, [Next]_vars PROVE TypeOK'
<1>1. CASE Push
  BY <1>1, TypePush
<1>2. CASE Pop
  BY <1>2, TypePop
<1>3. ASSUME NEW f \in Formula, InsertFormula(f)
      PROVE  TypeOK'
  BY <1>3, TypeInsert
<1>4. CASE CheckKnownUnsat
  BY <1>4 DEF CheckKnownUnsat, TypeOK, stackVars, prepVars, satVars, heldVars, Answer, Levels
<1>5. ASSUME NEW caller \in {"simplify", "check"}, BeginSimplify(caller)
      PROVE  TypeOK'
  BY <1>5 DEF BeginSimplify, TypeOK, stackVars, prepVars, satVars, heldVars, Answer, Status, Levels
<1>6. CASE SimplifyFrame
  BY <1>6, TypeSimplifyFrame
<1>7. CASE SimplifyFrameUnsat
  BY <1>7, TypeSimplifyFrameUnsat
<1>8. CASE SimplifyFrameThrows
  BY <1>8, TypeSimplifyFrameThrows
<1>9. CASE EndSimplify
  BY <1>9 DEF EndSimplify, TypeOK, stackVars, prepVars, satVars, heldVars, Levels
<1>10. CASE SolveSat
  BY <1>10, TypeSolveSat
<1>11. CASE SolveUnsat
  BY <1>11, TypeSolveUnsat
<1>12. CASE SolveInterrupted
  BY <1>12, TypeSolveInterrupted
<1>13. CASE SolveThrows
  BY <1>13, TypeSolveThrows
<1>14. CASE UNCHANGED vars
  BY <1>14 DEF vars, TypeOK, Levels
<1> QED
  BY <1>1, <1>2, <1>3, <1>4, <1>5, <1>6, <1>7, <1>8, <1>9, <1>10, <1>11, <1>12,
     <1>13, <1>14 DEF Next

\* Every variable keeps its type: in particular the cursor of simplifyFormulas()
\* and the number of substitution maps never pass the top of the stack.
THEOREM TypeCorrect == Spec => []TypeOK
<1>1. Init => TypeOK
  BY TypeInit
<1>2. TypeOK /\ [Next]_vars => TypeOK'
  BY TypeNext
<1> QED
  BY <1>1, <1>2, PTL DEF Spec
-----------------------------------------------------------------------------
(***************************************************************************)
(* The flags, the cursor and the ids, whatever fails                       *)
(***************************************************************************)

\* giveToSolver() touches nothing said under another frame's id.
LEMMA GiveToSolverLocal ==
  ASSUME TypeOK, NEW G \in Formula, NEW id \in FrameIds,
         GiveToSolver(G, id) \/ GiveToSolverUnsat(G, id),
         NEW j \in FrameIds, j # id, j # BaseFrame
  PROVE  clauses'[j] = clauses[j] /\ cnfCache'[j] = cnfCache[j]
<1> USE DEF TypeOK, satVars, heldVars
<1>1. CASE EmitNothing(G, id)
  BY <1>1 DEF EmitNothing
<1>2. CASE EmitAccepted(G, id)
  BY <1>2 DEF EmitAccepted
<1>3. CASE EmitUnderDecisions(G, id)
  BY <1>3 DEF EmitUnderDecisions
<1>4. CASE EmitDropped(G, id)
  BY <1>4 DEF EmitDropped
<1>5. CASE EmitConflict(G, id)
  BY <1>5 DEF EmitConflict
<1>6. CASE EmitConflictUnderDecisions(G, id)
  BY <1>6 DEF EmitConflictUnderDecisions
<1> QED
  BY <1>1, <1>2, <1>3, <1>4, <1>5, <1>6 DEF GiveToSolver, GiveToSolverUnsat

\* giveToSolver() leaves "ok" alone when it returns s_Undef, and only then.
LEMMA GiveToSolverOk ==
  ASSUME TypeOK, NEW G \in Formula, NEW id \in FrameIds
  PROVE  /\ GiveToSolver(G, id) => ok' = ok /\ conflict_frame' = conflict_frame
         /\ GiveToSolverUnsat(G, id) => ok' = FALSE /\ conflict_frame' = conflict_frame
<1>1. EmitNothing(G, id) => ok' = ok /\ conflict_frame' = conflict_frame
  BY DEF EmitNothing, satVars
<1>2. EmitAccepted(G, id) => ok' = ok /\ conflict_frame' = conflict_frame
  BY DEF EmitAccepted
<1>3. EmitUnderDecisions(G, id) => ok' = ok /\ conflict_frame' = conflict_frame
  BY DEF EmitUnderDecisions
<1>4. EmitDropped(G, id) => ok' = FALSE /\ conflict_frame' = conflict_frame
  BY DEF EmitDropped, satVars, TypeOK
<1>5. EmitConflict(G, id) => ok' = FALSE /\ conflict_frame' = conflict_frame
  BY DEF EmitConflict
<1>6. EmitConflictUnderDecisions(G, id) => ok' = FALSE /\ conflict_frame' = conflict_frame
  BY DEF EmitConflictUnderDecisions
<1> QED
  BY <1>1, <1>2, <1>3, <1>4, <1>5, <1>6 DEF GiveToSolver, GiveToSolverUnsat

\* Marking changes the marks of level k and above and nothing else.
LEMMA RememberUnsatFrameMarks ==
  ASSUME TypeOK, NEW k \in Nat, NEW i \in Levels
  PROVE  /\ RememberUnsatFrame(frames, k)[i].id = frames[i].id
         /\ RememberUnsatFrame(frames, k)[i].fla = frames[i].fla
         /\ RememberUnsatFrame(frames, k)[i].unsat <=> frames[i].unsat \/ i >= k
<1>1. frames[i] \in Frame /\ i \in DOMAIN frames
  BY DEF TypeOK
<1>2. RememberUnsatFrame(frames, k)[i]
        = IF i >= k THEN [frames[i] EXCEPT !.unsat = TRUE] ELSE frames[i]
  BY <1>1 DEF RememberUnsatFrame
<1>3. CASE i >= k
  <2>1. /\ [frames[i] EXCEPT !.unsat = TRUE].id = frames[i].id
        /\ [frames[i] EXCEPT !.unsat = TRUE].fla = frames[i].fla
        /\ [frames[i] EXCEPT !.unsat = TRUE].unsat = TRUE
    BY <1>1 DEF Frame
  <2> QED
    BY <1>2, <1>3, <2>1
<1>4. CASE ~(i >= k)
  BY <1>2, <1>4
<1> QED
  BY <1>3, <1>4

\* The last level is a level, and so is the one at the cursor.
LEMMA LastLevelIsLevel == ASSUME TypeOK PROVE LastLevel \in Levels
BY DEF TypeOK, LastLevel, Levels

\* One step of the loop that gives the level at the cursor to the solver.
LEMMA SimplifyFrameStep ==
  ASSUME TypeOK, SimplifyFrame \/ SimplifyFrameUnsat
  PROVE  \E G \in Formula : \E S \in Formula :
           /\ G \in Rewritings(firstNotSimplifiedFrame)
           /\ S \in Equations(G)
           /\ StoreSubstitutions(firstNotSimplifiedFrame, S)
           /\ \/ GiveToSolver(G, frames[firstNotSimplifiedFrame].id)
              \/ GiveToSolverUnsat(G, frames[firstNotSimplifiedFrame].id)
<1>1. Simplifying
  BY DEF SimplifyFrame, SimplifyFrameUnsat
<1>2. PICK G \in Rewritings(firstNotSimplifiedFrame) : \E S \in Equations(G) :
        /\ StoreSubstitutions(firstNotSimplifiedFrame, S)
        /\ \/ GiveToSolver(G, frames[firstNotSimplifiedFrame].id)
           \/ GiveToSolverUnsat(G, frames[firstNotSimplifiedFrame].id)
  BY DEF SimplifyFrame, SimplifyFrameUnsat, GiveToSolver
<1>3. PICK S \in Equations(G) :
        /\ StoreSubstitutions(firstNotSimplifiedFrame, S)
        /\ \/ GiveToSolver(G, frames[firstNotSimplifiedFrame].id)
           \/ GiveToSolverUnsat(G, frames[firstNotSimplifiedFrame].id)
  BY <1>2
<1> QED
  BY <1>1, <1>3, SimplifyingType, RewritingType

\* A step that leaves the ids on the stack alone, and says nothing under an id
\* still to be given out, keeps the ids fresh.
LEMMA FreshUnlessSaid ==
  ASSUME TypeOK, FrameIdsFresh, frameCount' = frameCount, frameId' = frameId,
         \A i \in Levels : frames'[i].id = frames[i].id,
         \A j \in FrameIds : j >= frameId =>
            clauses'[j] = clauses[j] /\ cnfCache'[j] = cnfCache[j]
  PROVE  FrameIdsFresh'
<1>1. Levels' = Levels /\ 0 \in Levels
  BY DEF Levels, TypeOK
<1> QED
  BY <1>1 DEF FrameIdsFresh

\* AssertionStack::push() hands out an id that was never used.
LEMMA FreshPush == ASSUME TypeOK, FrameIdsFresh, Push PROVE FrameIdsFresh'
<1> USE DEF TypeOK, Levels
<1>1. Levels' = Levels \cup {frameCount} /\ frameCount \notin Levels /\ 0 \in Levels
  BY DEF Push
<1>2. \A i \in Levels : frames'[i] = frames[i]
  BY DEF Push
<1>3. frames'[frameCount].id = frameId
  BY DEF Push, NewFrame
<1>4. \A i \in Levels : i < frameCount
  OBVIOUS
<1>5. ASSUME NEW i \in Levels', NEW j \in Levels', i < j
      PROVE  frames'[i].id < frames'[j].id
  <2>1. i \in Levels
    BY <1>1, <1>4, <1>5
  <2>2. CASE j \in Levels
    BY <1>2, <1>5, <2>1, <2>2 DEF FrameIdsFresh
  <2>3. CASE j = frameCount
    BY <1>2, <1>3, <2>1, <2>3 DEF FrameIdsFresh
  <2> QED
    BY <1>1, <2>2, <2>3
<1>6. \A i \in Levels : frames[i].id \in Nat
  BY DEF Frame, FrameIds, BaseFrame
<1>7. frameId' = frameId + 1
  BY DEF Push, NextFrameId
<1>8. \A i \in Levels' : frames'[i].id < frameId'
  BY SMTT(30), <1>1, <1>2, <1>3, <1>6, <1>7 DEF FrameIdsFresh
<1>9. \A j \in FrameIds : j >= frameId' => clauses'[j] = Worlds /\ cnfCache'[j] = Worlds
  BY <1>7 DEF FrameIdsFresh, Push, satVars, prepVars, FrameIds, BaseFrame
<1> QED
  BY <1>1, <1>2, <1>5, <1>8, <1>9 DEF FrameIdsFresh

LEMMA FreshPop == ASSUME TypeOK, FrameIdsFresh, Pop PROVE FrameIdsFresh'
<1>1. Levels' \subseteq Levels /\ 0 \in Levels'
  BY DEF TypeOK, Levels, Pop
<1>2. \A i \in Levels' : frames'[i] = frames[i]
  BY DEF TypeOK, Levels, Pop
<1> QED
  BY <1>1, <1>2 DEF FrameIdsFresh, Pop

LEMMA FreshSimplify ==
  ASSUME TypeOK, FrameIdsFresh, SimplifyFrame \/ SimplifyFrameUnsat
  PROVE  FrameIdsFresh'
<1> DEFINE c == firstNotSimplifiedFrame
           id == frames[c].id
<1>1. Simplifying /\ c \in Levels /\ id \in FrameIds
  BY SimplifyingType DEF SimplifyFrame, SimplifyFrameUnsat
<1>2. frameCount' = frameCount /\ frameId' = frameId
  BY DEF SimplifyFrame, SimplifyFrameUnsat, stackVars
<1>3. \A i \in Levels : frames'[i].id = frames[i].id
  <2>1. CASE SimplifyFrame
    BY <2>1 DEF SimplifyFrame, stackVars
  <2>2. CASE SimplifyFrameUnsat
    <3>1. frames' = RememberUnsatFrame(frames, c) /\ c \in Nat
      BY <2>2 DEF SimplifyFrameUnsat, TypeOK
    <3> QED
      BY <3>1, RememberUnsatFrameMarks
  <2> QED
    BY <2>1, <2>2
<1>4. PICK G \in Formula : \E S \in Formula :
        GiveToSolver(G, id) \/ GiveToSolverUnsat(G, id)
  BY SimplifyFrameStep
<1>5. ASSUME NEW j \in FrameIds, j >= frameId
      PROVE  clauses'[j] = clauses[j] /\ cnfCache'[j] = cnfCache[j]
  <2>1. id < frameId /\ frames[0].id = BaseFrame /\ 0 \in Levels /\ BaseFrame < frameId
    BY <1>1 DEF FrameIdsFresh, TypeOK, Levels
  <2>2. j # id /\ j # BaseFrame
    BY <1>1, <1>5, <2>1 DEF FrameIds, BaseFrame, TypeOK
  <2> QED
    BY <1>1, <1>4, <2>2, GiveToSolverLocal
<1> QED
  BY <1>2, <1>3, <1>5, FreshUnlessSaid

LEMMA FreshSimplifyThrows ==
  ASSUME TypeOK, FrameIdsFresh, SimplifyFrameThrows
  PROVE  FrameIdsFresh'
<1> DEFINE c == firstNotSimplifiedFrame
           id == frames[c].id
<1>1. Simplifying /\ c \in Levels /\ id \in FrameIds
  BY SimplifyingType DEF SimplifyFrameThrows
<1>2. frameCount' = frameCount /\ frameId' = frameId /\ frames' = frames
  BY DEF SimplifyFrameThrows, stackVars
<1>3. ASSUME NEW j \in FrameIds, j # id
      PROVE  clauses'[j] = clauses[j] /\ cnfCache'[j] = cnfCache[j]
  BY <1>3 DEF SimplifyFrameThrows, TypeOK
<1>4. id < frameId
  BY <1>1 DEF FrameIdsFresh
<1>5. \A j \in FrameIds : j >= frameId => j # id
  BY <1>1, <1>4 DEF FrameIds, BaseFrame, TypeOK
<1> QED
  BY <1>2, <1>3, <1>5, FreshUnlessSaid

LEMMA FreshNext == ASSUME TypeOK, FrameIdsFresh, [Next]_vars PROVE FrameIdsFresh'
<1>1. CASE Push
  BY <1>1, FreshPush
<1>2. CASE Pop
  BY <1>2, FreshPop
<1>3. ASSUME NEW f \in Formula, InsertFormula(f)
      PROVE  FrameIdsFresh'
  <2>1. \A i \in Levels : frames'[i].id = frames[i].id
    BY <1>3, LastLevelIsLevel DEF InsertFormula, TypeOK, Frame
  <2> QED
    BY <1>3, <2>1, FreshUnlessSaid DEF InsertFormula, satVars
<1>4. CASE CheckKnownUnsat
  BY <1>4, FreshUnlessSaid DEF CheckKnownUnsat, stackVars, prepVars, satVars
<1>5. ASSUME NEW caller \in {"simplify", "check"}, BeginSimplify(caller)
      PROVE  FrameIdsFresh'
  BY <1>5, FreshUnlessSaid DEF BeginSimplify, stackVars, prepVars, satVars
<1>6. CASE SimplifyFrame \/ SimplifyFrameUnsat
  BY <1>6, FreshSimplify
<1>7. CASE SimplifyFrameThrows
  BY <1>7, FreshSimplifyThrows
<1>8. CASE EndSimplify
  BY <1>8, FreshUnlessSaid DEF EndSimplify, stackVars, prepVars, satVars
<1>9. CASE SolveSat
  BY <1>9, FreshUnlessSaid DEF SolveSat, stackVars, prepVars
<1>10. CASE SolveUnsat
  <2>1. PICK k \in Nat : frames' = RememberUnsatFrame(frames, k)
    <3>1. \E k \in Levels : /\ conflict_frame' = IF k = 0 THEN conflict_frame ELSE k
                           /\ frames' = RememberUnsatFrame(frames, conflict_frame')
      BY <1>10 DEF SolveUnsat
    <3>2. conflict_frame' \in Nat
      BY <3>1 DEF TypeOK, Levels
    <3> QED
      BY <3>1, <3>2
  <2> QED
    BY <1>10, <2>1, RememberUnsatFrameMarks, FreshUnlessSaid DEF SolveUnsat, prepVars
<1>11. CASE SolveInterrupted
  BY <1>11, FreshUnlessSaid DEF SolveInterrupted, stackVars, prepVars
<1>12. CASE SolveThrows
  BY <1>12, FreshUnlessSaid DEF SolveThrows, stackVars, prepVars
<1>13. CASE UNCHANGED vars
  BY <1>13, FreshUnlessSaid DEF vars
<1> QED
  BY <1>1, <1>2, <1>3, <1>4, <1>5, <1>6, <1>7, <1>8, <1>9, <1>10, <1>11, <1>12,
     <1>13 DEF Next

\* What StackInv says beyond types and ids.
FlagsInv == OkUnlessMarked /\ StuckLevelsMarked /\ SimplifiedInOrder /\ UnsatAnswerMarked

\* A step that moves neither the stack, nor the marks, nor the cursor.
LEMMA FlagsUnchanged ==
  ASSUME TypeOK, FlagsInv,
         UNCHANGED <<frameCount, frames, firstNotSimplifiedFrame, internalFrameCount,
                     ok, conflict_frame>>,
         call' = "check" => call = "check" \/ ~isLastFrameUnsat,
         answer' = "unsat" => isLastFrameUnsat
  PROVE  FlagsInv'
<1>1. Levels' = Levels /\ (isLastFrameUnsat' <=> isLastFrameUnsat)
  BY DEF Levels, isLastFrameUnsat, LastLevel
<1>2. ~ok => isLastFrameUnsat
  BY DEF FlagsInv, StuckLevelsMarked
<1>3. OkUnlessMarked'
  BY <1>1, <1>2 DEF FlagsInv, OkUnlessMarked
<1>4. StuckLevelsMarked' /\ SimplifiedInOrder'
  BY <1>1 DEF FlagsInv, StuckLevelsMarked, SimplifiedInOrder
<1>5. UnsatAnswerMarked'
  BY <1>1 DEF UnsatAnswerMarked
<1> QED
  BY <1>3, <1>4, <1>5 DEF FlagsInv

\* push() carries the mark of the last level upwards.
LEMMA FlagsPush == ASSUME TypeOK, FlagsInv, Push PROVE FlagsInv'
<1>1. /\ Levels' = Levels \cup {frameCount}
      /\ \A i \in Levels : frames'[i] = frames[i]
  BY DEF TypeOK, Levels, Push
<1>2. frames'[frameCount].unsat <=> isLastFrameUnsat
  BY DEF TypeOK, Levels, Push, NewFrame
<1>3. isLastFrameUnsat' <=> isLastFrameUnsat
  <2>1. LastLevel' = frameCount
    BY DEF TypeOK, LastLevel, Push
  <2> QED
    BY <1>2, <2>1 DEF isLastFrameUnsat
<1>4. /\ UNCHANGED <<ok, conflict_frame, call, firstNotSimplifiedFrame, internalFrameCount>>
      /\ answer' = "none"
  BY DEF Push, satVars, prepVars
<1>5. OkUnlessMarked'
  BY <1>3, <1>4 DEF FlagsInv, OkUnlessMarked
<1>6. StuckLevelsMarked'
  BY <1>1, <1>2, <1>3, <1>4 DEF FlagsInv, StuckLevelsMarked
<1> QED
  BY <1>4, <1>5, <1>6 DEF FlagsInv, SimplifiedInOrder, UnsatAnswerMarked

\* pop() restores "ok" exactly when the level below is not marked.
LEMMA FlagsPop == ASSUME TypeOK, FlagsInv, Pop PROVE FlagsInv'
<1>1. /\ Levels' = 0..(frameCount - 2) /\ Levels' \subseteq Levels
      /\ \A i \in Levels' : frames'[i] = frames[i]
      /\ LastLevel' = frameCount - 2
      /\ frameCount - 2 \in Levels'
  BY DEF TypeOK, Levels, LastLevel, Pop
<1>2. isLastFrameUnsat' <=> frames[frameCount - 2].unsat
  BY <1>1 DEF isLastFrameUnsat
<1>3. call' = call /\ call = "idle" /\ answer' = "none"
  BY DEF Pop
<1>4. SimplifiedInOrder'
  BY DEF TypeOK, FlagsInv, SimplifiedInOrder, Pop, CursorAfterPop,
         SubstitutionLevelsAfterPop, Min2
<1>5. CASE ~frames[frameCount - 2].unsat
  <2>1. ok' = TRUE /\ conflict_frame' = 0
    BY <1>5 DEF Pop, RestoreOK
  <2> QED
    BY <1>3, <1>4, <2>1 DEF FlagsInv, OkUnlessMarked, StuckLevelsMarked, UnsatAnswerMarked
<1>6. CASE frames[frameCount - 2].unsat
  <2>1. ok' = ok /\ conflict_frame' = conflict_frame
    BY <1>6 DEF Pop, RestoreOK
  <2>2. isLastFrameUnsat'
    BY <1>2, <1>6
  <2>3. OkUnlessMarked'
    BY <1>3, <2>1, <2>2 DEF FlagsInv, OkUnlessMarked
  <2>4. \A i \in Levels' : i >= firstNotSimplifiedFrame' => i >= firstNotSimplifiedFrame
    BY <1>1 DEF TypeOK, Pop, CursorAfterPop, Min2
  <2>5. StuckLevelsMarked'
    BY <1>1, <2>1, <2>2, <2>4 DEF FlagsInv, StuckLevelsMarked
  <2> QED
    BY <1>3, <1>4, <2>3, <2>5 DEF FlagsInv, UnsatAnswerMarked
<1> QED
  BY <1>5, <1>6

\* insertFormula() moves the cursor to the last level, which is marked if the
\* solver is stuck.
LEMMA FlagsInsert ==
  ASSUME TypeOK, FlagsInv, NEW f \in Formula, InsertFormula(f)
  PROVE  FlagsInv'
<1>1. Levels' = Levels /\ LastLevel' = LastLevel /\ LastLevel \in Levels
  BY LastLevelIsLevel DEF InsertFormula, Levels, LastLevel
<1>2. \A i \in Levels : frames'[i].unsat <=> frames[i].unsat
  BY <1>1 DEF InsertFormula, TypeOK, Frame
<1>3. isLastFrameUnsat' <=> isLastFrameUnsat
  BY <1>1, <1>2 DEF isLastFrameUnsat
<1>4. UNCHANGED <<ok, conflict_frame, call, frameCount, internalFrameCount>> /\ answer' = "none"
  BY DEF InsertFormula, satVars
<1>5. OkUnlessMarked'
  BY <1>3, <1>4 DEF FlagsInv, OkUnlessMarked
<1>6. \A i \in Levels : i >= firstNotSimplifiedFrame' => i >= firstNotSimplifiedFrame \/ i = LastLevel
  BY DEF TypeOK, InsertFormula, CursorAfterInsert, Min2, Levels, LastLevel
<1>7. StuckLevelsMarked'
  BY <1>1, <1>2, <1>3, <1>4, <1>6 DEF FlagsInv, StuckLevelsMarked, isLastFrameUnsat
<1>8. SimplifiedInOrder'
  BY <1>4 DEF TypeOK, FlagsInv, SimplifiedInOrder, InsertFormula, CursorAfterInsert, Min2, LastLevel
<1> QED
  BY <1>4, <1>5, <1>7, <1>8 DEF FlagsInv, UnsatAnswerMarked

\* After level k and those above are marked, the last level is marked.
LEMMA MarkedToTheTop ==
  ASSUME TypeOK, NEW k \in Levels, frameCount' = frameCount,
         frames' = RememberUnsatFrame(frames, k)
  PROVE  isLastFrameUnsat' /\ \A i \in Levels' : i >= k => frames'[i].unsat
<1>1. Levels' = Levels /\ LastLevel' = LastLevel /\ LastLevel \in Levels /\ LastLevel >= k
  BY LastLevelIsLevel DEF Levels, LastLevel, TypeOK
<1>2. k \in Nat
  BY DEF Levels, TypeOK
<1> QED
  BY <1>1, <1>2, RememberUnsatFrameMarks DEF isLastFrameUnsat

\* A level given to the solver moves the cursor; a level refused is marked.
LEMMA FlagsSimplify ==
  ASSUME TypeOK, FlagsInv, SimplifyFrame \/ SimplifyFrameUnsat
  PROVE  FlagsInv'
<1> DEFINE c == firstNotSimplifiedFrame
           id == frames[c].id
<1>1. Simplifying /\ c \in Levels /\ id \in FrameIds
  BY SimplifyingType DEF SimplifyFrame, SimplifyFrameUnsat
<1>2. PICK G \in Formula, S \in Formula :
        /\ StoreSubstitutions(c, S)
        /\ GiveToSolver(G, id) \/ GiveToSolverUnsat(G, id)
  BY SimplifyFrameStep
<1>3. SimplifiedInOrder'
  BY <1>2 DEF SimplifyFrame, SimplifyFrameUnsat, StoreSubstitutions, TypeOK, FlagsInv, SimplifiedInOrder
<1>4. conflict_frame' = conflict_frame
  BY <1>1, <1>2, GiveToSolverOk
<1>5. CASE SimplifyFrame
  <2>1. PICK H \in Formula : GiveToSolver(H, id)
    <3>1. PICK H \in Rewritings(c) : \E T \in Equations(H) : GiveToSolver(H, id)
      BY <1>5 DEF SimplifyFrame
    <3> QED
      BY <1>1, <3>1, RewritingType
  <2>2. ok' = ok
    BY <1>1, <2>1, GiveToSolverOk
  <2>3. UNCHANGED <<frameCount, frames, call, answer>> /\ c' = c + 1
    BY <1>5 DEF SimplifyFrame, stackVars
  <2>4. Levels' = Levels /\ (isLastFrameUnsat' <=> isLastFrameUnsat)
    BY <2>3 DEF Levels, isLastFrameUnsat, LastLevel
  <2>5. \A i \in Levels : i >= c' => i >= c
    BY <2>3 DEF Levels, TypeOK
  <2>6. StuckLevelsMarked'
    BY <2>2, <2>3, <2>4, <2>5 DEF FlagsInv, StuckLevelsMarked
  <2> QED
    BY <1>3, <1>4, <2>2, <2>3, <2>4, <2>6 DEF FlagsInv, OkUnlessMarked, UnsatAnswerMarked
<1>6. CASE SimplifyFrameUnsat
  <2>1. /\ frames' = RememberUnsatFrame(frames, c) /\ frameCount' = frameCount
        /\ call' = "idle" /\ c' = c + 1
    BY <1>6 DEF SimplifyFrameUnsat
  <2>2. isLastFrameUnsat' /\ \A i \in Levels' : i >= c => frames'[i].unsat
    BY <1>1, <2>1, MarkedToTheTop
  <2>3. \A i \in Levels' : i >= c' => i >= c
    BY <2>1 DEF Levels, TypeOK
  <2>4. ok' => conflict_frame' = 0
    BY <1>1, <1>2, <1>4, GiveToSolverOk DEF FlagsInv, OkUnlessMarked
  <2> QED
    BY <1>3, <2>1, <2>2, <2>3, <2>4
    DEF FlagsInv, OkUnlessMarked, StuckLevelsMarked, UnsatAnswerMarked
<1> QED
  BY <1>5, <1>6

\* An exception moves the cursor past its level and changes no flag.
LEMMA FlagsSimplifyThrows ==
  ASSUME TypeOK, FlagsInv, SimplifyFrameThrows
  PROVE  FlagsInv'
<1>1. /\ UNCHANGED <<frameCount, frames, ok, conflict_frame>>
      /\ call' = "idle" /\ answer' = "error"
      /\ firstNotSimplifiedFrame' = firstNotSimplifiedFrame + 1
  BY DEF SimplifyFrameThrows, stackVars
<1>2. Levels' = Levels /\ (isLastFrameUnsat' <=> isLastFrameUnsat)
  BY <1>1 DEF Levels, isLastFrameUnsat, LastLevel
<1>3. \A i \in Levels : i >= firstNotSimplifiedFrame' => i >= firstNotSimplifiedFrame
  BY <1>1 DEF Levels, TypeOK
<1>4. StuckLevelsMarked'
  BY <1>1, <1>2, <1>3 DEF FlagsInv, StuckLevelsMarked
<1>5. SimplifiedInOrder'
  <2>1. \E S \in Formula : StoreSubstitutions(firstNotSimplifiedFrame, S)
    BY ThrowsStoresFormula
  <2>2. internalFrameCount' = IF internalFrameCount <= firstNotSimplifiedFrame
                              THEN firstNotSimplifiedFrame + 1 ELSE internalFrameCount
    BY <2>1 DEF StoreSubstitutions
  <2> QED
    BY <1>1, <2>2 DEF TypeOK, FlagsInv, SimplifiedInOrder
<1>6. ~ok => isLastFrameUnsat
  BY DEF FlagsInv, StuckLevelsMarked
<1> QED
  BY <1>1, <1>2, <1>4, <1>5, <1>6 DEF FlagsInv, OkUnlessMarked, UnsatAnswerMarked

\* A search is only started on a solver that is not stuck, so that the level
\* marked is the one its own final conflict reached.
LEMMA SolveUnsatMarks ==
  ASSUME TypeOK, OkUnlessMarked, SolveUnsat
  PROVE  \E k \in Levels :
           /\ EnabledUpTo(k) = {} \/ (heldFrames # {} /\ k > 0)
           /\ frames' = RememberUnsatFrame(frames, k)
<1>1. PICK k \in Levels :
        /\ EnabledUpTo(k) = {} \/ (heldFrames # {} /\ k > 0)
        /\ conflict_frame' = IF k = 0 THEN conflict_frame ELSE k
        /\ frames' = RememberUnsatFrame(frames, conflict_frame')
  BY DEF SolveUnsat
<1>2. conflict_frame = 0
  BY DEF OkUnlessMarked, SolveUnsat, Solving
<1>3. conflict_frame' = k
  BY <1>1, <1>2
<1> QED
  BY <1>1, <1>3

LEMMA FlagsSolveUnsat == ASSUME TypeOK, FlagsInv, SolveUnsat PROVE FlagsInv'
<1>1. PICK k \in Levels : frames' = RememberUnsatFrame(frames, k)
  BY SolveUnsatMarks DEF FlagsInv
<1>2. /\ UNCHANGED <<frameCount, internalFrameCount, firstNotSimplifiedFrame>>
      /\ call' = "idle" /\ ok' = FALSE
      /\ firstNotSimplifiedFrame >= frameCount
  BY DEF SolveUnsat, Solving, prepVars
<1>3. isLastFrameUnsat'
  BY <1>1, <1>2, MarkedToTheTop
<1>4. \A i \in Levels' : ~(i >= firstNotSimplifiedFrame')
  BY <1>2 DEF Levels, TypeOK
<1> QED
  BY <1>2, <1>3, <1>4
  DEF FlagsInv, OkUnlessMarked, StuckLevelsMarked, SimplifiedInOrder, UnsatAnswerMarked

LEMMA StackNext == ASSUME StackInv, [Next]_vars PROVE StackInv'
<1>1. TypeOK /\ FrameIdsFresh /\ FlagsInv
  BY DEF StackInv, FlagsInv
<1>2. TypeOK' /\ FrameIdsFresh'
  BY <1>1, TypeNext, FreshNext
<1>3. FlagsInv'
  <2>1. CASE Push
    BY <1>1, <2>1, FlagsPush
  <2>2. CASE Pop
    BY <1>1, <2>2, FlagsPop
  <2>3. ASSUME NEW f \in Formula, InsertFormula(f)
        PROVE  FlagsInv'
    BY <1>1, <2>3, FlagsInsert
  <2>4. CASE CheckKnownUnsat
    BY <1>1, <2>4, FlagsUnchanged DEF CheckKnownUnsat, stackVars, prepVars, satVars
  <2>5. ASSUME NEW caller \in {"simplify", "check"}, BeginSimplify(caller)
        PROVE  FlagsInv'
    BY <1>1, <2>5, FlagsUnchanged DEF BeginSimplify, stackVars, prepVars, satVars
  <2>6. CASE SimplifyFrame \/ SimplifyFrameUnsat
    BY <1>1, <2>6, FlagsSimplify
  <2>7. CASE SimplifyFrameThrows
    BY <1>1, <2>7, FlagsSimplifyThrows
  <2>8. CASE EndSimplify
    <3>1. answer = "unsat" => isLastFrameUnsat
      BY <1>1 DEF FlagsInv, UnsatAnswerMarked
    <3> QED
      BY <1>1, <2>8, <3>1, FlagsUnchanged DEF EndSimplify, stackVars, prepVars, satVars
  <2>9. CASE SolveSat
    BY <1>1, <2>9, FlagsUnchanged DEF SolveSat, stackVars, prepVars
  <2>10. CASE SolveUnsat
    BY <1>1, <2>10, FlagsSolveUnsat
  <2>11. CASE SolveInterrupted
    BY <1>1, <2>11, FlagsUnchanged DEF SolveInterrupted, stackVars, prepVars
  <2>12. CASE SolveThrows
    BY <1>1, <2>12, FlagsUnchanged DEF SolveThrows, stackVars, prepVars
  <2>13. CASE UNCHANGED vars
    <3>1. answer = "unsat" => isLastFrameUnsat
      BY <1>1 DEF FlagsInv, UnsatAnswerMarked
    <3> QED
      BY <1>1, <2>13, <3>1, FlagsUnchanged DEF vars
  <2> QED
    BY <2>1, <2>2, <2>3, <2>4, <2>5, <2>6, <2>7, <2>8, <2>9, <2>10, <2>11, <2>12,
       <2>13 DEF Next
<1> QED
  BY <1>2, <1>3 DEF StackInv, FlagsInv

LEMMA StackInit == Init => StackInv
<1> SUFFICES ASSUME Init PROVE StackInv
  OBVIOUS
<1>1. TypeOK
  BY TypeInit
<1>2. Levels = {0} /\ frames[0].id = BaseFrame
  BY DEF Init, Levels
<1>3. FrameIdsFresh
  BY <1>2 DEF Init, FrameIdsFresh, BaseFrame
<1>4. FlagsInv
  BY DEF Init, FlagsInv, OkUnlessMarked, StuckLevelsMarked, SimplifiedInOrder, UnsatAnswerMarked
<1> QED
  BY <1>1, <1>3, <1>4 DEF StackInv, FlagsInv

\* The flags, the cursor and the ids fit each other in every reachable state,
\* with interrupts and with exceptions in preprocessing and in the search.
THEOREM StackInvariant == Spec => []StackInv
<1>1. Init => StackInv
  BY StackInit
<1>2. StackInv /\ [Next]_vars => StackInv'
  BY StackNext
<1> QED
  BY <1>1, <1>2, PTL DEF Spec

\* Frame ids are never given out twice.
THEOREM FrameIdsAlwaysFresh == Spec => []FrameIdsFresh
<1>1. StackInv => FrameIdsFresh
  BY DEF StackInv
<1> QED
  BY <1>1, StackInvariant, PTL

\* The solver is stuck in a conflict only while the last level is marked, and
\* no search starts on a stuck solver: solve()'s early return is dead code.
THEOREM NeverSearchesStuck == Spec => []OkUnlessMarked
<1>1. StackInv => OkUnlessMarked
  BY DEF StackInv
<1> QED
  BY <1>1, StackInvariant, PTL
=============================================================================
