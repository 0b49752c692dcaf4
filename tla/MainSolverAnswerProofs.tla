----------------------- MODULE MainSolverAnswerProofs -----------------------
(***************************************************************************)
(* No "unsat" without a contradiction: as long as no exception leaves the  *)
(* search (~SearchFails), interrupts and failures of the preprocessing     *)
(* included, every mark on the stack and every clause in the solver is     *)
(* justified by what was asserted.                                         *)
(*                                                                         *)
(* Nothing asserted is lost: as long as no exception is thrown, whatever   *)
(* simplifyFormulas() skips, the Cnfizer's cache keeps back or the         *)
(* substitutions replace is said by the clauses in the solver.  With no    *)
(* interrupts either, "sat" is answered with a model of the assertions,    *)
(* and MainSolver implements AssertionStack.                               *)
(***************************************************************************)
EXTENDS MainSolverProofs

\* What was asserted up to a level was asserted up to every lower one.
LEMMA AssertedMonotone ==
  ASSUME NEW i \in Nat, NEW j \in Nat, j <= i
  PROVE  AssertedUpTo(i) \subseteq AssertedUpTo(j)
BY DEF AssertedUpTo

\* A step that only adds assertions, at any levels up to i.
LEMMA AssertedShrinks ==
  ASSUME TypeOK, NEW i \in Nat, \A j \in 0..i : frames'[j].fla \subseteq frames[j].fla
  PROVE  AssertedUpTo(i)' \subseteq AssertedUpTo(i)
BY DEF AssertedUpTo

\* Without an abandoned search giveToSolver() puts G under the id, or nothing.
LEMMA GiveToSolverAtLevelZero ==
  ASSUME TypeOK, heldFrames = {}, NEW G \in Formula, NEW id \in FrameIds,
         GiveToSolver(G, id) \/ GiveToSolverUnsat(G, id)
  PROVE  /\ UNCHANGED heldVars
         /\ pendingConflict' => pendingConflict
         /\ \/ clauses' = clauses
            \/ clauses' = [clauses EXCEPT ![id] = @ \cap G]
<1> USE DEF satVars
<1>1. CASE EmitNothing(G, id)
  BY <1>1 DEF EmitNothing
<1>2. CASE EmitAccepted(G, id)
  BY <1>2 DEF EmitAccepted
<1>3. CASE EmitUnderDecisions(G, id)
  BY <1>3 DEF EmitUnderDecisions
<1>4. CASE EmitDropped(G, id)
  BY <1>4 DEF EmitDropped
<1>5. CASE EmitConflict(G, id)
  BY <1>5 DEF EmitConflict
<1>6. CASE EmitConflictUnderDecisions(G, id)
  BY <1>6 DEF EmitConflictUnderDecisions
<1> QED
  BY <1>1, <1>2, <1>3, <1>4, <1>5, <1>6 DEF GiveToSolver, GiveToSolverUnsat

\* ... and refuses only when it was stuck already or the base frame is
\* contradictory.
LEMMA GiveToSolverRefuses ==
  ASSUME TypeOK, heldFrames = {}, PendingConflictAtBase,
         NEW G \in Formula, NEW id \in FrameIds, GiveToSolverUnsat(G, id)
  PROVE  ~ok \/ clauses'[BaseFrame] = {}
<1>1. CASE EmitDropped(G, id)
  BY <1>1 DEF EmitDropped
<1>2. CASE EmitConflict(G, id)
  <2>1. clauses'[BaseFrame] \subseteq clauses[BaseFrame]
    BY <1>2 DEF EmitConflict, TypeOK, FrameIds
  <2> QED
    BY <1>2, <2>1 DEF EmitConflict, PendingConflictAtBase
<1>3. CASE EmitConflictUnderDecisions(G, id)
  BY <1>3 DEF EmitConflictUnderDecisions
<1> QED
  BY <1>1, <1>2, <1>3 DEF GiveToSolverUnsat

\* Rewriting a level with the equations of the levels up to it loses no world.
LEMMA RewritingEntailed ==
  ASSUME TypeOK, SimplifiedInOrder, NothingInvented, firstNotSimplifiedFrame \in Levels,
         NEW G \in Rewritings(firstNotSimplifiedFrame)
  PROVE  AssertedUpTo(firstNotSimplifiedFrame) \subseteq G
<1> DEFINE c == firstNotSimplifiedFrame
<1> SUFFICES ASSUME NEW w \in AssertedUpTo(c) PROVE w \in G
  OBVIOUS
<1>1. w \in Worlds /\ w \in frames[c].fla
  BY DEF AssertedUpTo, TypeOK
<1>2. ASSUME NEW j \in 0..(internalFrameCount - 1)
      PROVE  w \in substitutions[j]
  <2>1. j \in Nat /\ c \in Nat /\ j <= c
    BY DEF TypeOK, SimplifiedInOrder
  <2>2. w \in AssertedUpTo(j)
    BY <2>1, AssertedMonotone
  <2> QED
    BY <2>2 DEF NothingInvented
<1>3. w \in CurrentSubstitutions
  BY <1>1, <1>2 DEF CurrentSubstitutions
<1> QED
  BY <1>1, <1>3 DEF Rewritings

\* The levels below a level are levels.
LEMMA LevelsBelow ==
  ASSUME NEW n \in Nat, NEW i \in 0..(n - 1)
  PROVE  i \in Nat /\ 0..i \subseteq 0..(n - 1)
OBVIOUS

\* A larger stack has the levels of a smaller one.
LEMMA LevelsWiden ==
  ASSUME NEW n \in Nat, NEW m \in Nat, n <= m, NEW j \in 0..(n - 1)
  PROVE  j \in 0..(m - 1)
OBVIOUS

\* The frame of one level only has a given id.
LEMMA IdsDistinct ==
  ASSUME TypeOK, FrameIdsFresh, NEW i \in Levels, NEW j \in Levels, frames[i].id = frames[j].id
  PROVE  i = j
<1>1. i \in Nat /\ j \in Nat /\ frames[i].id \in Nat /\ frames[j].id \in Nat
  BY DEF TypeOK, Levels, Frame, FrameIds, BaseFrame
<1>2. ~(i < j) /\ ~(j < i)
  BY <1>1 DEF FrameIdsFresh
<1> QED
  BY <1>1, <1>2
-----------------------------------------------------------------------------
(***************************************************************************)
(* Steps that say nothing new to the solver                                *)
(***************************************************************************)

\* A step that keeps or pops levels, and may add assertions.
LEMMA NothingInventedKept ==
  ASSUME TypeOK, NothingInvented, Levels' \subseteq Levels, clauses' = clauses,
         internalFrameCount' <= internalFrameCount, internalFrameCount' \in Nat,
         \A j \in 0..(internalFrameCount' - 1) : substitutions'[j] = substitutions[j],
         frameCount' \in Nat, internalFrameCount' <= frameCount',
         \A i \in Levels' : /\ frames'[i].id = frames[i].id
                            /\ frames'[i].fla \subseteq frames[i].fla
  PROVE  NothingInvented'
<1>1. ASSUME NEW i \in Levels'
      PROVE  i \in Nat /\ AssertedUpTo(i)' \subseteq AssertedUpTo(i)
  <2>1. i \in Nat /\ 0..i \subseteq Levels'
    BY LevelsBelow DEF Levels
  <2> QED
    BY <2>1, AssertedShrinks
<1>2. ASSUME NEW i \in Levels'
      PROVE  AssertedUpTo(i)' \subseteq clauses'[frames'[i].id]
  BY <1>1 DEF NothingInvented
<1>3. ASSUME NEW j \in 0..(internalFrameCount' - 1)
      PROVE  AssertedUpTo(j)' \subseteq substitutions'[j]
  <2>0. internalFrameCount \in Nat
    BY DEF TypeOK
  <2>1. j \in 0..(frameCount' - 1) /\ j \in 0..(internalFrameCount - 1)
    BY <2>0, LevelsWiden
  <2>2. j \in Levels'
    BY <2>1 DEF Levels
  <2> QED
    BY <1>1, <2>1, <2>2 DEF NothingInvented
<1> QED
  BY <1>2, <1>3 DEF NothingInvented

\* A step that keeps the marks of the levels it keeps.
LEMMA UnsatFlagKept ==
  ASSUME TypeOK, UnsatFlagSound, Levels' \subseteq Levels, frameCount' \in Nat,
         \A i \in Levels' : /\ frames'[i].unsat <=> frames[i].unsat
                            /\ frames'[i].fla \subseteq frames[i].fla
  PROVE  UnsatFlagSound'
<1>1. ASSUME NEW i \in Levels', frames'[i].unsat
      PROVE  AssertedUpTo(i)' = {}
  <2>1. i \in Nat /\ 0..i \subseteq Levels'
    BY LevelsBelow DEF Levels
  <2>2. AssertedUpTo(i)' \subseteq AssertedUpTo(i)
    BY <2>1, AssertedShrinks
  <2> QED
    BY <1>1, <2>2 DEF UnsatFlagSound
<1>2. ASSUME NEW i \in Levels', NEW j \in Levels', frames'[i].unsat, i < j
      PROVE  frames'[j].unsat
  BY <1>2 DEF UnsatFlagSound
<1> QED
  BY <1>1, <1>2 DEF UnsatFlagSound

\* Marking level k and those above it is sound if nothing satisfies the
\* assertions up to level k.
LEMMA UnsatFlagMarked ==
  ASSUME TypeOK, UnsatFlagSound, NEW k \in Levels, AssertedUpTo(k) = {},
         frameCount' = frameCount, frames' = RememberUnsatFrame(frames, k)
  PROVE  UnsatFlagSound'
<1>1. Levels' = Levels /\ k \in Nat
  BY DEF Levels, TypeOK
<1>2. \A i \in Levels : /\ frames'[i].fla = frames[i].fla
                        /\ frames'[i].unsat <=> frames[i].unsat \/ i >= k
  BY <1>1, RememberUnsatFrameMarks
<1>3. ASSUME NEW i \in Levels, frames'[i].unsat
      PROVE  AssertedUpTo(i)' = {}
  <2>0. frameCount \in Nat
    BY DEF TypeOK
  <2>1. i \in Nat /\ 0..i \subseteq Levels
    BY <2>0, LevelsBelow DEF Levels
  <2>2. AssertedUpTo(i)' \subseteq AssertedUpTo(i)
    <3>1. \A j \in 0..i : frames'[j].fla \subseteq frames[j].fla
      BY <1>2, <2>1
    <3> QED
      BY <2>1, <3>1, AssertedShrinks
  <2>3. CASE frames[i].unsat
    BY <2>2, <2>3 DEF UnsatFlagSound
  <2>4. CASE i >= k
    <3>1. AssertedUpTo(i) \subseteq AssertedUpTo(k)
      BY <1>1, <2>1, <2>4, AssertedMonotone
    <3> QED
      BY <2>2, <3>1
  <2> QED
    BY <1>2, <1>3, <2>3, <2>4
<1>4. ASSUME NEW i \in Levels, NEW j \in Levels, frames'[i].unsat, i < j
      PROVE  frames'[j].unsat
  <2>1. CASE frames[i].unsat
    BY <1>2, <1>4, <2>1 DEF UnsatFlagSound
  <2>2. CASE i >= k
    <3>1. j >= k
      BY <1>1, <1>4, <2>2 DEF Levels, TypeOK
    <3> QED
      BY <1>2, <3>1
  <2> QED
    BY <1>2, <1>4, <2>1, <2>2
<1> QED
  BY <1>1, <1>3, <1>4 DEF UnsatFlagSound
-----------------------------------------------------------------------------
(***************************************************************************)
(* Steps of simplifyFormulas()                                             *)
(***************************************************************************)

\* What a round of the loop stores follows from the assertions up to its level.
LEMMA NothingInventedByRound ==
  ASSUME TypeOK, FrameIdsFresh, NothingInvented, firstNotSimplifiedFrame \in Levels,
         NEW H \in Formula, AssertedUpTo(firstNotSimplifiedFrame) \subseteq H,
         NEW S \in Formula, AssertedUpTo(firstNotSimplifiedFrame) \subseteq S,
         StoreSubstitutions(firstNotSimplifiedFrame, S),
         \/ clauses' = clauses
         \/ clauses' = [clauses EXCEPT ![frames[firstNotSimplifiedFrame].id] = @ \cap H],
         frameCount' = frameCount,
         \A i \in Levels : frames'[i].id = frames[i].id /\ frames'[i].fla = frames[i].fla
  PROVE  NothingInvented'
<1> DEFINE c == firstNotSimplifiedFrame
           id == frames[c].id
<1>1. Levels' = Levels /\ frameCount \in Nat
  BY DEF Levels, TypeOK
<1>2. ASSUME NEW i \in Levels
      PROVE  AssertedUpTo(i)' \subseteq AssertedUpTo(i)
  <2>1. i \in Nat /\ 0..i \subseteq Levels
    BY <1>1, LevelsBelow DEF Levels
  <2>2. \A j \in 0..i : frames'[j].fla \subseteq frames[j].fla
    BY <2>1
  <2> QED
    BY <2>1, <2>2, AssertedShrinks
<1>3. ASSUME NEW i \in Levels
      PROVE  AssertedUpTo(i) \subseteq clauses'[frames[i].id]
  <2>1. AssertedUpTo(i) \subseteq clauses[frames[i].id] /\ frames[i].id \in FrameIds
    BY DEF NothingInvented, TypeOK, Frame
  <2>2. CASE frames[i].id = id
    <3>1. i = c
      BY <2>2, IdsDistinct
    <3> QED
      BY <2>1, <3>1 DEF TypeOK
  <2>3. CASE frames[i].id # id
    BY <2>1, <2>3 DEF TypeOK
  <2> QED
    BY <2>2, <2>3
<1>4. ASSUME NEW j \in 0..(internalFrameCount' - 1)
      PROVE  AssertedUpTo(j) \subseteq substitutions'[j]
  <2>1. substitutions'[j] = IF j = c THEN S
                            ELSE IF j < internalFrameCount THEN substitutions[j] ELSE Worlds
    BY DEF StoreSubstitutions
  <2>2. CASE j = c
    BY <2>1, <2>2
  <2>3. CASE j # c /\ j < internalFrameCount
    <3>1. j \in 0..(internalFrameCount - 1)
      BY <2>3 DEF TypeOK
    <3> QED
      BY <2>1, <2>3, <3>1 DEF NothingInvented
  <2>4. CASE j # c /\ ~(j < internalFrameCount)
    BY <2>1, <2>4 DEF AssertedUpTo
  <2> QED
    BY <2>2, <2>3, <2>4
<1>5. 0..(internalFrameCount' - 1) \subseteq Levels
  <2>1. internalFrameCount' \in Nat /\ internalFrameCount' <= frameCount
    BY StoreSubstitutionsType DEF TypeOK
  <2> QED
    BY <1>1, <2>1, LevelsWiden DEF Levels
<1> QED
  BY <1>1, <1>2, <1>3, <1>4, <1>5 DEF NothingInvented

\* The equations read off a rewritten level follow from the level.
LEMMA EquationsEntailed ==
  ASSUME NEW G \in Formula, NEW S \in Equations(G), NEW A \in SUBSET Worlds, A \subseteq G
  PROVE  A \subseteq S
BY DEF Equations

\* AssertedUpTo() is a set of worlds.
LEMMA AssertedType == ASSUME NEW i \in Nat PROVE AssertedUpTo(i) \in SUBSET Worlds
BY DEF AssertedUpTo

LEMMA NothingInventedSimplify ==
  ASSUME UnsatInv, heldFrames = {}, SimplifyFrame \/ SimplifyFrameUnsat
  PROVE  NothingInvented'
<1> DEFINE c == firstNotSimplifiedFrame
           id == frames[c].id
<1>1. TypeOK /\ FrameIdsFresh /\ SimplifiedInOrder /\ NothingInvented
  BY DEF UnsatInv, StackInv
<1>2. c \in Levels /\ id \in FrameIds /\ c \in Nat
  BY <1>1, SimplifyingType DEF SimplifyFrame, SimplifyFrameUnsat, TypeOK
<1>3. PICK G \in Formula : \E S \in Formula :
        /\ G \in Rewritings(c)
        /\ S \in Equations(G)
        /\ StoreSubstitutions(c, S)
        /\ GiveToSolver(G, id) \/ GiveToSolverUnsat(G, id)
  BY <1>1, SimplifyFrameStep
<1>4. PICK S \in Formula :
        /\ G \in Rewritings(c)
        /\ S \in Equations(G)
        /\ StoreSubstitutions(c, S)
        /\ GiveToSolver(G, id) \/ GiveToSolverUnsat(G, id)
  BY <1>3
<1>5. AssertedUpTo(c) \subseteq G /\ AssertedUpTo(c) \subseteq S
  BY <1>1, <1>2, <1>4, RewritingEntailed, EquationsEntailed, AssertedType
<1>6. clauses' = clauses \/ clauses' = [clauses EXCEPT ![id] = @ \cap G]
  BY <1>1, <1>2, <1>4, GiveToSolverAtLevelZero
<1>7. /\ frameCount' = frameCount
      /\ \A i \in Levels : frames'[i].id = frames[i].id /\ frames'[i].fla = frames[i].fla
  <2>1. CASE SimplifyFrame
    BY <2>1 DEF SimplifyFrame, stackVars
  <2>2. CASE SimplifyFrameUnsat
    BY <1>1, <1>2, <2>2, RememberUnsatFrameMarks DEF SimplifyFrameUnsat
  <2> QED
    BY <2>1, <2>2
<1> QED
  BY <1>1, <1>2, <1>4, <1>5, <1>6, <1>7, NothingInventedByRound

\* A failed allocation leaves a part of what the round would have stored.
LEMMA NothingInventedThrows ==
  ASSUME UnsatInv, SimplifyFrameThrows
  PROVE  NothingInvented'
<1> DEFINE c == firstNotSimplifiedFrame
           id == frames[c].id
<1>1. TypeOK /\ FrameIdsFresh /\ SimplifiedInOrder /\ NothingInvented
  BY DEF UnsatInv, StackInv
<1>2. c \in Levels /\ id \in FrameIds /\ c \in Nat
  BY <1>1, SimplifyingType DEF SimplifyFrameThrows, TypeOK
<1>3. /\ frameCount' = frameCount
      /\ \A i \in Levels : frames'[i].id = frames[i].id /\ frames'[i].fla = frames[i].fla
  BY DEF SimplifyFrameThrows, stackVars
<1>4. Worlds \in Formula /\ AssertedUpTo(c) \subseteq Worlds
  BY <1>2, AssertedType DEF Formula
<1>5. ASSUME StoreSubstitutions(c, IF c < internalFrameCount THEN substitutions[c] ELSE Worlds),
             UNCHANGED clauses
      PROVE  NothingInvented'
  <2> DEFINE S == IF c < internalFrameCount THEN substitutions[c] ELSE Worlds
  <2>1. CASE c < internalFrameCount
    <3>1. c \in 0..(internalFrameCount - 1)
      BY <1>1, <1>2, <2>1 DEF TypeOK
    <3>2. S \in Formula /\ AssertedUpTo(c) \subseteq S
      <4>1. S = substitutions[c]
        BY <2>1
      <4>2. substitutions[c] \in Formula
        BY <1>1, <3>1 DEF TypeOK
      <4>3. AssertedUpTo(c) \subseteq substitutions[c]
        BY <1>1, <3>1 DEF NothingInvented
      <4> QED
        BY <4>1, <4>2, <4>3
    <3> QED
      BY <1>1, <1>2, <1>3, <1>4, <1>5, <3>2, NothingInventedByRound
  <2>2. CASE ~(c < internalFrameCount)
    <3>1. S \in Formula /\ AssertedUpTo(c) \subseteq S
      BY <1>4, <2>2
    <3> QED
      BY <1>1, <1>2, <1>3, <1>4, <1>5, <3>1, NothingInventedByRound
  <2> QED
    BY <2>1, <2>2
<1>6. ASSUME NEW G \in Rewritings(c), NEW S \in Equations(G), StoreSubstitutions(c, S),
             NEW part \in Formula, G \subseteq part,
             clauses' = clauses \/ clauses' = [clauses EXCEPT ![id] = IF ok THEN @ \cap part ELSE @]
      PROVE  NothingInvented'
  <2>1. G \in Formula /\ S \in Formula
    BY <1>1, <1>2, RewritingType
  <2>2. AssertedUpTo(c) \subseteq G /\ AssertedUpTo(c) \subseteq S
    BY <1>1, <1>2, <2>1, RewritingEntailed, EquationsEntailed, AssertedType
  <2>3. AssertedUpTo(c) \subseteq part
    BY <1>6, <2>2
  <2>4. clauses' = clauses \/ clauses' = [clauses EXCEPT ![id] = @ \cap part]
    <3>1. CASE ok
      BY <1>6, <3>1
    <3>2. CASE ~ok
      BY <1>1, <1>6, <3>2 DEF TypeOK
    <3> QED
      BY <3>1, <3>2
  <2> QED
    BY <1>1, <1>2, <1>3, <1>6, <2>1, <2>2, <2>3, <2>4, NothingInventedByRound
<1>7. ASSUME NEW G \in Rewritings(c), NEW S \in Equations(G), StoreSubstitutions(c, S),
             UNCHANGED clauses
      PROVE  NothingInvented'
  <2>1. G \in Formula
    BY <1>1, <1>2, <1>7, RewritingType
  <2> QED
    BY <1>6, <1>7, <2>1
<1> QED
  BY <1>5, <1>6, <1>7 DEF SimplifyFrameThrows

\* A level is marked only when nothing satisfies the assertions up to it.
LEMMA UnsatFlagSimplify ==
  ASSUME UnsatInv, heldFrames = {}, SimplifyFrameUnsat
  PROVE  UnsatFlagSound'
<1> DEFINE c == firstNotSimplifiedFrame
           id == frames[c].id
<1>1. /\ TypeOK /\ SimplifiedInOrder /\ NothingInvented /\ PendingConflictAtBase
      /\ UnsatFlagSound /\ FrameIdsFresh /\ StuckLevelsMarked
  BY DEF UnsatInv, StackInv
<1>2. c \in Levels /\ id \in FrameIds /\ c \in Nat
  BY <1>1, SimplifyingType DEF SimplifyFrameUnsat, TypeOK
<1>3. frameCount' = frameCount /\ frames' = RememberUnsatFrame(frames, c)
  BY DEF SimplifyFrameUnsat
<1>4. AssertedUpTo(c) = {}
  <2>1. PICK G \in Rewritings(c) : G = {} \/ GiveToSolverUnsat(G, id)
    BY DEF SimplifyFrameUnsat
  <2>2. G \in Formula
    <3>1. frames[c].fla \in Formula
      BY <1>1, <1>2 DEF TypeOK, Frame
    <3> QED
      BY <2>1, <3>1 DEF Rewritings
  <2>3. CASE G = {}
    BY <1>1, <1>2, <2>1, <2>3, RewritingEntailed
  <2>4. CASE GiveToSolverUnsat(G, id) /\ ~ok
    BY <1>1, <1>2, <2>4 DEF StuckLevelsMarked, UnsatFlagSound
  <2>5. CASE clauses'[BaseFrame] = {}
    <3>1. NothingInvented' /\ frames'[0].id = frames[0].id /\ 0 \in Levels' /\ Levels' = Levels
      BY <1>1, <1>3, NothingInventedSimplify, RememberUnsatFrameMarks DEF Levels, TypeOK
    <3>2. AssertedUpTo(0)' = {}
      BY <1>1, <2>5, <3>1 DEF NothingInvented, FrameIdsFresh
    <3>3. AssertedUpTo(0) = AssertedUpTo(0)'
      <4>1. frames'[0].fla = frames[0].fla
        BY <1>1, <1>2, <1>3, <3>1, RememberUnsatFrameMarks
      <4>2. 0..0 = {0}
        OBVIOUS
      <4> QED
        BY <4>1, <4>2 DEF AssertedUpTo
    <3> QED
      BY <1>2, <3>2, <3>3, AssertedMonotone
  <2> QED
    BY <1>1, <1>2, <2>1, <2>2, <2>3, <2>4, <2>5, GiveToSolverRefuses
<1> QED
  BY <1>1, <1>2, <1>3, <1>4, UnsatFlagMarked
-----------------------------------------------------------------------------
(***************************************************************************)
(* The search                                                              *)
(***************************************************************************)

\* A final conflict over the frames up to level k refutes their assertions.
LEMMA UnsatFlagSolve ==
  ASSUME UnsatInv, heldFrames = {}, SolveUnsat
  PROVE  UnsatFlagSound'
<1>1. TypeOK /\ OkUnlessMarked /\ NothingInvented /\ UnsatFlagSound
  BY DEF UnsatInv, StackInv
<1>2. PICK k \in Levels : EnabledUpTo(k) = {} /\ frames' = RememberUnsatFrame(frames, k)
  BY <1>1, SolveUnsatMarks
<1>3. k \in Nat /\ 0..k \subseteq Levels
  BY <1>1, LevelsBelow DEF Levels, TypeOK
<1>4. AssertedUpTo(k) \subseteq EnabledUpTo(k)
  <2>1. ASSUME NEW w \in AssertedUpTo(k), NEW j \in 0..k
        PROVE  w \in clauses[frames[j].id]
    <3>1. j \in Levels /\ j \in Nat /\ j <= k
      BY <1>3
    <3>2. w \in AssertedUpTo(j)
      BY <1>3, <3>1, AssertedMonotone
    <3> QED
      BY <1>1, <3>1, <3>2 DEF NothingInvented
  <2>2. AssertedUpTo(k) \subseteq Worlds
    BY <1>3, AssertedType
  <2> QED
    BY <2>1, <2>2 DEF EnabledUpTo
<1>5. frameCount' = frameCount
  BY DEF SolveUnsat
<1> QED
  BY <1>1, <1>2, <1>4, <1>5, UnsatFlagMarked

\* What a search leaves in the solver when it returns.
LEMMA SearchCleans ==
  ASSUME PendingConflictAtBase, SolveSat \/ SolveUnsat \/ SolveInterrupted
  PROVE  /\ heldFrames' = {} /\ heldWorlds' = Worlds
         /\ PendingConflictAtBase'
         /\ UNCHANGED <<frameCount, clauses, internalFrameCount, substitutions>>
<1>1. CASE SolveSat
  BY <1>1 DEF SolveSat, ClearSearch, PendingConflictAtBase, stackVars, prepVars
<1>2. CASE SolveUnsat
  BY <1>2 DEF SolveUnsat, ClearSearch, PendingConflictAtBase, prepVars
<1>3. CASE SolveInterrupted
  BY <1>3 DEF SolveInterrupted, ClearSearch, PendingConflictAtBase, stackVars, prepVars
<1> QED
  BY <1>1, <1>2, <1>3
-----------------------------------------------------------------------------
\* The conjuncts of UnsatInv beyond StackInv.
Justified == SearchCleared /\ PendingConflictAtBase /\ NothingInvented /\ UnsatFlagSound

\* A step that moves neither the stack nor what the solver holds.
LEMMA JustifiedUnchanged ==
  ASSUME TypeOK, Justified,
         UNCHANGED <<frameCount, frames, clauses, internalFrameCount, substitutions,
                     pendingConflict, heldFrames, heldWorlds>>
  PROVE  Justified'
<1>1. Levels' = Levels
  BY DEF Levels
<1> QED
  BY <1>1 DEF Justified, SearchCleared, PendingConflictAtBase, NothingInvented,
              UnsatFlagSound, AssertedUpTo

\* push() adds a level without assertions, and its id has no clauses yet.
LEMMA JustifiedPush == ASSUME TypeOK, FrameIdsFresh, Justified, Push PROVE Justified'
<1>1. PICK n \in Levels : n = LastLevel
  BY LastLevelIsLevel
<1>2. PICK top \in Nat : top = frameCount
  BY DEF TypeOK
<1>3. /\ Levels' = Levels \cup {top}
      /\ \A i \in Levels : frames'[i] = frames[i] /\ i < top /\ i \in Nat
      /\ frames'[top] = NewFrame
      /\ top = n + 1
  BY <1>1, <1>2 DEF TypeOK, Levels, Push, LastLevel
<1>4. UNCHANGED <<clauses, internalFrameCount, substitutions, pendingConflict, heldFrames, heldWorlds>>
  BY DEF Push, prepVars, satVars, heldVars
<1>5. ASSUME NEW i \in Levels
      PROVE  AssertedUpTo(i)' = AssertedUpTo(i)
  <2>1. i \in Nat /\ 0..i \subseteq Levels
    BY <1>2, LevelsBelow DEF Levels
  <2>2. \A j \in 0..i : frames'[j] = frames[j]
    BY <1>3, <2>1
  <2> QED
    BY <2>2 DEF AssertedUpTo
<1>6. AssertedUpTo(top)' \subseteq AssertedUpTo(n)
  <2>1. 0..n \subseteq 0..top
    BY <1>3
  <2>2. AssertedUpTo(top)' \subseteq AssertedUpTo(n)'
    BY <2>1 DEF AssertedUpTo
  <2> QED
    BY <1>5, <2>2
<1>7. NothingInvented'
  <2>1. ASSUME NEW i \in Levels
        PROVE  AssertedUpTo(i)' \subseteq clauses'[frames'[i].id]
    BY <1>3, <1>4, <1>5 DEF Justified, NothingInvented
  <2>2. AssertedUpTo(top)' \subseteq clauses'[frames'[top].id]
    <3>1. frames'[top].id = frameId /\ frameId \in FrameIds /\ frameId \in Nat
      BY <1>3, BoundsAssumption DEF NewFrame, Push, FrameIds, TypeOK
    <3>2. clauses[frameId] = Worlds
      BY <3>1 DEF FrameIdsFresh
    <3>3. AssertedUpTo(top)' \subseteq Worlds
      BY DEF AssertedUpTo
    <3> QED
      BY <1>4, <3>1, <3>2, <3>3
  <2>3. ASSUME NEW j \in 0..(internalFrameCount' - 1)
        PROVE  AssertedUpTo(j)' \subseteq substitutions'[j]
    <3>1. internalFrameCount \in Nat /\ internalFrameCount <= frameCount /\ frameCount \in Nat
      BY DEF TypeOK
    <3>2. j \in Levels
      BY <1>4, <3>1, LevelsWiden DEF Levels
    <3> QED
      BY <1>4, <1>5, <3>2 DEF Justified, NothingInvented
  <2> QED
    BY <1>3, <2>1, <2>2, <2>3 DEF NothingInvented
<1>8. UnsatFlagSound'
  <2>1. frames'[top].unsat <=> frames[n].unsat
    BY <1>1, <1>3 DEF NewFrame, isLastFrameUnsat
  <2>2. ASSUME NEW i \in Levels', frames'[i].unsat
        PROVE  AssertedUpTo(i)' = {}
    <3>1. CASE i \in Levels
      BY <1>3, <1>5, <2>2, <3>1 DEF Justified, UnsatFlagSound
    <3>2. CASE i = top
      BY <1>6, <2>1, <2>2, <3>2 DEF Justified, UnsatFlagSound
    <3> QED
      BY <1>3, <3>1, <3>2
  <2>3. ASSUME NEW i \in Levels', NEW j \in Levels', frames'[i].unsat, i < j
        PROVE  frames'[j].unsat
    <3>1. i \in Levels
      BY <1>3, <2>3
    <3>2. frames[i].unsat
      BY <1>3, <2>3, <3>1
    <3>3. CASE j \in Levels
      BY <1>3, <2>3, <3>1, <3>2, <3>3 DEF Justified, UnsatFlagSound
    <3>4. CASE j = top
      <4>1. i = n \/ i < n
        BY <1>3, <3>1
      <4>2. frames[n].unsat
        BY <3>1, <3>2, <4>1 DEF Justified, UnsatFlagSound
      <4> QED
        BY <2>1, <3>4, <4>2
    <3> QED
      BY <1>3, <3>3, <3>4
  <2> QED
    BY <2>2, <2>3 DEF UnsatFlagSound
<1> QED
  BY <1>4, <1>7, <1>8 DEF Justified, SearchCleared, PendingConflictAtBase

LEMMA JustifiedPop == ASSUME TypeOK, Justified, Pop PROVE Justified'
<1>1. /\ Levels' \subseteq Levels /\ frameCount' \in Nat
      /\ \A i \in Levels' : frames'[i] = frames[i]
  BY DEF TypeOK, Levels, Pop
<1>2. /\ internalFrameCount' \in Nat
      /\ internalFrameCount' <= internalFrameCount
      /\ internalFrameCount' <= frameCount'
  BY DEF TypeOK, Pop, SubstitutionLevelsAfterPop, Min2
<1>3. \A j \in 0..(internalFrameCount' - 1) : substitutions'[j] = substitutions[j]
  BY DEF Pop
<1>4. UNCHANGED <<clauses, pendingConflict, heldFrames, heldWorlds>>
  BY DEF Pop, heldVars
<1>5. NothingInvented'
  BY <1>1, <1>2, <1>3, <1>4, NothingInventedKept DEF Justified
<1>6. UnsatFlagSound'
  BY <1>1, UnsatFlagKept DEF Justified
<1> QED
  BY <1>4, <1>5, <1>6 DEF Justified, SearchCleared, PendingConflictAtBase

\* More assertions justify what fewer did.
LEMMA JustifiedInsert ==
  ASSUME TypeOK, Justified, NEW f \in Formula, InsertFormula(f)
  PROVE  Justified'
<1>1. Levels' = Levels /\ LastLevel \in Levels /\ frameCount' \in Nat
  BY LastLevelIsLevel DEF TypeOK, Levels, InsertFormula
<1>2. \A i \in Levels : /\ frames'[i].id = frames[i].id
                        /\ frames'[i].fla \subseteq frames[i].fla
                        /\ frames'[i].unsat <=> frames[i].unsat
  BY <1>1 DEF InsertFormula, TypeOK, Frame
<1>3. UNCHANGED <<frameCount, internalFrameCount, substitutions, clauses, pendingConflict,
                  heldFrames, heldWorlds>>
  BY DEF InsertFormula, satVars, heldVars
<1>4. NothingInvented'
  <2>1. internalFrameCount \in Nat /\ internalFrameCount <= frameCount
    BY DEF TypeOK
  <2> QED
    BY <1>1, <1>2, <1>3, <2>1, NothingInventedKept DEF Justified
<1>5. UnsatFlagSound'
  BY <1>1, <1>2, UnsatFlagKept DEF Justified
<1> QED
  BY <1>3, <1>4, <1>5 DEF Justified, SearchCleared, PendingConflictAtBase

LEMMA JustifiedNext ==
  ASSUME ~SearchFails, UnsatInv, [Next]_vars
  PROVE  Justified'
<1>1. /\ StackInv /\ TypeOK /\ FrameIdsFresh /\ Justified
      /\ heldFrames = {} /\ heldWorlds = Worlds /\ PendingConflictAtBase
  BY DEF UnsatInv, StackInv, Justified, SearchCleared
<1>2. CASE Push
  BY <1>1, <1>2, JustifiedPush
<1>3. CASE Pop
  BY <1>1, <1>3, JustifiedPop
<1>4. ASSUME NEW f \in Formula, InsertFormula(f)
      PROVE  Justified'
  BY <1>1, <1>4, JustifiedInsert
<1>5. CASE CheckKnownUnsat
  BY <1>1, <1>5, JustifiedUnchanged DEF CheckKnownUnsat, stackVars, prepVars, satVars, heldVars
<1>6. ASSUME NEW caller \in {"simplify", "check"}, BeginSimplify(caller)
      PROVE  Justified'
  BY <1>1, <1>6, JustifiedUnchanged DEF BeginSimplify, stackVars, prepVars, satVars, heldVars
<1>7. CASE SimplifyFrame \/ SimplifyFrameUnsat
  <2>1. PICK G \in Formula : \E S \in Formula :
          \/ GiveToSolver(G, frames[firstNotSimplifiedFrame].id)
          \/ GiveToSolverUnsat(G, frames[firstNotSimplifiedFrame].id)
    BY <1>1, <1>7, SimplifyFrameStep
  <2>2. frames[firstNotSimplifiedFrame].id \in FrameIds
    BY <1>1, <1>7, SimplifyingType DEF SimplifyFrame, SimplifyFrameUnsat
  <2>3. /\ UNCHANGED heldVars
        /\ pendingConflict' => pendingConflict
        /\ \/ clauses' = clauses
           \/ clauses' = [clauses EXCEPT ![frames[firstNotSimplifiedFrame].id] = @ \cap G]
    BY <1>1, <2>1, <2>2, GiveToSolverAtLevelZero
  <2>4. clauses'[BaseFrame] \subseteq clauses[BaseFrame]
    BY <1>1, <2>3 DEF TypeOK, FrameIds
  <2>5. SearchCleared' /\ PendingConflictAtBase'
    BY <1>1, <2>3, <2>4 DEF SearchCleared, PendingConflictAtBase, heldVars
  <2>6. NothingInvented'
    BY <1>1, <1>7, NothingInventedSimplify
  <2>7. UnsatFlagSound'
    <3>1. CASE SimplifyFrame
      <4>1. Levels' = Levels /\ frameCount' \in Nat /\ frames' = frames
        BY <1>1, <3>1 DEF SimplifyFrame, stackVars, Levels, TypeOK
      <4> QED
        BY <1>1, <4>1, UnsatFlagKept DEF Justified
    <3>2. CASE SimplifyFrameUnsat
      BY <1>1, <3>2, UnsatFlagSimplify
    <3> QED
      BY <1>7, <3>1, <3>2
  <2> QED
    BY <2>5, <2>6, <2>7 DEF Justified
<1>8. CASE SimplifyFrameThrows
  <2>1. clauses'[BaseFrame] \subseteq clauses[BaseFrame]
    <3>1. CASE UNCHANGED clauses
      BY <3>1
    <3>2. ASSUME NEW part \in Formula,
                 clauses' = [clauses EXCEPT ![frames[firstNotSimplifiedFrame].id] =
                               IF ok THEN @ \cap part ELSE @]
          PROVE  clauses'[BaseFrame] \subseteq clauses[BaseFrame]
      <4>1. CASE ok
        BY <1>1, <3>2, <4>1 DEF TypeOK, FrameIds
      <4>2. CASE ~ok
        BY <1>1, <3>2, <4>2 DEF TypeOK, FrameIds
      <4> QED
        BY <4>1, <4>2
    <3> QED
      BY <1>8, <3>1, <3>2 DEF SimplifyFrameThrows
  <2>2. SearchCleared' /\ PendingConflictAtBase'
    BY <1>1, <1>8, <2>1 DEF SearchCleared, PendingConflictAtBase, SimplifyFrameThrows, heldVars
  <2>3. NothingInvented'
    BY <1>8, NothingInventedThrows
  <2>4. Levels' = Levels /\ frameCount' \in Nat /\ frames' = frames
    BY <1>1, <1>8 DEF SimplifyFrameThrows, stackVars, Levels, TypeOK
  <2>5. UnsatFlagSound'
    BY <1>1, <2>4, UnsatFlagKept DEF Justified
  <2> QED
    BY <2>2, <2>3, <2>5 DEF Justified
<1>9. CASE EndSimplify
  BY <1>1, <1>9, JustifiedUnchanged DEF EndSimplify, stackVars, prepVars, satVars, heldVars
<1>10. CASE SolveSat \/ SolveUnsat \/ SolveInterrupted
  <2>1. /\ heldFrames' = {} /\ heldWorlds' = Worlds
        /\ PendingConflictAtBase'
        /\ UNCHANGED <<frameCount, clauses, internalFrameCount, substitutions>>
    BY <1>1, <1>10, SearchCleans
  <2>2. Levels' = Levels /\ frameCount \in Nat /\ internalFrameCount \in Nat
        /\ internalFrameCount <= frameCount
    BY <1>1, <2>1 DEF Levels, TypeOK
  <2>3. \A i \in Levels : frames'[i].id = frames[i].id /\ frames'[i].fla = frames[i].fla
    <3>1. CASE SolveUnsat
      <4>1. PICK k \in Levels : frames' = RememberUnsatFrame(frames, k)
        BY <1>1, <3>1, SolveUnsatMarks DEF StackInv
      <4>2. k \in Nat
        BY <2>2 DEF Levels
      <4> QED
        BY <1>1, <4>1, <4>2, RememberUnsatFrameMarks
    <3>2. CASE SolveSat \/ SolveInterrupted
      BY <3>2 DEF SolveSat, SolveInterrupted, stackVars
    <3> QED
      BY <1>10, <3>1, <3>2
  <2>4. NothingInvented'
    BY <1>1, <2>1, <2>2, <2>3, NothingInventedKept DEF Justified
  <2>5. UnsatFlagSound'
    <3>1. CASE SolveUnsat
      BY <1>1, <3>1, UnsatFlagSolve
    <3>2. CASE SolveSat \/ SolveInterrupted
      <4>1. frames' = frames
        BY <3>2 DEF SolveSat, SolveInterrupted, stackVars
      <4> QED
        BY <1>1, <2>1, <2>2, <4>1, UnsatFlagKept DEF Justified
    <3> QED
      BY <1>10, <3>1, <3>2
  <2> QED
    BY <2>1, <2>4, <2>5 DEF Justified, SearchCleared
<1>11. CASE SolveThrows
  BY <1>11 DEF SolveThrows
<1>12. CASE UNCHANGED vars
  BY <1>1, <1>12, JustifiedUnchanged DEF vars
<1> QED
  BY <1>2, <1>3, <1>4, <1>5, <1>6, <1>7, <1>8, <1>9, <1>10, <1>11, <1>12 DEF Next

LEMMA UnsatInit == Init => UnsatInv
<1> SUFFICES ASSUME Init PROVE UnsatInv
  OBVIOUS
<1>1. StackInv
  BY StackInit
<1>2. SearchCleared /\ PendingConflictAtBase
  BY DEF Init, SearchCleared, PendingConflictAtBase
<1>3. NothingInvented
  <2>1. Levels = {0} /\ 0..(internalFrameCount - 1) = {0}
    BY DEF Init, Levels
  <2>2. AssertedUpTo(0) \subseteq Worlds
    BY DEF AssertedUpTo
  <2> QED
    BY <2>1, <2>2 DEF Init, NothingInvented, FrameIds, BaseFrame
<1>4. UnsatFlagSound
  <2>1. Levels = {0}
    BY DEF Init, Levels
  <2> QED
    BY <2>1 DEF Init, UnsatFlagSound
<1> QED
  BY <1>1, <1>2, <1>3, <1>4 DEF UnsatInv

\* As long as no exception leaves the search, every mark on the stack and every
\* enabled clause is justified by the assertions, whatever was interrupted and
\* whatever failed in the preprocessing.
THEOREM UnsatInvariant == ~SearchFails => (Spec => []UnsatInv)
<1> SUFFICES ASSUME ~SearchFails PROVE Spec => []UnsatInv
  OBVIOUS
<1>1. Init => UnsatInv
  BY UnsatInit
<1>2. UnsatInv /\ [Next]_vars => UnsatInv'
  BY JustifiedNext, StackNext DEF UnsatInv, Justified
<1> QED
  BY <1>1, <1>2, PTL DEF Spec

\* The solver never holds more than was asserted.
THEOREM NothingEverInvented == ~SearchFails => (Spec => []NothingInvented)
<1> SUFFICES ASSUME ~SearchFails PROVE Spec => []NothingInvented
  OBVIOUS
<1>1. Spec => []UnsatInv
  BY UnsatInvariant
<1>2. UnsatInv => NothingInvented
  BY DEF UnsatInv
<1> QED
  BY <1>1, <1>2, PTL

\* A marked level is contradictory, as MainSolver.h says of PushFrame::unsat.
THEOREM MarksAreSound == ~SearchFails => (Spec => []UnsatFlagSound)
<1> SUFFICES ASSUME ~SearchFails PROVE Spec => []UnsatFlagSound
  OBVIOUS
<1>1. Spec => []UnsatInv
  BY UnsatInvariant
<1>2. UnsatInv => UnsatFlagSound
  BY DEF UnsatInv
<1> QED
  BY <1>1, <1>2, PTL

\* check() answers "unsat" only for a contradictory stack.
THEOREM UnsatAnswersAreSound == ~SearchFails => (Spec => []UnsatAnswerSound)
<1> SUFFICES ASSUME ~SearchFails PROVE Spec => []UnsatAnswerSound
  OBVIOUS
<1>1. Spec => []UnsatInv
  BY UnsatInvariant
<1>2. UnsatInv => UnsatAnswerSound
  <2> SUFFICES ASSUME UnsatInv, answer = "unsat" PROVE Asserted = {}
    BY DEF UnsatAnswerSound
  <2>1. frames[LastLevel].unsat /\ LastLevel \in Levels
    BY LastLevelIsLevel DEF UnsatInv, StackInv, UnsatAnswerMarked, isLastFrameUnsat
  <2> QED
    BY <2>1 DEF UnsatInv, UnsatFlagSound, Asserted
<1> QED
  BY <1>1, <1>2, PTL

-----------------------------------------------------------------------------
(* Nothing asserted is lost.                                               *)

\* What is enabled up to a level was enabled up to every lower one.
LEMMA EnabledMonotone ==
  ASSUME NEW i \in Nat, NEW j \in Nat, j <= i
  PROVE  EnabledUpTo(i) \subseteq EnabledUpTo(j)
BY DEF EnabledUpTo

\* A step that keeps the ids of levels 0..i and only adds clauses under them.
LEMMA EnabledShrinks ==
  ASSUME NEW i \in Nat,
         \A j \in 0..i : /\ frames'[j].id = frames[j].id
                         /\ clauses'[frames[j].id] \subseteq clauses[frames[j].id]
  PROVE  EnabledUpTo(i)' \subseteq EnabledUpTo(i)
BY DEF EnabledUpTo

\* A step that keeps the assertions of levels 0..i.
LEMMA AssertedKept ==
  ASSUME NEW i \in Nat, \A j \in 0..i : frames'[j].fla = frames[j].fla
  PROVE  AssertedUpTo(i)' = AssertedUpTo(i)
BY DEF AssertedUpTo

\* Below an unmarked level there is no marked one.
LEMMA UnmarkedBelow ==
  ASSUME TypeOK, UnsatFlagSound, NEW i \in Levels, ~frames[i].unsat, NEW j \in 0..i
  PROVE  j \in Levels /\ ~frames[j].unsat
<1>1. frameCount \in Nat
  BY DEF TypeOK
<1>2. i \in Nat /\ j \in Levels
  BY <1>1, LevelsBelow DEF Levels
<1>3. j = i \/ j < i
  BY <1>2
<1> QED
  BY <1>2, <1>3 DEF UnsatFlagSound

\* Without an abandoned search the Cnfizer notes what goes to the database.
LEMMA GiveToSolverNotes ==
  ASSUME TypeOK, heldFrames = {}, NEW G \in Formula, NEW id \in FrameIds
  PROVE  /\ GiveToSolver(G, id) =>
              \/ AlreadyProcessed(G, id) /\ clauses' = clauses /\ cnfCache' = cnfCache
              \/ /\ clauses' = [clauses EXCEPT ![id] = @ \cap G]
                 /\ cnfCache' = [cnfCache EXCEPT ![id] = @ \cap G]
         /\ GiveToSolver(G, id) => missedConflict' = missedConflict
         /\ GiveToSolver(G, id) \/ GiveToSolverUnsat(G, id) =>
              cnfCache' = cnfCache \/ cnfCache' = [cnfCache EXCEPT ![id] = @ \cap G]
<1>1. EmitNothing(G, id) => /\ AlreadyProcessed(G, id) /\ clauses' = clauses
                            /\ cnfCache' = cnfCache /\ missedConflict' = missedConflict
  BY DEF EmitNothing, satVars
<1>2. EmitAccepted(G, id) => /\ clauses' = [clauses EXCEPT ![id] = @ \cap G]
                             /\ cnfCache' = [cnfCache EXCEPT ![id] = @ \cap G]
                             /\ missedConflict' = missedConflict
  BY DEF EmitAccepted
<1>3. ~EmitUnderDecisions(G, id) /\ ~EmitConflictUnderDecisions(G, id)
  BY DEF EmitUnderDecisions, EmitConflictUnderDecisions
<1>4. EmitDropped(G, id) \/ EmitConflict(G, id) =>
        cnfCache' = [cnfCache EXCEPT ![id] = @ \cap G]
  BY DEF EmitDropped, EmitConflict
<1> QED
  BY <1>1, <1>2, <1>3, <1>4 DEF GiveToSolver, GiveToSolverUnsat
-----------------------------------------------------------------------------
(***************************************************************************)
(* Steps that say nothing new to the solver                                *)
(***************************************************************************)

\* The conjuncts of GivenInv beyond UnsatInv.
Given == CacheGiven /\ LevelsGiven

\* A step that keeps or pops levels, marks levels or lowers the cursor.
LEMMA GivenKept ==
  ASSUME TypeOK, Given, Levels' \subseteq Levels, frameCount' \in Nat,
         clauses' = clauses, cnfCache' = cnfCache,
         internalFrameCount' \in Nat, internalFrameCount' <= internalFrameCount,
         internalFrameCount' <= frameCount',
         \A j \in 0..(internalFrameCount' - 1) : substitutions'[j] = substitutions[j],
         firstNotSimplifiedFrame' \in Nat,
         firstNotSimplifiedFrame' <= firstNotSimplifiedFrame,
         \A i \in Levels' : /\ frames'[i].id = frames[i].id
                            /\ frames[i].unsat => frames'[i].unsat
                            /\ i < firstNotSimplifiedFrame' => frames'[i].fla = frames[i].fla
  PROVE  Given'
<1>1. ASSUME NEW i \in Levels'
      PROVE  /\ i \in Nat /\ 0..i \subseteq Levels'
             /\ EnabledUpTo(i)' \subseteq EnabledUpTo(i)
  <2>1. i \in Nat /\ 0..i \subseteq Levels'
    BY LevelsBelow DEF Levels
  <2> QED
    BY <2>1, EnabledShrinks
<1>2. CacheGiven'
  BY DEF Given, CacheGiven
<1>3. ASSUME NEW i \in Levels', i < firstNotSimplifiedFrame', ~frames'[i].unsat
      PROVE  EnabledUpTo(i)' \subseteq AssertedUpTo(i)'
  <2>1. \A j \in 0..i : frames'[j].fla = frames[j].fla
    BY <1>1, <1>3
  <2>2. AssertedUpTo(i)' = AssertedUpTo(i)
    BY <1>1, <2>1, AssertedKept
  <2>3. i < firstNotSimplifiedFrame /\ ~frames[i].unsat /\ i \in Levels
    BY <1>1, <1>3 DEF TypeOK
  <2> QED
    BY <1>1, <2>2, <2>3 DEF Given, LevelsGiven, SimplifiedLevelsGiven
<1>4. ASSUME NEW j \in 0..(internalFrameCount' - 1), ~frames'[j].unsat
      PROVE  EnabledUpTo(j)' \subseteq substitutions'[j]
  <2>0. internalFrameCount \in Nat
    BY DEF TypeOK
  <2>1. j \in 0..(frameCount' - 1) /\ j \in 0..(internalFrameCount - 1)
    BY <2>0, LevelsWiden
  <2>2. j \in Levels' /\ ~frames[j].unsat
    BY <1>4, <2>1 DEF Levels
  <2> QED
    BY <1>1, <2>1, <2>2 DEF Given, LevelsGiven, SubstitutionsGiven
<1> QED
  BY <1>2, <1>3, <1>4 DEF Given, LevelsGiven, SimplifiedLevelsGiven, SubstitutionsGiven

\* push() adds a level that is not simplified yet, under an id not used yet.
LEMMA GivenPush == ASSUME TypeOK, FrameIdsFresh, Given, Push PROVE Given'
<1>1. PICK top \in Nat : top = frameCount
  BY DEF TypeOK
<1>2. /\ Levels' = Levels \cup {top}
      /\ \A i \in Levels : frames'[i] = frames[i] /\ i < top /\ i \in Nat
      /\ frames'[top] = NewFrame
  BY <1>1 DEF TypeOK, Levels, Push
<1>3. UNCHANGED <<clauses, cnfCache, internalFrameCount, substitutions, firstNotSimplifiedFrame>>
  BY DEF Push, prepVars, satVars
<1>4. ASSUME NEW i \in Levels
      PROVE  EnabledUpTo(i)' = EnabledUpTo(i) /\ AssertedUpTo(i)' = AssertedUpTo(i)
  <2>1. i \in Nat /\ 0..i \subseteq Levels
    BY <1>1, LevelsBelow DEF Levels
  <2>2. \A j \in 0..i : frames'[j] = frames[j]
    BY <1>2, <2>1
  <2> QED
    BY <1>3, <2>2 DEF EnabledUpTo, AssertedUpTo
<1>5. CacheGiven'
  <2>1. clauses'[frames'[top].id] \subseteq cnfCache'[frames'[top].id]
    <3>1. frames'[top].id = frameId /\ frameId \in FrameIds /\ frameId \in Nat
      BY <1>2, BoundsAssumption DEF NewFrame, Push, FrameIds, TypeOK
    <3> QED
      BY <1>3, <3>1 DEF FrameIdsFresh
  <2>2. ASSUME NEW i \in Levels, ~frames'[i].unsat
        PROVE  clauses'[frames'[i].id] \subseteq cnfCache'[frames'[i].id]
    BY <1>2, <1>3, <2>2 DEF Given, CacheGiven
  <2> QED
    BY <1>2, <2>1, <2>2 DEF CacheGiven
<1>6. ASSUME NEW i \in Levels', i < firstNotSimplifiedFrame', ~frames'[i].unsat
      PROVE  EnabledUpTo(i)' \subseteq AssertedUpTo(i)'
  <2>1. i # top
    BY <1>1, <1>3, <1>6 DEF TypeOK
  <2>2. i \in Levels /\ ~frames[i].unsat
    BY <1>2, <1>6, <2>1
  <2> QED
    BY <1>3, <1>4, <1>6, <2>2 DEF Given, LevelsGiven, SimplifiedLevelsGiven
<1>7. ASSUME NEW j \in 0..(internalFrameCount' - 1), ~frames'[j].unsat
      PROVE  EnabledUpTo(j)' \subseteq substitutions'[j]
  <2>1. internalFrameCount \in Nat /\ internalFrameCount <= frameCount /\ frameCount \in Nat
    BY DEF TypeOK
  <2>2. j \in Levels
    BY <1>3, <2>1, LevelsWiden DEF Levels
  <2> QED
    BY <1>2, <1>3, <1>4, <1>7, <2>2 DEF Given, LevelsGiven, SubstitutionsGiven
<1> QED
  BY <1>5, <1>6, <1>7 DEF Given, LevelsGiven, SimplifiedLevelsGiven, SubstitutionsGiven

LEMMA GivenPop == ASSUME TypeOK, Given, Pop PROVE Given'
<1>1. /\ Levels' \subseteq Levels /\ frameCount' \in Nat
      /\ \A i \in Levels' : frames'[i] = frames[i]
  BY DEF TypeOK, Levels, Pop
<1>2. /\ internalFrameCount' \in Nat
      /\ internalFrameCount' <= internalFrameCount
      /\ internalFrameCount' <= frameCount'
  BY DEF TypeOK, Pop, SubstitutionLevelsAfterPop, Min2
<1>3. /\ firstNotSimplifiedFrame' \in Nat
      /\ firstNotSimplifiedFrame' <= firstNotSimplifiedFrame
  BY DEF TypeOK, Pop, CursorAfterPop, Min2
<1>4. UNCHANGED <<clauses, cnfCache>>
  BY DEF Pop
<1>5. \A j \in 0..(internalFrameCount' - 1) : substitutions'[j] = substitutions[j]
  BY DEF Pop
<1> QED
  BY <1>1, <1>2, <1>3, <1>4, <1>5, GivenKept

\* The level asserted into is to be simplified again.
LEMMA GivenInsert ==
  ASSUME TypeOK, Given, NEW f \in Formula, InsertFormula(f)
  PROVE  Given'
<1>1. Levels' = Levels /\ LastLevel \in Levels /\ frameCount' \in Nat
  BY LastLevelIsLevel DEF TypeOK, Levels, InsertFormula
<1>2. /\ firstNotSimplifiedFrame' \in Nat
      /\ firstNotSimplifiedFrame' <= firstNotSimplifiedFrame
      /\ firstNotSimplifiedFrame' <= LastLevel
  BY DEF TypeOK, InsertFormula, CursorAfterInsert, Min2, LastLevel
<1>3. ASSUME NEW i \in Levels
      PROVE  /\ frames'[i].id = frames[i].id
             /\ frames[i].unsat => frames'[i].unsat
             /\ i < firstNotSimplifiedFrame' => frames'[i].fla = frames[i].fla
  <2>1. CASE i = LastLevel
    <3>1. ~(i < firstNotSimplifiedFrame')
      BY <1>2, <2>1 DEF LastLevel, TypeOK
    <3> QED
      BY <1>1, <2>1, <3>1 DEF InsertFormula, TypeOK, Frame
  <2>2. CASE i # LastLevel
    BY <1>1, <2>2 DEF InsertFormula, TypeOK, Frame
  <2> QED
    BY <2>1, <2>2
<1>4. UNCHANGED <<frameCount, internalFrameCount, substitutions, clauses, cnfCache>>
  BY DEF InsertFormula, satVars
<1>5. internalFrameCount \in Nat /\ internalFrameCount <= frameCount
  BY DEF TypeOK
<1> QED
  BY <1>1, <1>2, <1>3, <1>4, <1>5, GivenKept

\* A step that moves neither the stack nor what the solver holds, or only marks.
LEMMA GivenMarked ==
  ASSUME TypeOK, Given,
         UNCHANGED <<frameCount, clauses, cnfCache, internalFrameCount, substitutions,
                     firstNotSimplifiedFrame>>,
         \A i \in Levels : /\ frames'[i].id = frames[i].id
                           /\ frames'[i].fla = frames[i].fla
                           /\ frames[i].unsat => frames'[i].unsat
  PROVE  Given'
<1>1. Levels' = Levels
  BY DEF Levels
<1>2. /\ frameCount \in Nat /\ internalFrameCount \in Nat
      /\ internalFrameCount <= frameCount /\ firstNotSimplifiedFrame \in Nat
  BY DEF TypeOK
<1> QED
  BY <1>1, <1>2, GivenKept
-----------------------------------------------------------------------------
(***************************************************************************)
(* Steps of simplifyFormulas()                                             *)
(***************************************************************************)

\* What is enabled up to an unmarked level satisfies the substitutions that
\* levels up to it have left.
LEMMA SubstitutionsHold ==
  ASSUME TypeOK, UnsatFlagSound, SubstitutionsGiven, NEW i \in Levels, ~frames[i].unsat,
         NEW w \in EnabledUpTo(i), NEW j \in 0..(internalFrameCount - 1), j <= i
  PROVE  w \in substitutions[j]
<1>1. i \in Nat /\ j \in Nat /\ j \in 0..i
  BY DEF Levels, TypeOK
<1>2. ~frames[j].unsat
  BY <1>1, UnmarkedBelow
<1>3. w \in EnabledUpTo(j)
  BY <1>1, EnabledMonotone
<1> QED
  BY <1>2, <1>3 DEF SubstitutionsGiven

\* A rewritten level says, with what the levels up to it have left, all that
\* was asserted in it.
LEMMA RewritingLosesNothing ==
  ASSUME TypeOK, SimplifiedInOrder, UnsatFlagSound, SubstitutionsGiven,
         firstNotSimplifiedFrame \in Levels, ~frames[firstNotSimplifiedFrame].unsat,
         NEW G \in Rewritings(firstNotSimplifiedFrame),
         NEW w \in EnabledUpTo(firstNotSimplifiedFrame), w \in G
  PROVE  w \in frames[firstNotSimplifiedFrame].fla
<1> DEFINE c == firstNotSimplifiedFrame
<1>1. w \in Worlds
  BY DEF EnabledUpTo
<1>2. ASSUME NEW j \in 0..(internalFrameCount - 1)
      PROVE  w \in substitutions[j]
  <2>1. j <= c
    BY DEF SimplifiedInOrder, TypeOK
  <2> QED
    BY <2>1, SubstitutionsHold
<1>3. w \in CurrentSubstitutions
  BY <1>1, <1>2 DEF CurrentSubstitutions
<1> QED
  BY <1>3 DEF Rewritings

\* A level that giveToSolver() takes for converted is said by the clauses.
LEMMA AlreadyProcessedIsGiven ==
  ASSUME TypeOK, FrameIdsFresh, UnsatFlagSound, CacheGiven,
         NEW i \in Levels, ~frames[i].unsat, NEW w \in EnabledUpTo(i),
         NEW G \in Formula, AlreadyProcessed(G, frames[i].id)
  PROVE  w \in G
<1>1. i \in Nat /\ 0 \in 0..i /\ i \in 0..i
  BY DEF Levels, TypeOK
<1>2. 0 \in Levels /\ ~frames[0].unsat
  BY <1>1, UnmarkedBelow
<1>3. w \in clauses[frames[0].id] /\ w \in clauses[frames[i].id]
  BY <1>1 DEF EnabledUpTo
<1> QED
  BY <1>2, <1>3 DEF CacheGiven, FrameIdsFresh, AlreadyProcessed

\* The level at the cursor is given to the solver.
LEMMA GivenSimplify ==
  ASSUME GivenInv, heldFrames = {}, SimplifyFrame
  PROVE  Given'
<1> DEFINE c == firstNotSimplifiedFrame
           id == frames[c].id
<1>1. /\ TypeOK /\ FrameIdsFresh /\ SimplifiedInOrder /\ UnsatFlagSound
      /\ CacheGiven /\ SimplifiedLevelsGiven /\ SubstitutionsGiven
  BY DEF GivenInv, UnsatInv, StackInv, LevelsGiven
<1>2. c \in Levels /\ id \in FrameIds /\ c \in Nat
  BY <1>1, SimplifyingType DEF SimplifyFrame, TypeOK
<1>3. PICK G \in Rewritings(c) : \E S \in Equations(G) :
        StoreSubstitutions(c, S) /\ GiveToSolver(G, id)
  BY DEF SimplifyFrame
<1>4. PICK S \in Equations(G) : StoreSubstitutions(c, S) /\ GiveToSolver(G, id)
  BY <1>3
<1>5. G \in Formula /\ S \in Formula /\ G \subseteq S
  <2>1. G \in Formula /\ S \in Formula
    BY <1>1, <1>2, RewritingType
  <2> QED
    BY <2>1 DEF Equations, Formula
<1>6. /\ frames' = frames /\ Levels' = Levels /\ frameCount \in Nat
      /\ firstNotSimplifiedFrame' = c + 1
  BY <1>1 DEF SimplifyFrame, stackVars, Levels, TypeOK
<1>7. \/ AlreadyProcessed(G, id) /\ clauses' = clauses /\ cnfCache' = cnfCache
      \/ /\ clauses' = [clauses EXCEPT ![id] = @ \cap G]
         /\ cnfCache' = [cnfCache EXCEPT ![id] = @ \cap G]
  BY <1>1, <1>2, <1>4, <1>5, GiveToSolverNotes
<1>8. \A k \in FrameIds : clauses'[k] \subseteq clauses[k]
  BY <1>1, <1>2, <1>7 DEF TypeOK
<1>9. ASSUME NEW i \in Levels
      PROVE  i \in Nat /\ 0..i \subseteq Levels /\ EnabledUpTo(i)' \subseteq EnabledUpTo(i)
  <2>1. i \in Nat /\ 0..i \subseteq Levels
    BY <1>6, LevelsBelow DEF Levels
  <2>2. \A j \in 0..i : clauses'[frames[j].id] \subseteq clauses[frames[j].id]
    BY <1>1, <1>8, <2>1 DEF TypeOK, Frame
  <2> QED
    BY <1>6, <2>1, <2>2, EnabledShrinks
<1>10. CacheGiven'
  <2> SUFFICES ASSUME NEW i \in Levels, ~frames[i].unsat
               PROVE  clauses'[frames[i].id] \subseteq cnfCache'[frames[i].id]
    BY <1>6 DEF CacheGiven
  <2>1. clauses[frames[i].id] \subseteq cnfCache[frames[i].id] /\ frames[i].id \in FrameIds
    BY <1>1 DEF CacheGiven, TypeOK, Frame
  <2> QED
    BY <1>1, <1>2, <1>7, <2>1 DEF TypeOK
<1>11. ASSUME NEW i \in Levels, i = c, ~frames[i].unsat, NEW w \in EnabledUpTo(i)'
       PROVE  w \in EnabledUpTo(c) /\ w \in G /\ w \in S
  <2>1. w \in EnabledUpTo(c)
    BY <1>9, <1>11
  <2>2. CASE AlreadyProcessed(G, id)
    BY <1>1, <1>2, <1>5, <1>11, <2>1, <2>2, AlreadyProcessedIsGiven
  <2>3. CASE clauses' = [clauses EXCEPT ![id] = @ \cap G]
    <3>1. w \in clauses'[id]
      <4>1. i \in 0..i
        BY <1>9
      <4> QED
        BY <1>6, <1>11, <4>1 DEF EnabledUpTo
    <3> QED
      BY <1>1, <1>2, <1>5, <2>1, <2>3, <3>1 DEF TypeOK
  <2> QED
    BY <1>5, <1>7, <2>1, <2>2, <2>3
<1>12. SimplifiedLevelsGiven'
  <2> SUFFICES ASSUME NEW i \in Levels, i < c + 1, ~frames[i].unsat, NEW w \in EnabledUpTo(i)'
               PROVE  w \in AssertedUpTo(i)
    <3>1. \A i \in Levels : AssertedUpTo(i)' = AssertedUpTo(i)
      BY <1>6, <1>9, AssertedKept
    <3> QED
      BY <1>6, <3>1 DEF SimplifiedLevelsGiven
  <2>1. CASE i < c
    BY <1>1, <1>9, <2>1 DEF SimplifiedLevelsGiven
  <2>2. CASE i = c
    <3>1. w \in EnabledUpTo(c) /\ w \in G
      BY <1>11, <2>2
    <3>2. w \in frames[c].fla
      BY <1>1, <1>2, <2>2, <3>1, RewritingLosesNothing
    <3>3. ASSUME NEW j \in 0..c
          PROVE  w \in frames[j].fla
      <4>1. CASE j = c
        BY <3>2, <4>1
      <4>2. CASE j # c
        <5>1. j \in Nat /\ j < c /\ j \in 0..j
          BY <1>2, <4>2
        <5>2. j \in Levels /\ ~frames[j].unsat
          BY <1>1, <1>2, <2>2, UnmarkedBelow
        <5>3. w \in EnabledUpTo(j)
          BY <1>2, <3>1, <5>1, EnabledMonotone
        <5>4. w \in AssertedUpTo(j)
          BY <1>1, <5>1, <5>2, <5>3 DEF SimplifiedLevelsGiven
        <5> QED
          BY <5>1, <5>4 DEF AssertedUpTo
      <4> QED
        BY <4>1, <4>2
    <3>4. w \in Worlds
      BY <3>1 DEF EnabledUpTo
    <3> QED
      BY <2>2, <3>3, <3>4 DEF AssertedUpTo
  <2>3. i < c \/ i = c
    BY <1>2, <1>9
  <2> QED
    BY <2>1, <2>2, <2>3
<1>13. SubstitutionsGiven'
  <2> SUFFICES ASSUME NEW j \in 0..(internalFrameCount' - 1), ~frames[j].unsat,
                      NEW w \in EnabledUpTo(j)'
               PROVE  w \in substitutions'[j]
    BY <1>6 DEF SubstitutionsGiven
  <2>1. j \in Levels
    <3>1. internalFrameCount' \in Nat /\ internalFrameCount' <= frameCount
      BY <1>1, <1>2, <1>4, <1>5, StoreSubstitutionsType DEF TypeOK
    <3> QED
      BY <1>6, <3>1, LevelsWiden DEF Levels
  <2>2. substitutions'[j] = IF j = c THEN S
                            ELSE IF j < internalFrameCount THEN substitutions[j] ELSE Worlds
    BY <1>4 DEF StoreSubstitutions
  <2>3. CASE j = c
    BY <1>11, <2>1, <2>2, <2>3
  <2>4. CASE j # c /\ j < internalFrameCount
    <3>1. j \in 0..(internalFrameCount - 1)
      BY <1>1, <2>4 DEF TypeOK
    <3> QED
      BY <1>1, <1>9, <2>1, <2>2, <2>4, <3>1 DEF SubstitutionsGiven
  <2>5. CASE j # c /\ ~(j < internalFrameCount)
    BY <2>2, <2>5 DEF EnabledUpTo
  <2> QED
    BY <2>3, <2>4, <2>5
<1> QED
  BY <1>10, <1>12, <1>13 DEF Given, LevelsGiven

\* A level refused is marked with those above it; nothing moves below it.
LEMMA GivenSimplifyUnsat ==
  ASSUME GivenInv, heldFrames = {}, SimplifyFrameUnsat
  PROVE  Given'
<1> DEFINE c == firstNotSimplifiedFrame
           id == frames[c].id
<1>1. /\ TypeOK /\ FrameIdsFresh /\ SimplifiedInOrder
      /\ CacheGiven /\ SimplifiedLevelsGiven /\ SubstitutionsGiven
  BY DEF GivenInv, UnsatInv, StackInv, LevelsGiven
<1>2. c \in Levels /\ id \in FrameIds /\ c \in Nat
  BY <1>1, SimplifyingType DEF SimplifyFrameUnsat, TypeOK
<1>3. PICK G \in Formula : \E S \in Formula :
        /\ StoreSubstitutions(c, S)
        /\ GiveToSolver(G, id) \/ GiveToSolverUnsat(G, id)
  BY <1>1, SimplifyFrameStep
<1>4. PICK S \in Formula : /\ StoreSubstitutions(c, S)
                           /\ GiveToSolver(G, id) \/ GiveToSolverUnsat(G, id)
  BY <1>3
<1>5. /\ frameCount' = frameCount /\ Levels' = Levels /\ frameCount \in Nat
      /\ firstNotSimplifiedFrame' = c + 1
      /\ frames' = RememberUnsatFrame(frames, c)
  BY <1>1 DEF SimplifyFrameUnsat, Levels, TypeOK
<1>6. \A i \in Levels : /\ frames'[i].id = frames[i].id /\ frames'[i].fla = frames[i].fla
                        /\ frames'[i].unsat <=> frames[i].unsat \/ i >= c
  BY <1>1, <1>2, <1>5, RememberUnsatFrameMarks
<1>7. /\ clauses' = clauses \/ clauses' = [clauses EXCEPT ![id] = @ \cap G]
      /\ cnfCache' = cnfCache \/ cnfCache' = [cnfCache EXCEPT ![id] = @ \cap G]
  BY <1>1, <1>2, <1>4, GiveToSolverAtLevelZero, GiveToSolverNotes
<1>8. ASSUME NEW i \in Levels, ~frames'[i].unsat
      PROVE  i \in Nat /\ i < c /\ ~frames[i].unsat
  BY <1>2, <1>5, <1>6, <1>8 DEF Levels
<1>9. ASSUME NEW i \in Levels
      PROVE  i \in Nat /\ 0..i \subseteq Levels
             /\ EnabledUpTo(i)' \subseteq EnabledUpTo(i) /\ AssertedUpTo(i)' = AssertedUpTo(i)
  <2>1. i \in Nat /\ 0..i \subseteq Levels
    BY <1>5, LevelsBelow DEF Levels
  <2>2. \A k \in FrameIds : clauses'[k] \subseteq clauses[k]
    BY <1>1, <1>2, <1>7 DEF TypeOK
  <2>3. \A j \in 0..i : /\ frames'[j].id = frames[j].id /\ frames'[j].fla = frames[j].fla
                        /\ clauses'[frames[j].id] \subseteq clauses[frames[j].id]
    BY <1>1, <1>6, <2>1, <2>2 DEF TypeOK, Frame
  <2> QED
    BY <2>1, <2>3, EnabledShrinks, AssertedKept
<1>10. CacheGiven'
  <2> SUFFICES ASSUME NEW i \in Levels, ~frames'[i].unsat
               PROVE  clauses'[frames[i].id] \subseteq cnfCache'[frames[i].id]
    BY <1>5, <1>6 DEF CacheGiven
  <2>1. frames[i].id # id
    BY <1>1, <1>2, <1>8, IdsDistinct
  <2>2. clauses[frames[i].id] \subseteq cnfCache[frames[i].id] /\ frames[i].id \in FrameIds
    BY <1>1, <1>8 DEF CacheGiven, TypeOK, Frame
  <2> QED
    BY <1>1, <1>7, <2>1, <2>2 DEF TypeOK
<1>11. SimplifiedLevelsGiven'
  BY <1>1, <1>5, <1>8, <1>9 DEF SimplifiedLevelsGiven
<1>12. SubstitutionsGiven'
  <2> SUFFICES ASSUME NEW j \in 0..(internalFrameCount' - 1), ~frames'[j].unsat
               PROVE  EnabledUpTo(j)' \subseteq substitutions'[j]
    BY DEF SubstitutionsGiven
  <2>1. j \in Levels
    <3>1. internalFrameCount' \in Nat /\ internalFrameCount' <= frameCount
      BY <1>1, <1>2, <1>4, StoreSubstitutionsType DEF TypeOK
    <3> QED
      BY <1>5, <3>1, LevelsWiden DEF Levels
  <2>2. substitutions'[j] = IF j < internalFrameCount THEN substitutions[j] ELSE Worlds
    BY <1>4, <1>8, <2>1 DEF StoreSubstitutions
  <2>3. CASE j < internalFrameCount
    <3>1. j \in 0..(internalFrameCount - 1)
      BY <1>1, <2>3 DEF TypeOK
    <3> QED
      BY <1>1, <1>8, <1>9, <2>1, <2>2, <2>3, <3>1 DEF SubstitutionsGiven
  <2>4. CASE ~(j < internalFrameCount)
    BY <2>2, <2>4 DEF EnabledUpTo
  <2> QED
    BY <2>3, <2>4
<1> QED
  BY <1>10, <1>11, <1>12 DEF Given, LevelsGiven
-----------------------------------------------------------------------------
LEMMA GivenNext ==
  ASSUME ~SearchFails, ~PreprocessingFails, GivenInv, [Next]_vars
  PROVE  Given'
<1>1. /\ TypeOK /\ FrameIdsFresh /\ OkUnlessMarked /\ Given /\ heldFrames = {}
  BY DEF GivenInv, UnsatInv, StackInv, SearchCleared, Given
<1>2. CASE Push
  BY <1>1, <1>2, GivenPush
<1>3. CASE Pop
  BY <1>1, <1>3, GivenPop
<1>4. ASSUME NEW f \in Formula, InsertFormula(f)
      PROVE  Given'
  BY <1>1, <1>4, GivenInsert
<1>5. CASE CheckKnownUnsat
  BY <1>1, <1>5, GivenMarked DEF CheckKnownUnsat, stackVars, prepVars, satVars
<1>6. ASSUME NEW caller \in {"simplify", "check"}, BeginSimplify(caller)
      PROVE  Given'
  BY <1>1, <1>6, GivenMarked DEF BeginSimplify, stackVars, prepVars, satVars
<1>7. CASE SimplifyFrame
  BY <1>1, <1>7, GivenSimplify
<1>8. CASE SimplifyFrameUnsat
  BY <1>1, <1>8, GivenSimplifyUnsat
<1>9. CASE SimplifyFrameThrows \/ SolveThrows
  BY <1>9 DEF SimplifyFrameThrows, SolveThrows
<1>10. CASE EndSimplify
  BY <1>1, <1>10, GivenMarked DEF EndSimplify, stackVars, prepVars, satVars
<1>11. CASE SolveSat
  BY <1>1, <1>11, GivenMarked DEF SolveSat, stackVars, prepVars
<1>12. CASE SolveUnsat
  <2>1. PICK k \in Levels : frames' = RememberUnsatFrame(frames, k)
    BY <1>1, <1>12, SolveUnsatMarks
  <2>2. k \in Nat
    BY <1>1 DEF Levels, TypeOK
  <2>3. \A i \in Levels : /\ frames'[i].id = frames[i].id
                          /\ frames'[i].fla = frames[i].fla
                          /\ frames[i].unsat => frames'[i].unsat
    BY <1>1, <2>1, <2>2, RememberUnsatFrameMarks
  <2> QED
    BY <1>1, <1>12, <2>3, GivenMarked DEF SolveUnsat, prepVars
<1>13. CASE SolveInterrupted
  BY <1>1, <1>13, GivenMarked DEF SolveInterrupted, stackVars, prepVars
<1>14. CASE UNCHANGED vars
  BY <1>1, <1>14, GivenMarked DEF vars
<1> QED
  BY <1>2, <1>3, <1>4, <1>5, <1>6, <1>7, <1>8, <1>9, <1>10, <1>11, <1>12, <1>13, <1>14 DEF Next

LEMMA GivenInit == Init => GivenInv
<1> SUFFICES ASSUME Init PROVE GivenInv
  OBVIOUS
<1>1. UnsatInv
  BY UnsatInit
<1>2. CacheGiven
  <2>1. Levels = {0}
    BY DEF Init, Levels
  <2> QED
    BY <2>1 DEF Init, CacheGiven, FrameIds, BaseFrame
<1>3. SimplifiedLevelsGiven
  <2>1. Levels = {0}
    BY DEF Init, Levels
  <2> QED
    BY <2>1 DEF Init, SimplifiedLevelsGiven
<1>4. SubstitutionsGiven
  <2>1. 0..(internalFrameCount - 1) = {0}
    BY DEF Init
  <2> QED
    BY <2>1 DEF Init, SubstitutionsGiven, EnabledUpTo
<1> QED
  BY <1>1, <1>2, <1>3, <1>4 DEF GivenInv, LevelsGiven

LEMMA GivenInvNext ==
  ASSUME ~SearchFails, ~PreprocessingFails, GivenInv, [Next]_vars
  PROVE  GivenInv'
<1>1. UnsatInv'
  BY JustifiedNext, StackNext DEF GivenInv, UnsatInv, Justified
<1> QED
  BY <1>1, GivenNext DEF GivenInv, Given

\* Whatever was pushed, popped, asserted and interrupted: nothing asserted at a
\* level that simplifyFormulas() takes for done, and nothing a substitution
\* replaced, is missing from the clauses, unless the level is marked.
THEOREM NothingAssertedIsLost ==
  ASSUME ~SearchFails, ~PreprocessingFails
  PROVE  Spec => []LevelsGiven
<1>1. Init => GivenInv
  BY GivenInit
<1>2. GivenInv /\ [Next]_vars => GivenInv'
  BY GivenInvNext
<1>3. GivenInv => LevelsGiven
  BY DEF GivenInv
<1> QED
  BY <1>1, <1>2, <1>3, PTL DEF Spec
-----------------------------------------------------------------------------
(***************************************************************************)
(* Without interrupts                                                      *)
(***************************************************************************)

\* A step that moves neither the marks nor what a search can miss.
LEMMA NothingMissedKept ==
  ASSUME NothingMissed, UNCHANGED <<frameCount, frames, missedConflict>>,
         pendingConflict' => pendingConflict,
         call' = "check" => call = "check" \/ ~isLastFrameUnsat
  PROVE  NothingMissed'
BY DEF NothingMissed, isLastFrameUnsat, LastLevel

\* A clause falsified by the base frame marks the base level.
LEMMA MissedMarksBase ==
  ASSUME GivenInv, NothingMissed, heldFrames = {}, SimplifyFrameUnsat, missedConflict'
  PROVE  frames'[0].unsat
<1> DEFINE c == firstNotSimplifiedFrame
           id == frames[c].id
<1>1. TypeOK /\ FrameIdsFresh
  BY DEF GivenInv, UnsatInv, StackInv
<1>2. c \in Levels /\ id \in FrameIds /\ c \in Nat /\ 0 \in Levels
  BY <1>1, SimplifyingType DEF SimplifyFrameUnsat, TypeOK, Levels
<1>3. frames'[0].unsat <=> frames[0].unsat \/ 0 >= c
  BY <1>1, <1>2, RememberUnsatFrameMarks DEF SimplifyFrameUnsat
<1>4. CASE missedConflict
  BY <1>3, <1>4 DEF NothingMissed
<1>5. CASE ~missedConflict
  <2>1. PICK G \in Formula : GiveToSolver(G, id) \/ GiveToSolverUnsat(G, id)
    BY <1>1, SimplifyFrameStep
  <2>2. EmitConflict(G, id)
    BY <1>1, <1>2, <1>5, <2>1, GiveToSolverNotes
    DEF GiveToSolverUnsat, EmitDropped, EmitConflictUnderDecisions, satVars
  <2>3. id = frames[0].id
    BY <1>1, <2>2 DEF EmitConflict, NothingMissed, FrameIdsFresh
  <2>4. c = 0
    BY <1>1, <1>2, <2>3, IdsDistinct
  <2> QED
    BY <1>3, <2>4
<1> QED
  BY <1>4, <1>5

LEMMA NothingMissedNext ==
  ASSUME ~Interrupts, ~SearchFails, ~PreprocessingFails, GivenInv, NothingMissed, [Next]_vars
  PROVE  NothingMissed'
<1>1. TypeOK /\ OkUnlessMarked /\ FrameIdsFresh /\ heldFrames = {} /\ 0 \in Levels
  BY DEF GivenInv, UnsatInv, StackInv, SearchCleared, TypeOK, Levels
<1> USE DEF stackVars, prepVars, satVars, heldVars
<1>2. CASE Push
  <2>1. frames'[0] = frames[0]
    BY <1>1, <1>2 DEF Push, TypeOK, Levels
  <2> QED
    BY <1>2, <2>1 DEF Push, NothingMissed
<1>3. CASE Pop
  <2>1. frames'[0] = frames[0]
    BY <1>1, <1>3 DEF Pop, TypeOK
  <2> QED
    BY <1>3, <2>1 DEF Pop, NothingMissed
<1>4. ASSUME NEW f \in Formula, InsertFormula(f)
      PROVE  NothingMissed'
  <2>1. frames'[0].unsat = frames[0].unsat
    BY <1>1, <1>4, LastLevelIsLevel DEF InsertFormula, TypeOK, Frame
  <2> QED
    BY <1>4, <2>1 DEF InsertFormula, NothingMissed
<1>5. CASE CheckKnownUnsat
  BY <1>5, NothingMissedKept DEF CheckKnownUnsat
<1>6. ASSUME NEW caller \in {"simplify", "check"}, BeginSimplify(caller)
      PROVE  NothingMissed'
  BY <1>6, NothingMissedKept DEF BeginSimplify
<1>7. CASE SimplifyFrame
  <2>1. frames[firstNotSimplifiedFrame].id \in FrameIds
    BY <1>1, <1>7, SimplifyingType DEF SimplifyFrame
  <2>2. PICK G \in Rewritings(firstNotSimplifiedFrame) :
          GiveToSolver(G, frames[firstNotSimplifiedFrame].id)
    BY <1>7 DEF SimplifyFrame
  <2>3. G \in Formula
    <3>1. frames[firstNotSimplifiedFrame].fla \in Formula
      BY <1>1, <1>7, SimplifyingType DEF SimplifyFrame, TypeOK, Frame
    <3> QED
      BY <2>2, <3>1 DEF Rewritings
  <2>4. missedConflict' = missedConflict /\ (pendingConflict' => pendingConflict)
    BY <1>1, <2>1, <2>2, <2>3, GiveToSolverNotes, GiveToSolverAtLevelZero
  <2> QED
    BY <1>7, <2>4, NothingMissedKept DEF SimplifyFrame
<1>8. CASE SimplifyFrameUnsat
  <2>1. frames[firstNotSimplifiedFrame].id \in FrameIds
    BY <1>1, <1>8, SimplifyingType DEF SimplifyFrameUnsat
  <2>2. PICK G \in Formula : \/ GiveToSolver(G, frames[firstNotSimplifiedFrame].id)
                             \/ GiveToSolverUnsat(G, frames[firstNotSimplifiedFrame].id)
    BY <1>1, <1>8, SimplifyFrameStep
  <2>3. ~pendingConflict'
    BY <1>1, <2>1, <2>2, GiveToSolverAtLevelZero DEF NothingMissed
  <2>4. missedConflict' => frames'[0].unsat
    BY <1>1, <1>8, MissedMarksBase
  <2>5. call' # "check"
    BY <1>8 DEF SimplifyFrameUnsat
  <2> QED
    BY <2>3, <2>4, <2>5 DEF NothingMissed
<1>9. CASE SimplifyFrameThrows \/ SolveThrows \/ SolveInterrupted
  BY <1>9 DEF SimplifyFrameThrows, SolveThrows, SolveInterrupted
<1>10. CASE EndSimplify
  BY <1>10, NothingMissedKept DEF EndSimplify
<1>11. CASE SolveSat
  BY <1>11, NothingMissedKept DEF SolveSat
<1>12. CASE SolveUnsat
  <2>1. PICK k \in Levels : frames' = RememberUnsatFrame(frames, k)
    BY <1>1, <1>12, SolveUnsatMarks
  <2>2. k \in Nat
    BY <1>1 DEF Levels, TypeOK
  <2>3. frames[0].unsat => frames'[0].unsat
    BY <1>1, <2>1, <2>2, RememberUnsatFrameMarks
  <2> QED
    BY <1>12, <2>3 DEF SolveUnsat, NothingMissed
<1>13. CASE UNCHANGED vars
  BY <1>13, NothingMissedKept DEF vars
<1> QED
  BY <1>2, <1>3, <1>4, <1>5, <1>6, <1>7, <1>8, <1>9, <1>10, <1>11, <1>12, <1>13 DEF Next

\* A search that finds an assignment has found a model of the assertions.
LEMMA SatSolve ==
  ASSUME GivenInv, NothingMissed, heldFrames = {}, SolveSat
  PROVE  model' \in Asserted
<1>1. /\ TypeOK /\ UnsatFlagSound /\ SimplifiedLevelsGiven
      /\ LastLevel \in Levels /\ 0 \in Levels
  BY LastLevelIsLevel DEF GivenInv, UnsatInv, StackInv, LevelsGiven, TypeOK, Levels
<1>2. ~frames[LastLevel].unsat
  BY DEF SolveSat, Solving, NothingMissed, isLastFrameUnsat
<1>3. ~missedConflict
  <2>1. LastLevel = 0 \/ 0 < LastLevel
    BY <1>1 DEF Levels, TypeOK
  <2> QED
    BY <1>1, <1>2, <2>1 DEF NothingMissed, UnsatFlagSound
<1>4. model' \in Enabled
  BY <1>3 DEF SolveSat, SearchSpaces
<1>5. LastLevel < firstNotSimplifiedFrame
  BY <1>1 DEF SolveSat, Solving, LastLevel, TypeOK
<1> QED
  BY <1>1, <1>2, <1>4, <1>5 DEF SimplifiedLevelsGiven, Enabled, Asserted

LEMMA SatAnswerNext ==
  ASSUME ~Interrupts, ~SearchFails, ~PreprocessingFails, SatInv, [Next]_vars
  PROVE  SatAnswerSound'
<1>1. /\ TypeOK /\ GivenInv /\ NothingMissed /\ SatAnswerSound /\ heldFrames = {}
  BY DEF SatInv, GivenInv, UnsatInv, StackInv, SearchCleared
<1> USE DEF stackVars, prepVars, satVars
<1>2. CASE SolveSat
  <2>1. model' \in Asserted
    BY <1>1, <1>2, SatSolve
  <2>2. Asserted' = Asserted
    BY <1>2 DEF SolveSat, Asserted, AssertedUpTo, LastLevel
  <2> QED
    BY <1>2, <2>1, <2>2 DEF SolveSat, SatAnswerSound
<1>3. CASE UNCHANGED <<frameCount, frames, model, status, answer>>
  <2>1. Asserted' = Asserted
    BY <1>3 DEF Asserted, AssertedUpTo, LastLevel
  <2> QED
    BY <1>1, <1>3, <2>1 DEF SatAnswerSound
<1>4. CASE answer' # "sat"
  BY <1>4 DEF SatAnswerSound
<1>5. Push \/ Pop \/ CheckKnownUnsat \/ SimplifyFrameUnsat \/ SolveUnsat => answer' # "sat"
  BY DEF Push, Pop, CheckKnownUnsat, SimplifyFrameUnsat, SolveUnsat
<1>6. \A f \in Formula : InsertFormula(f) => answer' # "sat"
  BY DEF InsertFormula
<1>7. \A caller \in {"simplify", "check"} : BeginSimplify(caller) => answer' # "sat"
  BY DEF BeginSimplify
<1>8. SimplifyFrame \/ EndSimplify \/ UNCHANGED vars =>
        UNCHANGED <<frameCount, frames, model, status, answer>>
  BY DEF SimplifyFrame, EndSimplify, vars
<1>9. ~SimplifyFrameThrows /\ ~SolveThrows /\ ~SolveInterrupted
  BY DEF SimplifyFrameThrows, SolveThrows, SolveInterrupted
<1> QED
  BY <1>2, <1>3, <1>4, <1>5, <1>6, <1>7, <1>8, <1>9 DEF Next

LEMMA SatInit == Init => SatInv
<1> SUFFICES ASSUME Init PROVE SatInv
  OBVIOUS
<1>1. GivenInv
  BY GivenInit
<1>2. NothingMissed /\ SatAnswerSound
  BY DEF Init, NothingMissed, SatAnswerSound
<1> QED
  BY <1>1, <1>2 DEF SatInv

LEMMA SatNext ==
  ASSUME ~Interrupts, ~SearchFails, ~PreprocessingFails, SatInv, [Next]_vars
  PROVE  SatInv'
<1>1. GivenInv'
  BY GivenInvNext DEF SatInv
<1>2. NothingMissed'
  BY NothingMissedNext DEF SatInv
<1>3. SatAnswerSound'
  BY SatAnswerNext
<1> QED
  BY <1>1, <1>2, <1>3 DEF SatInv

\* check() answers "sat" only with a model of every assertion on the stack.
THEOREM SatAnswersAreSound ==
  ASSUME ~Interrupts, ~SearchFails, ~PreprocessingFails
  PROVE  Spec => []SatAnswerSound
<1>1. Init => SatInv
  BY SatInit
<1>2. SatInv /\ [Next]_vars => SatInv'
  BY SatNext
<1>3. SatInv => SatAnswerSound
  BY DEF SatInv
<1> QED
  BY <1>1, <1>2, <1>3, PTL DEF Spec
-----------------------------------------------------------------------------
(***************************************************************************)
(* MainSolver implements AssertionStack                                    *)
(***************************************************************************)

\* The assertions of a level, as AssertionStack sees them.
Fla == [i \in Levels |-> frames[i].fla]

LEMMA AbstractAsserted == ASSUME TypeOK PROVE Abstract!Asserted = Asserted
<1>1. Levels = 0..(frameCount - 1) /\ LastLevel = frameCount - 1
  BY DEF Levels, LastLevel
<1> QED
  BY <1>1 DEF Abstract!Asserted, Asserted, AssertedUpTo

LEMMA AbstractInit == Init => Abstract!Init
<1> SUFFICES ASSUME Init PROVE Abstract!Init
  OBVIOUS
<1>1. Levels = {0}
  BY DEF Init, Levels
<1> QED
  BY <1>1 DEF Init, Abstract!Init

\* A step in which neither an assertion nor an answer changes.
LEMMA AbstractStutters ==
  ASSUME TypeOK, frameCount' = frameCount, answer' = answer,
         \A i \in Levels : frames'[i].fla = frames[i].fla
  PROVE  UNCHANGED Abstract!vars
<1>1. Levels' = Levels
  BY DEF Levels
<1>2. Fla' = Fla
  BY <1>1 DEF Fla
<1> QED
  BY <1>2 DEF Abstract!vars, Fla

\* A call begins or ends, and the assertions stay.
LEMMA AbstractCheck ==
  ASSUME TypeOK, frameCount' = frameCount,
         \A i \in Levels : frames'[i].fla = frames[i].fla,
         answer' \in Answer,
         answer' = "sat" => Asserted # {},
         answer' = "unsat" => Asserted = {}
  PROVE  Abstract!Next
<1>1. Levels' = Levels
  BY DEF Levels
<1>2. Fla' = Fla
  BY <1>1 DEF Fla
<1>3. CASE answer' = "none"
  BY <1>2, <1>3 DEF Abstract!Next, Abstract!Forget, Fla
<1>4. CASE answer' # "none"
  <2>1. Abstract!Check
    BY <1>2, <1>4, AbstractAsserted DEF Abstract!Check, Answer, Fla
  <2> QED
    BY <2>1 DEF Abstract!Next
<1> QED
  BY <1>3, <1>4

LEMMA AbstractPush == ASSUME TypeOK, Push PROVE Abstract!Push
<1>1. Levels = 0..(frameCount - 1) /\ Levels' = 0..frameCount /\ frameCount \in Nat
  BY DEF Levels, Push, TypeOK
<1>2. Fla' = [i \in 0..frameCount |-> IF i < frameCount THEN Fla[i] ELSE Worlds]
  <2>1. \A i \in 0..frameCount : frames'[i] = IF i < frameCount THEN frames[i] ELSE NewFrame
    BY DEF Push
  <2>2. \A i \in 0..frameCount : i < frameCount => i \in Levels
    BY <1>1
  <2> QED
    BY <1>1, <2>1, <2>2 DEF Fla, NewFrame
<1> QED
  BY <1>2 DEF Abstract!Push, Fla, Push

LEMMA AbstractPop == ASSUME TypeOK, Pop PROVE Abstract!Pop
<1>1. Levels' = 0..(frameCount - 2) /\ Levels' \subseteq Levels
  BY DEF Levels, Pop, TypeOK
<1>2. Fla' = [i \in 0..(frameCount - 2) |-> Fla[i]]
  <2>1. \A i \in 0..(frameCount - 2) : frames'[i] = frames[i]
    BY DEF Pop
  <2> QED
    BY <1>1, <2>1 DEF Fla
<1> QED
  BY <1>2 DEF Abstract!Pop, Fla, Pop

LEMMA AbstractAssert ==
  ASSUME TypeOK, NEW f \in Formula, InsertFormula(f)
  PROVE  Abstract!Assert(f)
<1>1. Levels' = Levels /\ LastLevel \in Levels /\ LastLevel = frameCount - 1
  BY LastLevelIsLevel DEF Levels, InsertFormula, LastLevel
<1>2. Fla' = [Fla EXCEPT ![frameCount - 1] = @ \cap f]
  <2>1. \A i \in Levels : frames'[i].fla = IF i = LastLevel THEN frames[i].fla \cap f
                                           ELSE frames[i].fla
    BY DEF InsertFormula, TypeOK, Frame
  <2> QED
    BY <1>1, <2>1 DEF Fla
<1> QED
  BY <1>2 DEF Abstract!Assert, Fla, InsertFormula

LEMMA AbstractNext ==
  ASSUME ~Interrupts, ~SearchFails, ~PreprocessingFails, SatInv, SatInv', [Next]_vars
  PROVE  [Abstract!Next]_(Abstract!vars)
<1>1. /\ TypeOK /\ OkUnlessMarked /\ SatAnswerSound' /\ UnsatFlagSound' /\ UnsatAnswerMarked'
      /\ TypeOK'
  BY DEF SatInv, GivenInv, UnsatInv, StackInv
<1> USE DEF stackVars
<1>2. CASE Push
  BY <1>1, <1>2, AbstractPush DEF Abstract!Next
<1>3. CASE Pop
  BY <1>1, <1>3, AbstractPop DEF Abstract!Next
<1>4. ASSUME NEW f \in Formula, InsertFormula(f)
      PROVE  Abstract!Next
  <2>1. Abstract!Assert(f) /\ f \in Abstract!Formula
    BY <1>1, <1>4, AbstractAssert DEF Formula, Abstract!Formula
  <2> QED
    BY <2>1 DEF Abstract!Next
<1>5. ASSUME frameCount' = frameCount, \A i \in Levels : frames'[i].fla = frames[i].fla
      PROVE  Abstract!Next
  <2>1. Asserted' = Asserted
    <3>1. LastLevel \in Levels /\ Levels = 0..LastLevel
      BY <1>1, LastLevelIsLevel DEF Levels, LastLevel
    <3> QED
      BY <1>5, <3>1 DEF Asserted, AssertedUpTo, LastLevel
  <2>2. answer' = "sat" => Asserted # {}
    BY <1>1, <2>1 DEF SatAnswerSound
  <2>3. answer' = "unsat" => Asserted = {}
    <3>1. LastLevel' \in Levels'
      BY <1>1, <1>5, LastLevelIsLevel DEF LastLevel, Levels
    <3> QED
      BY <1>1, <2>1, <3>1 DEF UnsatAnswerMarked, UnsatFlagSound, isLastFrameUnsat, Asserted
  <2>4. answer' \in Answer
    BY <1>1 DEF TypeOK
  <2> QED
    BY <1>1, <1>5, <2>2, <2>3, <2>4, AbstractCheck
<1>6. \/ CheckKnownUnsat \/ SimplifyFrame \/ EndSimplify \/ SolveSat
      \/ \E caller \in {"simplify", "check"} : BeginSimplify(caller)
      => frameCount' = frameCount /\ frames' = frames
  BY DEF CheckKnownUnsat, SimplifyFrame, EndSimplify, SolveSat, BeginSimplify
<1>7. CASE SimplifyFrameUnsat
  <2>1. firstNotSimplifiedFrame \in Nat
    BY <1>1 DEF TypeOK
  <2>2. \A i \in Levels : frames'[i].fla = frames[i].fla
    BY <1>1, <1>7, <2>1, RememberUnsatFrameMarks DEF SimplifyFrameUnsat
  <2> QED
    BY <1>5, <1>7, <2>2 DEF SimplifyFrameUnsat
<1>8. CASE SolveUnsat
  <2>1. PICK k \in Levels : frames' = RememberUnsatFrame(frames, k)
    BY <1>1, <1>8, SolveUnsatMarks
  <2>2. k \in Nat
    BY <1>1 DEF Levels, TypeOK
  <2>3. \A i \in Levels : frames'[i].fla = frames[i].fla
    BY <1>1, <2>1, <2>2, RememberUnsatFrameMarks
  <2> QED
    BY <1>5, <1>8, <2>3 DEF SolveUnsat
<1>9. ~SimplifyFrameThrows /\ ~SolveThrows /\ ~SolveInterrupted
  BY DEF SimplifyFrameThrows, SolveThrows, SolveInterrupted
<1>10. CASE UNCHANGED vars
  BY <1>1, <1>10, AbstractStutters DEF vars
<1> QED
  BY <1>2, <1>3, <1>4, <1>5, <1>6, <1>7, <1>8, <1>9, <1>10 DEF Next

\* Pushed, popped, asserted and asked in any order, simplifications in between:
\* MainSolver answers as a stack of assertions would.
THEOREM ImplementsStack ==
  ASSUME ~Interrupts, ~SearchFails, ~PreprocessingFails
  PROVE  Spec => ImplementsAssertionStack
<1>1. Init => Abstract!Init
  BY AbstractInit
<1>2. SatInv /\ SatInv' /\ [Next]_vars => [Abstract!Next]_(Abstract!vars)
  BY AbstractNext
<1>3. Init => SatInv
  BY SatInit
<1>4. SatInv /\ [Next]_vars => SatInv'
  BY SatNext
<1> QED
  BY <1>1, <1>2, <1>3, <1>4, PTL DEF Spec, ImplementsAssertionStack, Abstract!Spec
=============================================================================
