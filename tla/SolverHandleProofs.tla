------------------------- MODULE SolverHandleProofs -------------------------
(***************************************************************************)
(* What holds of SolverHandle for every set of handles and worlds, scripts *)
(* and levels of any length, with or without timeouts and failures.        *)
(***************************************************************************)
EXTENDS SolverHandle, TLAPS

-----------------------------------------------------------------------------
(***************************************************************************)
(* The four ways in which levels change                                    *)
(***************************************************************************)

\* Marking levels leaves their formulas alone.
LEMMA RememberUnsatFrameFacts ==
  ASSUME NEW fs \in Seq(Frame), NEW k \in Nat
  PROVE  /\ rememberUnsatFrame(fs, k) \in Seq(Frame)
         /\ Len(rememberUnsatFrame(fs, k)) = Len(fs)
         /\ \A i \in 1..Len(fs) :
              /\ rememberUnsatFrame(fs, k)[i].fla = fs[i].fla
              /\ rememberUnsatFrame(fs, k)[i].unsat = (fs[i].unsat \/ i >= k)
<1> DEFINE marked == rememberUnsatFrame(fs, k)
<1>0. \A i \in 1..Len(fs) : fs[i] \in Frame
  OBVIOUS
<1>1. \A i \in 1..Len(fs) : [fs[i] EXCEPT !.unsat = TRUE] \in Frame /\ fs[i] \in Frame
  BY <1>0 DEF Frame
<1>2. /\ Len(fs) \in Nat
      /\ marked \in [1..Len(fs) -> Frame]
  BY <1>1 DEF rememberUnsatFrame
<1>3. marked \in Seq(Frame) /\ Len(marked) = Len(fs)
  BY <1>2
<1>4. ASSUME NEW i \in 1..Len(fs)
      PROVE  /\ marked[i].fla = fs[i].fla
             /\ marked[i].unsat = (fs[i].unsat \/ i >= k)
  <2>1. CASE i >= k
    BY <1>1, <2>1 DEF rememberUnsatFrame, Frame
  <2>2. CASE ~(i >= k)
    BY <1>1, <2>2 DEF rememberUnsatFrame, Frame
  <2> QED
    BY <2>1, <2>2
<1> HIDE DEF marked
<1> QED
  BY <1>3, <1>4 DEF marked

\* An assertion narrows the last level.
LEMMA AddAssertionFacts ==
  ASSUME frames \in [Handles -> Seq(Frame)], NEW h \in Handles, Depth(h) \in Nat \ {0},
         NEW f \in Formula, AddAssertion(h, f)
  PROVE  /\ frames' \in [Handles -> Seq(Frame)]
         /\ \A g \in Handles \ {h} : frames'[g] = frames[g]
         /\ Len(frames'[h]) = Len(frames[h])
         /\ \A i \in 1..Len(frames[h]) : /\ frames'[h][i].unsat = frames[h][i].unsat
                                         /\ frames'[h][i].fla \subseteq frames[h][i].fla
<1> DEFINE d == Depth(h)
           last == [frames[h][d] EXCEPT !.fla = @ \cap f]
           fs == [frames[h] EXCEPT ![d] = last]
<1>1. frames[h] \in Seq(Frame) /\ Len(frames[h]) = d /\ d \in 1..d
  BY DEF Depth
<1>2. frames[h][d] \in Frame
  BY <1>1
<1>3. /\ last \in Frame
      /\ last.unsat = frames[h][d].unsat
      /\ last.fla \subseteq frames[h][d].fla
  BY <1>2 DEF Frame, Formula
<1>4. frames' = [frames EXCEPT ![h] = fs]
  BY DEF AddAssertion
<1> HIDE DEF last
<1>5. /\ fs \in Seq(Frame)
      /\ Len(fs) = Len(frames[h])
      /\ \A i \in 1..Len(frames[h]) : fs[i] = IF i = d THEN last ELSE frames[h][i]
  BY <1>1, <1>3
<1> HIDE DEF fs
<1>6. frames'[h] = fs /\ frames' \in [Handles -> Seq(Frame)]
  BY <1>4, <1>5
<1> HIDE DEF d
<1> QED
  BY <1>3, <1>4, <1>5, <1>6

\* (push n) puts unconstrained levels on top, with the mark of the old top.
LEMMA RunPushFacts ==
  ASSUME frames \in [Handles -> Seq(Frame)], self \in Handles, Depth(self) \in Nat \ {0},
         NEW n \in Nat, RunPush(n)
  PROVE  /\ frames' \in [Handles -> Seq(Frame)]
         /\ \A g \in Handles \ {self} : frames'[g] = frames[g]
         /\ Len(frames'[self]) = Len(frames[self]) + n
         /\ \A i \in 1..Len(frames[self]) : frames'[self][i] = frames[self][i]
         /\ \A i \in (Len(frames[self]) + 1)..(Len(frames[self]) + n) :
              frames'[self][i].unsat = frames[self][Len(frames[self])].unsat
<1> DEFINE d == Depth(self)
           new == [fla |-> Worlds, unsat |-> isLastFrameUnsat(self)]
           fs == [i \in 1..(d + n) |-> IF i <= d THEN frames[self][i] ELSE new]
<1>1. frames[self] \in Seq(Frame) /\ Len(frames[self]) = d /\ d \in 1..d /\ d + n \in Nat
  BY DEF Depth
<1>2. new \in Frame /\ new.unsat = frames[self][d].unsat
  <2>1. frames[self][d] \in Frame
    BY <1>1
  <2> QED
    BY <2>1 DEF Frame, Formula, isLastFrameUnsat
<1>3. frames' = [frames EXCEPT ![self] = fs]
  BY DEF RunPush
<1> HIDE DEF new
<1>4. fs \in [1..(d + n) -> Frame]
  BY <1>1, <1>2
<1>5. /\ fs \in Seq(Frame)
      /\ Len(fs) = d + n
  BY <1>1, <1>4
<1>6. \A i \in 1..(d + n) : fs[i] = IF i <= d THEN frames[self][i] ELSE new
  OBVIOUS
<1> HIDE DEF fs
<1>7. frames'[self] = fs /\ frames' \in [Handles -> Seq(Frame)]
  BY <1>3, <1>5
<1> HIDE DEF d
<1> QED
  BY <1>1, <1>2, <1>3, <1>5, <1>6, <1>7

\* (pop n) leaves a prefix.
LEMMA RunPopFacts ==
  ASSUME frames \in [Handles -> Seq(Frame)], self \in Handles, Depth(self) \in Nat \ {0},
         NEW n \in Nat, RunPop(n)
  PROVE  /\ frames' \in [Handles -> Seq(Frame)]
         /\ \A g \in Handles \ {self} : frames'[g] = frames[g]
         /\ Len(frames'[self]) \in 1..Len(frames[self])
         /\ \A i \in 1..Len(frames'[self]) : frames'[self][i] = frames[self][i]
<1> DEFINE m == DepthAfterPop(Depth(self), n)
           fs == SubSeq(frames[self], 1, m)
<1>1. frames[self] \in Seq(Frame) /\ m \in 1..Len(frames[self])
  BY DEF Depth, DepthAfterPop
<1>2. frames' = [frames EXCEPT ![self] = fs]
  BY DEF RunPop
<1> HIDE DEF m
<1>3. fs \in Seq(Frame) /\ Len(fs) = m /\ \A i \in 1..m : fs[i] = frames[self][i]
  BY <1>1
<1> HIDE DEF fs
<1> QED
  BY <1>1, <1>2, <1>3

\* A contradiction found marks levels and changes nothing else of them.
LEMMA FindsUnsatFacts ==
  ASSUME frames \in [Handles -> Seq(Frame)], self \in Handles, Depth(self) \in Nat \ {0},
         FindsUnsat
  PROVE  /\ frames' \in [Handles -> Seq(Frame)]
         /\ \A g \in Handles \ {self} : frames'[g] = frames[g]
         /\ Len(frames'[self]) = Len(frames[self])
         /\ \A i \in 1..Len(frames[self]) : frames'[self][i].fla = frames[self][i].fla
         /\ \E k \in 1..Len(frames[self]) :
              /\ AssertedUpTo(self, k) = {}
              /\ \A i \in 1..Len(frames[self]) :
                   frames'[self][i].unsat = (frames[self][i].unsat \/ i >= k)
<1>1. frames[self] \in Seq(Frame)
  OBVIOUS
<1>2. PICK k \in 1..Len(frames[self]) :
        /\ AssertedUpTo(self, k) = {}
        /\ frames' = [frames EXCEPT ![self] = rememberUnsatFrame(frames[self], k)]
  BY DEF FindsUnsat, Depth
<1>3. k \in Nat
  BY <1>1
<1>4. frames'[self] = rememberUnsatFrame(frames[self], k)
  BY <1>2
<1> QED
  BY <1>1, <1>2, <1>3, <1>4, RememberUnsatFrameFacts

-----------------------------------------------------------------------------
(***************************************************************************)
(* Types                                                                   *)
(***************************************************************************)

\* TypeOK without the levels: what every step keeps for plain reasons.
ControlTypeOK ==
  /\ StopTypeOK
  /\ life \in [Handles -> {"fresh", "live", "released"}]
  /\ status \in [Handles -> {"True", "False", "Undef"}]
  /\ model \in [Handles -> Worlds \cup {NoModel}]
  /\ verdict \in [Handles -> {"none", "sat", "unsat", "unknown", "error", "exception"}]
  /\ result_current \in [Handles -> BOOLEAN]
  /\ f_exit \in [Handles -> BOOLEAN]
  /\ self \in Handles
  /\ call \in {"none", "check", "script"}
  /\ pc \in {"idle", "command", "check", "poll", "search", "answered", "thrown"}
  /\ todo \in 0..MaxScript
  /\ outcome \in {"none", "done", "condition", "sat", "unsat", "unknown", "error",
                  "timeout", "interrupted"}
  /\ consumed \in BOOLEAN

LevelsTypeOK ==
  /\ frames \in [Handles -> Seq(Frame)]
  /\ \A h \in Handles : Depth(h) \in 1..MaxLevels

LEMMA TypeParts == TypeOK <=> ControlTypeOK /\ LevelsTypeOK
BY DEF TypeOK, ControlTypeOK, LevelsTypeOK

LEMMA TypeInit == Init => TypeOK
<1> SUFFICES ASSUME Init PROVE TypeOK
  OBVIOUS
<1>1. ControlTypeOK
  <2> USE DEF Init
  <2>1. StopTypeOK /\ consumed \in BOOLEAN
    BY DEF StopInit, StopTypeOK
  <2>2. result_current \in [Handles -> BOOLEAN] /\ f_exit \in [Handles -> BOOLEAN]
    OBVIOUS
  <2>3. model \in [Handles -> Worlds \cup {NoModel}]
    OBVIOUS
  <2>4. todo \in 0..MaxScript
    BY HandleBoundsAssumption
  <2> QED
    BY <2>1, <2>2, <2>3, <2>4 DEF ControlTypeOK
<1>2. LevelsTypeOK
  <2> DEFINE base == [fla |-> Worlds, unsat |-> FALSE]
  <2>1. base \in Frame
    BY DEF Frame, Formula
  <2>2. frames = [h \in Handles |-> <<base>>]
    BY DEF Init
  <2> HIDE DEF base
  <2>3. <<base>> \in Seq(Frame) /\ Len(<<base>>) = 1
    BY <2>1
  <2> QED
    BY <2>2, <2>3, HandleBoundsAssumption DEF LevelsTypeOK, Depth
<1> QED
  BY <1>1, <1>2, TypeParts

\* The levels that a step leaves alone keep their type.
LEMMA LevelsTypeUnchanged ==
  ASSUME LevelsTypeOK, UNCHANGED frames
  PROVE  LevelsTypeOK'
BY DEF LevelsTypeOK, Depth

LEMMA LevelsTypeFindsUnsat ==
  ASSUME LevelsTypeOK, self \in Handles, FindsUnsat
  PROVE  LevelsTypeOK'
<1>1. Depth(self) \in Nat \ {0}
  BY HandleBoundsAssumption DEF LevelsTypeOK
<1>2. /\ frames' \in [Handles -> Seq(Frame)]
      /\ \A g \in Handles : Len(frames'[g]) = Len(frames[g])
  BY <1>1, FindsUnsatFacts DEF LevelsTypeOK
<1> QED
  BY <1>2 DEF LevelsTypeOK, Depth

LEMMA LevelsTypeAddAssertion ==
  ASSUME LevelsTypeOK, NEW h \in Handles, NEW f \in Formula, AddAssertion(h, f)
  PROVE  LevelsTypeOK'
<1>1. Depth(h) \in Nat \ {0}
  BY HandleBoundsAssumption DEF LevelsTypeOK
<1>2. /\ frames' \in [Handles -> Seq(Frame)]
      /\ \A g \in Handles : Len(frames'[g]) = Len(frames[g])
  BY <1>1, AddAssertionFacts DEF LevelsTypeOK
<1> QED
  BY <1>2 DEF LevelsTypeOK, Depth

LEMMA LevelsTypePush ==
  ASSUME LevelsTypeOK, self \in Handles, NEW n \in 1..MaxLevels, RunPush(n)
  PROVE  LevelsTypeOK'
<1>1. Depth(self) \in Nat \ {0} /\ n \in Nat /\ Depth(self) + n <= MaxLevels
  BY HandleBoundsAssumption DEF LevelsTypeOK, RunPush
<1>2. /\ frames' \in [Handles -> Seq(Frame)]
      /\ \A g \in Handles \ {self} : frames'[g] = frames[g]
      /\ Len(frames'[self]) = Depth(self) + n
  BY <1>1, RunPushFacts DEF LevelsTypeOK, Depth
<1>3. ASSUME NEW g \in Handles
      PROVE  Len(frames'[g]) \in 1..MaxLevels
  <2>1. Len(frames[g]) \in 1..MaxLevels /\ Depth(self) \in 1..MaxLevels
    BY DEF LevelsTypeOK, Depth
  <2>2. CASE g = self
    BY <1>1, <1>2, <2>1, <2>2, HandleBoundsAssumption
  <2>3. CASE g # self
    BY <1>2, <2>1, <2>3
  <2> QED
    BY <2>2, <2>3
<1> QED
  BY <1>2, <1>3 DEF LevelsTypeOK, Depth

LEMMA LevelsTypePop ==
  ASSUME LevelsTypeOK, self \in Handles, NEW n \in 1..MaxLevels, RunPop(n)
  PROVE  LevelsTypeOK'
<1>1. Depth(self) \in Nat \ {0} /\ n \in Nat
  BY HandleBoundsAssumption DEF LevelsTypeOK
<1>2. /\ frames' \in [Handles -> Seq(Frame)]
      /\ \A g \in Handles \ {self} : frames'[g] = frames[g]
      /\ Len(frames'[self]) \in 1..Depth(self)
  BY <1>1, RunPopFacts DEF LevelsTypeOK, Depth
<1>3. ASSUME NEW g \in Handles
      PROVE  Len(frames'[g]) \in 1..MaxLevels
  <2>1. Len(frames[g]) \in 1..MaxLevels /\ Depth(self) \in 1..MaxLevels
    BY DEF LevelsTypeOK, Depth
  <2>2. CASE g = self
    BY <1>1, <1>2, <2>1, <2>2, HandleBoundsAssumption
  <2>3. CASE g # self
    BY <1>2, <2>1, <2>3
  <2> QED
    BY <2>2, <2>3
<1> QED
  BY <1>2, <1>3 DEF LevelsTypeOK, Depth
\* The call that a program point belongs to.  A (check-sat) in progress has
\* not been counted off yet, so that todo stays a number of commands.
CallInv ==
  /\ pc = "command" => call = "script"
  /\ pc \in {"check", "poll", "search", "answered", "thrown"} =>
       call = "check" \/ (call = "script" /\ todo > 0)
  /\ pc = "answered" => verdict[self] \in {"sat", "unsat", "unknown", "error"}

\* What the steps of a call share keeps its type.
LEMMA NextCommandType ==
  ASSUME ControlTypeOK, NEW kind, NextCommand(kind)
  PROVE  result_current' \in [Handles -> BOOLEAN] /\ todo - 1 \in 0..MaxScript
<1>1. (result_current[self] /\ keeps_result(kind)) \in BOOLEAN
  BY DEF keeps_result, ControlTypeOK
<1>2. result_current' =
        [result_current EXCEPT ![self] = result_current[self] /\ keeps_result(kind)]
  BY DEF NextCommand
<1>3. result_current' \in [Handles -> BOOLEAN]
  BY <1>1, <1>2 DEF ControlTypeOK
<1>4. todo \in 0..MaxScript /\ todo > 0
  BY DEF NextCommand, ControlTypeOK
<1> QED
  BY <1>3, <1>4, HandleBoundsAssumption

\* Every action keeps the types; one step per action.
LEMMA TypeStep == TypeOK /\ CallInv /\ [Next]_vars => TypeOK'
<1> SUFFICES ASSUME TypeOK, CallInv, [Next]_vars PROVE TypeOK'
  OBVIOUS
<1>1. ControlTypeOK /\ LevelsTypeOK /\ self \in Handles
  BY TypeParts DEF ControlTypeOK
<1> USE DEF ControlTypeOK, StopTypeOK, stopVars, handleVars
<1> DEFINE Safe == ControlTypeOK' /\ LevelsTypeOK'
<1>2. ASSUME NEW h \in Handles, New(h) PROVE Safe
  BY <1>1, <1>2, LevelsTypeUnchanged, HandleBoundsAssumption
  DEF New, QuickCall
<1>3. ASSUME NEW h \in Handles, Release(h) PROVE Safe
  BY <1>1, <1>3, LevelsTypeUnchanged, HandleBoundsAssumption
  DEF Release, QuickCall
<1>4. ASSUME NEW h \in Handles, UseReleased(h) PROVE Safe
  BY <1>1, <1>4, LevelsTypeUnchanged, HandleBoundsAssumption
  DEF UseReleased, QuickCall
<1>5. ASSUME NEW h \in Handles, RejectCall(h) PROVE Safe
  BY <1>1, <1>5, LevelsTypeUnchanged, HandleBoundsAssumption
  DEF RejectCall, QuickCall
<1>6. ASSUME NEW h \in Handles, NEW f \in Formula, AssertTerm(h, f) PROVE Safe
  BY <1>1, <1>6, LevelsTypeAddAssertion, HandleBoundsAssumption
  DEF AssertTerm, QuickCall
<1>7. ASSUME NEW h \in Handles, NEW bounded \in {FALSE, Timeouts}, BeginCheck(h, bounded)
      PROVE  Safe
  BY <1>1, <1>7, LevelsTypeUnchanged, HandleBoundsAssumption
  DEF BeginCheck, BeginCall, set_deadline, clear_interrupt_request
<1>8. ASSUME NEW h \in Handles, NEW n \in 1..MaxScript, BeginScript(h, n) PROVE Safe
  <2>1. todo' \in 0..MaxScript
    BY <1>8, HandleBoundsAssumption DEF BeginScript
  <2> QED
    BY <1>1, <1>8, <2>1, LevelsTypeUnchanged DEF BeginScript, BeginCall
<1>9. ASSUME CheckKnownUnsat PROVE Safe
  BY <1>1, <1>9, LevelsTypeUnchanged, HandleBoundsAssumption
  DEF CheckKnownUnsat, Answers, Goto
<1>10. ASSUME Preprocess PROVE Safe
  BY <1>1, <1>10, LevelsTypeUnchanged, LevelsTypeFindsUnsat, HandleBoundsAssumption
  DEF Preprocess, Answers, Goto, Throws, FindsUnsat
<1>11. ASSUME PollGoesOn PROVE Safe
  BY <1>1, <1>11, LevelsTypeUnchanged, HandleBoundsAssumption
  DEF PollGoesOn, Goto, NoReasonToStop
<1>12. ASSUME PollStops PROVE Safe
  BY ZenonT(60), <1>1, <1>12, LevelsTypeUnchanged, HandleBoundsAssumption
  DEF PollStops, StopForDeadline, StopForSeenInterrupt, ConsumeInterrupt
<1>13. ASSUME SearchOn PROVE Safe
  BY <1>1, <1>13, LevelsTypeUnchanged, HandleBoundsAssumption
  DEF SearchOn, Goto
<1>14. ASSUME FindUnsat PROVE Safe
  BY ZenonT(60), <1>1, <1>14, LevelsTypeFindsUnsat, HandleBoundsAssumption
  DEF FindUnsat, FindsUnsat, Answers, Goto
<1>15. ASSUME FindModel PROVE Safe
  BY <1>1, <1>15, LevelsTypeUnchanged, HandleBoundsAssumption
  DEF FindModel, Answers, Goto, Asserted, AssertedUpTo
<1>16. ASSUME SearchFailure PROVE Safe
  BY <1>1, <1>16, LevelsTypeUnchanged, HandleBoundsAssumption
  DEF SearchFailure, Answers, Goto, Throws
<1>17. ASSUME ModelFailure PROVE Safe
  BY <1>1, <1>17, LevelsTypeUnchanged, HandleBoundsAssumption
  DEF ModelFailure, Answers, Goto, Throws
<1>18. ASSUME EndCheck PROVE Safe
  <2>1. Reported(verdict[self]) \in {"sat", "unsat", "unknown", "error", "timeout",
                                     "interrupted"}
    BY <1>18 DEF EndCheck, CallInv, Reported
  <2>2. result_current' \in [Handles -> BOOLEAN]
    BY <1>1, <1>18 DEF EndCheck
  <2> QED
    BY <1>1, <1>18, <2>1, <2>2, HandleBoundsAssumption, LevelsTypeUnchanged
    DEF EndCheck, Return, clear_deadline
<1>19. ASSUME CheckThrown PROVE Safe
  BY <1>1, <1>19, LevelsTypeUnchanged, HandleBoundsAssumption
  DEF CheckThrown, Return, DeadlineOfThrown, clear_deadline
<1>20. ASSUME NEW f \in Formula, RunAssert(f) PROVE Safe
  BY <1>1, <1>20, LevelsTypeAddAssertion, NextCommandType, HandleBoundsAssumption
  DEF RunAssert, CommandDone
<1>21. ASSUME NEW n \in 1..MaxLevels, RunPush(n) PROVE Safe
  <2>1. LevelsTypeOK'
    BY <1>1, <1>21, LevelsTypePush
  <2>2. NextCommand("push")
    BY <1>21 DEF RunPush
  <2>3. result_current' \in [Handles -> BOOLEAN] /\ todo - 1 \in 0..MaxScript
    BY <1>1, <2>2, NextCommandType
  <2> QED
    BY <1>1, <1>21, <2>1, <2>3, HandleBoundsAssumption
    DEF RunPush, CommandDone
<1>22. ASSUME NEW n \in 1..MaxLevels, RunPop(n) PROVE Safe
  <2>1. LevelsTypeOK'
    BY <1>1, <1>22, LevelsTypePop
  <2>2. NextCommand("pop")
    BY <1>22 DEF RunPop
  <2>3. result_current' \in [Handles -> BOOLEAN] /\ todo - 1 \in 0..MaxScript
    BY <1>1, <2>2, NextCommandType
  <2> QED
    BY <1>1, <1>22, <2>1, <2>3, HandleBoundsAssumption
    DEF RunPop, CommandDone, CommandFails, Return
<1>23. ASSUME RunSimplify PROVE Safe
  BY <1>1, <1>23, LevelsTypeUnchanged, LevelsTypeFindsUnsat, NextCommandType,
     HandleBoundsAssumption
  DEF RunSimplify, FindsUnsat, CommandDone, CommandFails, Return
<1>24. ASSUME RunExit PROVE Safe
  BY <1>1, <1>24, LevelsTypeUnchanged, NextCommandType, HandleBoundsAssumption
  DEF RunExit, CommandDone
<1>25. ASSUME NEW kind, RunHarmless(kind) PROVE Safe
  BY <1>1, <1>25, LevelsTypeUnchanged, NextCommandType, HandleBoundsAssumption
  DEF RunHarmless, CommandDone, CommandFails, Return
<1>26. ASSUME RunCheckSat PROVE Safe
  BY <1>1, <1>26, LevelsTypeUnchanged, NextCommandType, HandleBoundsAssumption
  DEF RunCheckSat, Goto
<1>27. ASSUME EndCheckSat PROVE Safe
  <2>1. todo \in 0..MaxScript /\ todo > 0
    BY <1>1, <1>27 DEF EndCheckSat, CallInv
  <2>2. todo - 1 \in 0..MaxScript
    BY <2>1, HandleBoundsAssumption
  <2> QED
    BY <1>1, <1>27, <2>2, LevelsTypeUnchanged DEF EndCheckSat
<1>28. ASSUME CheckSatThrown PROVE Safe
  BY <1>1, <1>28, LevelsTypeUnchanged, HandleBoundsAssumption
  DEF CheckSatThrown, CommandFails, Return
<1>29. ASSUME EndScript PROVE Safe
  BY <1>1, <1>29, LevelsTypeUnchanged, HandleBoundsAssumption
  DEF EndScript, Return
<1>30. ASSUME Outside PROVE Safe
  <2>1. StopTypeOK'
    BY <1>1, <1>30 DEF Outside, ClockPasses, ThrottleEnds, CtrlC, DeliveredByR
  <2> QED
    BY <1>1, <1>30, <2>1, LevelsTypeUnchanged DEF Outside, callVars
<1>31. ASSUME UNCHANGED vars PROVE Safe
  BY <1>1, <1>31, LevelsTypeUnchanged, HandleBoundsAssumption
  DEF vars, callVars
<1> HIDE DEF ControlTypeOK, StopTypeOK, stopVars, handleVars, Safe
<1>32. ASSUME Call PROVE Safe
  BY <1>32, <1>2, <1>3, <1>4, <1>5, <1>6, <1>7, <1>8 DEF Call
<1>33. ASSUME Step PROVE Safe
  BY <1>33, <1>9, <1>10, <1>11, <1>12, <1>13, <1>14, <1>15, <1>16, <1>17, <1>18, <1>19,
     <1>20, <1>21, <1>22, <1>23, <1>24, <1>25, <1>26, <1>27, <1>28, <1>29
  DEF Step
<1>34. Safe
  BY <1>30, <1>31, <1>32, <1>33 DEF Next
<1> QED
  BY <1>34 DEF Safe, TypeOK, ControlTypeOK, LevelsTypeOK

LEMMA CallStep == TypeOK /\ CallInv /\ [Next]_vars => CallInv'
<1> SUFFICES ASSUME TypeOK, CallInv, [Next]_vars PROVE CallInv'
  OBVIOUS
<1>1. verdict \in [Handles -> {"none", "sat", "unsat", "unknown", "error", "exception"}]
      /\ self \in Handles /\ todo \in 0..MaxScript
  BY DEF TypeOK
<1> USE DEF CallInv, handleVars
<1>2. ASSUME NEW h \in Handles, New(h) \/ Release(h) \/ UseReleased(h) \/ RejectCall(h)
      PROVE  CallInv'
  BY <1>1, <1>2 DEF New, Release, UseReleased, RejectCall, QuickCall
<1>3. ASSUME NEW h \in Handles, NEW f \in Formula, AssertTerm(h, f) PROVE CallInv'
  BY <1>1, <1>3 DEF AssertTerm, QuickCall
<1>4. ASSUME NEW h \in Handles, NEW bounded \in {FALSE, Timeouts}, BeginCheck(h, bounded)
      PROVE  CallInv'
  BY <1>1, <1>4 DEF BeginCheck, BeginCall
<1>5. ASSUME NEW h \in Handles, NEW n \in 1..MaxScript, BeginScript(h, n) PROVE CallInv'
  BY <1>1, <1>5 DEF BeginScript, BeginCall
<1>6. ASSUME CheckKnownUnsat PROVE CallInv'
  BY <1>1, <1>6 DEF CheckKnownUnsat, Answers, Goto
<1>7. ASSUME Preprocess PROVE CallInv'
  BY <1>1, <1>7 DEF Preprocess, Answers, Goto, Throws
<1>8. ASSUME PollGoesOn PROVE CallInv'
  BY <1>1, <1>8 DEF PollGoesOn, Goto
<1>9. ASSUME PollStops PROVE CallInv'
  BY <1>1, <1>9 DEF PollStops
<1>10. ASSUME SearchOn PROVE CallInv'
  BY <1>1, <1>10 DEF SearchOn, Goto
<1>11. ASSUME FindUnsat PROVE CallInv'
  BY <1>1, <1>11 DEF FindUnsat, Answers, Goto
<1>12. ASSUME FindModel PROVE CallInv'
  BY <1>1, <1>12 DEF FindModel, Answers, Goto
<1>13. ASSUME SearchFailure PROVE CallInv'
  BY <1>1, <1>13 DEF SearchFailure, Answers, Goto, Throws
<1>14. ASSUME ModelFailure PROVE CallInv'
  BY <1>1, <1>14 DEF ModelFailure, Answers, Goto, Throws
<1>15. ASSUME EndCheck \/ CheckThrown \/ CheckSatThrown \/ EndScript PROVE CallInv'
  BY <1>1, <1>15 DEF EndCheck, CheckThrown, CheckSatThrown, EndScript, CommandFails, Return
<1>16. ASSUME NEW f \in Formula, RunAssert(f) PROVE CallInv'
  BY <1>1, <1>16 DEF RunAssert, NextCommand, CommandDone
<1>17. ASSUME NEW n \in 1..MaxLevels, RunPush(n) PROVE CallInv'
  BY <1>1, <1>17 DEF RunPush, NextCommand, CommandDone
<1>18. ASSUME NEW n \in 1..MaxLevels, RunPop(n) PROVE CallInv'
  BY <1>1, <1>18 DEF RunPop, NextCommand, CommandDone, CommandFails, Return
<1>19. ASSUME RunSimplify PROVE CallInv'
  BY <1>1, <1>19 DEF RunSimplify, NextCommand, CommandDone, CommandFails, Return
<1>20. ASSUME RunExit PROVE CallInv'
  BY <1>1, <1>20 DEF RunExit, NextCommand, CommandDone
<1>21. ASSUME NEW kind, RunHarmless(kind) PROVE CallInv'
  BY <1>1, <1>21 DEF RunHarmless, NextCommand, CommandDone, CommandFails, Return
<1>22. ASSUME RunCheckSat PROVE CallInv'
  BY <1>1, <1>22 DEF RunCheckSat, NextCommand, Goto
<1>23. ASSUME EndCheckSat PROVE CallInv'
  BY <1>1, <1>23 DEF EndCheckSat
<1>24. ASSUME Outside PROVE CallInv'
  BY <1>1, <1>24 DEF Outside, callVars
<1>25. ASSUME UNCHANGED vars PROVE CallInv'
  BY <1>1, <1>25 DEF vars, callVars
<1> QED
  BY <1>2, <1>3, <1>4, <1>5, <1>6, <1>7, <1>8, <1>9, <1>10, <1>11, <1>12, <1>13, <1>14,
     <1>15, <1>16, <1>17, <1>18, <1>19, <1>20, <1>21, <1>22, <1>23, <1>24, <1>25
  DEF Next, Call, Step

\* Every state of every behaviour is one that the declarations allow: the stack
\* of a handle never loses its base level, scripts count down to zero.
THEOREM TypeCorrect == Spec => []TypeOK
<1>1. Init => TypeOK /\ CallInv
  BY TypeInit DEF Init, CallInv
<1>2. TypeOK /\ CallInv /\ [Next]_vars => TypeOK' /\ CallInv'
  BY TypeStep, CallStep
<1> QED
  BY <1>1, <1>2, PTL DEF Spec

-----------------------------------------------------------------------------
(***************************************************************************)
(* How a check ends                                                        *)
(***************************************************************************)

\* The inductive invariant.  While a check runs, the latch says of this very
\* check whether it took a Ctrl-C away from R, and one that did has decided
\* nothing; the properties are about the check when it has returned.
EndingInv ==
  /\ DeadlineOwned
  /\ DecidedAnswerReported
  /\ InterruptsAccounted
  /\ call = "check" /\ ~Idle =>
       /\ interrupt_seen <=> consumed
       /\ consumed => pc = "answered" /\ verdict[self] = "unknown"
  /\ pc = "thrown" => verdict[self] = "exception"

LEMMA EndingStep == TypeOK /\ CallInv /\ EndingInv /\ [Next]_vars => EndingInv'
<1> SUFFICES ASSUME TypeOK, CallInv, EndingInv, [Next]_vars PROVE EndingInv'
  OBVIOUS
<1>1. /\ verdict \in [Handles -> {"none", "sat", "unsat", "unknown", "error", "exception"}]
      /\ self \in Handles
      /\ interrupt_seen \in BOOLEAN /\ consumed \in BOOLEAN
  BY DEF TypeOK, StopTypeOK
<1> USE DEF CallInv, EndingInv, DeadlineOwned, DecidedAnswerReported, InterruptsAccounted,
            Idle, handleVars, stopVars
<1>2. ASSUME NEW h \in Handles, New(h) \/ Release(h) \/ UseReleased(h) \/ RejectCall(h)
      PROVE  EndingInv'
  BY <1>1, <1>2 DEF New, Release, UseReleased, RejectCall, QuickCall
<1>3. ASSUME NEW h \in Handles, NEW f \in Formula, AssertTerm(h, f) PROVE EndingInv'
  BY <1>1, <1>3 DEF AssertTerm, QuickCall
<1>4. ASSUME NEW h \in Handles, NEW bounded \in {FALSE, Timeouts}, BeginCheck(h, bounded)
      PROVE  EndingInv'
  BY <1>1, <1>4 DEF BeginCheck, BeginCall, clear_interrupt_request, set_deadline
<1>5. ASSUME NEW h \in Handles, NEW n \in 1..MaxScript, BeginScript(h, n) PROVE EndingInv'
  BY <1>1, <1>5 DEF BeginScript, BeginCall
<1>6. ASSUME CheckKnownUnsat PROVE EndingInv'
  BY <1>1, <1>6 DEF CheckKnownUnsat, Answers, Goto
<1>7. ASSUME Preprocess PROVE EndingInv'
  BY <1>1, <1>7 DEF Preprocess, Answers, Goto, Throws
<1>8. ASSUME PollGoesOn PROVE EndingInv'
  BY <1>1, <1>8 DEF PollGoesOn, Goto, NoReasonToStop
<1>9. ASSUME PollStops PROVE EndingInv'
  BY <1>1, <1>9 DEF PollStops, StopForDeadline, StopForSeenInterrupt, ConsumeInterrupt
<1>10. ASSUME SearchOn PROVE EndingInv'
  BY <1>1, <1>10 DEF SearchOn, Goto
<1>11. ASSUME FindUnsat PROVE EndingInv'
  BY <1>1, <1>11 DEF FindUnsat, Answers, Goto
<1>12. ASSUME FindModel PROVE EndingInv'
  BY <1>1, <1>12 DEF FindModel, Answers, Goto
<1>13. ASSUME SearchFailure PROVE EndingInv'
  BY <1>1, <1>13 DEF SearchFailure, Answers, Goto, Throws
<1>14. ASSUME ModelFailure PROVE EndingInv'
  BY <1>1, <1>14 DEF ModelFailure, Answers, Goto, Throws
<1>15. ASSUME EndCheck PROVE EndingInv'
  BY <1>1, <1>15 DEF EndCheck, Return, Reported, clear_deadline
<1>16. ASSUME CheckThrown PROVE EndingInv'
  BY <1>1, <1>16 DEF CheckThrown, Return, DeadlineOfThrown, clear_deadline
<1>17. ASSUME CheckSatThrown \/ EndScript PROVE EndingInv'
  BY <1>1, <1>17 DEF CheckSatThrown, EndScript, CommandFails, Return
<1>18. ASSUME NEW f \in Formula, RunAssert(f) PROVE EndingInv'
  BY <1>1, <1>18 DEF RunAssert, NextCommand, CommandDone
<1>19. ASSUME NEW n \in 1..MaxLevels, RunPush(n) PROVE EndingInv'
  BY <1>1, <1>19 DEF RunPush, NextCommand, CommandDone
<1>20. ASSUME NEW n \in 1..MaxLevels, RunPop(n) PROVE EndingInv'
  BY <1>1, <1>20 DEF RunPop, NextCommand, CommandDone, CommandFails, Return
<1>21. ASSUME RunSimplify PROVE EndingInv'
  BY <1>1, <1>21 DEF RunSimplify, NextCommand, CommandDone, CommandFails, Return
<1>22. ASSUME RunExit PROVE EndingInv'
  BY <1>1, <1>22 DEF RunExit, NextCommand, CommandDone
<1>23. ASSUME NEW kind, RunHarmless(kind) PROVE EndingInv'
  BY <1>1, <1>23 DEF RunHarmless, NextCommand, CommandDone, CommandFails, Return
<1>24. ASSUME RunCheckSat PROVE EndingInv'
  BY <1>1, <1>24 DEF RunCheckSat, NextCommand, Goto
<1>25. ASSUME EndCheckSat PROVE EndingInv'
  BY <1>1, <1>25 DEF EndCheckSat
<1>26. ASSUME Outside PROVE EndingInv'
  BY <1>1, <1>26 DEF Outside, callVars, ClockPasses, ThrottleEnds, CtrlC, DeliveredByR
<1>27. ASSUME UNCHANGED vars PROVE EndingInv'
  BY <1>1, <1>27 DEF vars, callVars
<1> HIDE DEF EndingInv
<1> QED
  BY <1>2, <1>3, <1>4, <1>5, <1>6, <1>7, <1>8, <1>9, <1>10, <1>11, <1>12, <1>13, <1>14,
     <1>15, <1>16, <1>17, <1>18, <1>19, <1>20, <1>21, <1>22, <1>23, <1>24, <1>25, <1>26,
     <1>27
  DEF Next, Call, Step

LEMMA EndingInvariant == Spec => []EndingInv
<1>1. Init => TypeOK /\ CallInv /\ EndingInv
  <2> SUFFICES ASSUME Init PROVE TypeOK /\ CallInv /\ EndingInv
    OBVIOUS
  <2> QED
    BY TypeInit DEF Init, StopInit, CallInv, EndingInv, DeadlineOwned, DecidedAnswerReported,
                    InterruptsAccounted, Idle
<1>2. TypeOK /\ CallInv /\ EndingInv /\ [Next]_vars => TypeOK' /\ CallInv' /\ EndingInv'
  BY TypeStep, CallStep, EndingStep
<1> QED
  BY <1>1, <1>2, PTL DEF Spec

\* No deadline outlives its check, whether that returns or throws.
THEOREM DeadlineIsOwned == Spec => []DeadlineOwned
<1>1. EndingInv => DeadlineOwned
  BY DEF EndingInv
<1> QED
  BY <1>1, EndingInvariant, PTL

\* An answer that check() reached is the one smt_check() returns.
THEOREM DecidedAnswerIsReported == Spec => []DecidedAnswerReported
<1>1. EndingInv => DecidedAnswerReported
  BY DEF EndingInv
<1> QED
  BY <1>1, EndingInvariant, PTL

\* An interrupt is reported by the check that took it from R, and by no other.
THEOREM InterruptsAreAccounted == Spec => []InterruptsAccounted
<1>1. EndingInv => InterruptsAccounted
  BY DEF EndingInv
<1> QED
  BY <1>1, EndingInvariant, PTL

-----------------------------------------------------------------------------
(***************************************************************************)
(* What may be read after a check                                          *)
(***************************************************************************)

\* A level is marked only if the levels up to it contradict each other.
MarksSound ==
  \A h \in Handles : \A i \in 1..Depth(h) : frames[h][i].unsat => AssertedUpTo(h, i) = {}

\* Levels whose formulas only got narrower are satisfied in fewer worlds.
LEMMA AssertedNarrows ==
  ASSUME NEW h \in Handles, NEW m \in Nat, NEW n \in Nat, m <= n,
         \A i \in 1..m : frames'[h][i].fla \subseteq frames[h][i].fla
  PROVE  AssertedUpTo(h, n)' \subseteq AssertedUpTo(h, m)
BY DEF AssertedUpTo

\* Levels that have kept their formulas are satisfied where they were.
LEMMA AssertedSame ==
  ASSUME NEW h \in Handles, NEW n \in Nat,
         \A i \in 1..n : frames'[h][i].fla = frames[h][i].fla
  PROVE  AssertedUpTo(h, n)' = AssertedUpTo(h, n)
BY DEF AssertedUpTo

LEMMA MarksUnchanged ==
  ASSUME MarksSound, UNCHANGED frames
  PROVE  MarksSound'
BY DEF MarksSound, AssertedUpTo, Depth

\* It is enough to look at the handle whose levels a step changes.
LEMMA MarksOfOne ==
  ASSUME MarksSound, NEW h \in Handles,
         \A g \in Handles \ {h} : frames'[g] = frames[g],
         \A i \in 1..Len(frames'[h]) : frames'[h][i].unsat => AssertedUpTo(h, i)' = {}
  PROVE  MarksSound'
<1>1. ASSUME NEW g \in Handles, NEW i \in 1..Len(frames'[g]), frames'[g][i].unsat
      PROVE  AssertedUpTo(g, i)' = {}
  <2>1. CASE g = h
    BY <1>1, <2>1
  <2>2. CASE g # h
    BY <1>1, <2>2 DEF MarksSound, Depth, AssertedUpTo
  <2> QED
    BY <2>1, <2>2
<1> QED
  BY <1>1 DEF MarksSound, Depth

LEMMA MarksFindsUnsat ==
  ASSUME LevelsTypeOK, NEW h \in Handles, h = self, MarksSound, FindsUnsat
  PROVE  MarksSound'
<1>1. Depth(h) \in Nat \ {0}
  BY HandleBoundsAssumption DEF LevelsTypeOK
<1>2. \A g \in Handles \ {h} : frames'[g] = frames[g]
  BY <1>1, FindsUnsatFacts DEF LevelsTypeOK
<1>3. /\ Len(frames'[h]) = Len(frames[h])
      /\ \A i \in 1..Len(frames[h]) : frames'[h][i].fla = frames[h][i].fla
  BY <1>1, FindsUnsatFacts DEF LevelsTypeOK
<1>4. PICK k \in 1..Len(frames[h]) :
        /\ AssertedUpTo(h, k) = {}
        /\ \A i \in 1..Len(frames[h]) :
             frames'[h][i].unsat = (frames[h][i].unsat \/ i >= k)
  BY <1>1, FindsUnsatFacts DEF LevelsTypeOK
<1>5. ASSUME NEW i \in 1..Len(frames[h]), frames'[h][i].unsat
      PROVE  AssertedUpTo(h, i)' = {}
  <2>1. AssertedUpTo(h, i)' = AssertedUpTo(h, i)
    BY <1>1, <1>3, AssertedSame DEF Depth
  <2>2. CASE frames[h][i].unsat
    BY <2>1, <2>2 DEF MarksSound, Depth
  <2>3. CASE i >= k
    BY <1>1, <1>4, <2>1, <2>3 DEF AssertedUpTo, Depth
  <2> QED
    BY <1>4, <1>5, <2>2, <2>3
<1> QED
  BY <1>2, <1>3, <1>5, MarksOfOne

LEMMA MarksAddAssertion ==
  ASSUME LevelsTypeOK, MarksSound, NEW h \in Handles, NEW f \in Formula, AddAssertion(h, f)
  PROVE  MarksSound'
<1>1. Depth(h) \in Nat \ {0}
  BY HandleBoundsAssumption DEF LevelsTypeOK
<1>2. /\ \A g \in Handles \ {h} : frames'[g] = frames[g]
      /\ Len(frames'[h]) = Len(frames[h])
      /\ \A i \in 1..Len(frames[h]) : /\ frames'[h][i].unsat = frames[h][i].unsat
                                      /\ frames'[h][i].fla \subseteq frames[h][i].fla
  BY <1>1, AddAssertionFacts DEF LevelsTypeOK
<1>3. ASSUME NEW i \in 1..Len(frames[h]), frames'[h][i].unsat
      PROVE  AssertedUpTo(h, i)' = {}
  <2>1. AssertedUpTo(h, i)' \subseteq AssertedUpTo(h, i)
    BY <1>1, <1>2, AssertedNarrows DEF Depth
  <2> QED
    BY <1>2, <1>3, <2>1 DEF MarksSound, Depth
<1> QED
  BY <1>2, <1>3, MarksOfOne

LEMMA MarksPush ==
  ASSUME LevelsTypeOK, NEW h \in Handles, h = self, MarksSound, NEW n \in 1..MaxLevels, RunPush(n)
  PROVE  MarksSound'
<1> DEFINE d == Len(frames[h])
<1>1. Depth(h) \in Nat \ {0} /\ d = Depth(h) /\ n \in Nat
  BY HandleBoundsAssumption DEF LevelsTypeOK, Depth
<1>2. /\ \A g \in Handles \ {h} : frames'[g] = frames[g]
      /\ Len(frames'[h]) = d + n
      /\ \A i \in 1..d : frames'[h][i] = frames[h][i]
      /\ \A i \in (d + 1)..(d + n) : frames'[h][i].unsat = frames[h][d].unsat
  BY <1>1, RunPushFacts DEF LevelsTypeOK
<1> HIDE DEF d
<1>3. ASSUME NEW i \in 1..(d + n), frames'[h][i].unsat
      PROVE  AssertedUpTo(h, i)' = {}
  <2>1. CASE i \in 1..d
    <3>0. i \in Nat /\ \A j \in 1..i : frames'[h][j].fla = frames[h][j].fla
      <4>1. i \in Nat /\ \A j \in 1..i : j \in 1..d
        BY <1>1, <2>1
      <4> QED
        BY <1>2, <4>1
    <3>1. AssertedUpTo(h, i)' = AssertedUpTo(h, i)
      BY <3>0, AssertedSame
    <3> QED
      BY <1>1, <1>2, <1>3, <2>1, <3>1 DEF MarksSound
  <2>2. CASE i \in (d + 1)..(d + n)
    <3>0. i \in Nat /\ d \in Nat /\ d <= i
      BY <1>1, <2>2
    <3>1. AssertedUpTo(h, i)' \subseteq AssertedUpTo(h, d)
      BY <1>2, <3>0, AssertedNarrows
    <3>2. d \in 1..Depth(h) /\ frames[h][d].unsat
      BY <1>1, <1>2, <1>3, <2>2 
    <3>3. AssertedUpTo(h, d) = {}
      BY <3>2 DEF MarksSound
    <3> QED
      BY <3>1, <3>3
  <2> QED
    BY <1>1, <2>1, <2>2
<1> QED
  BY <1>2, <1>3, MarksOfOne

LEMMA MarksPop ==
  ASSUME LevelsTypeOK, NEW h \in Handles, h = self, MarksSound, NEW n \in 1..MaxLevels, RunPop(n)
  PROVE  MarksSound'
<1>1. Depth(h) \in Nat \ {0} /\ n \in Nat
  BY HandleBoundsAssumption DEF LevelsTypeOK
<1>2. /\ \A g \in Handles \ {h} : frames'[g] = frames[g]
      /\ Len(frames'[h]) \in 1..Depth(h)
      /\ \A i \in 1..Len(frames'[h]) : frames'[h][i] = frames[h][i]
  BY <1>1, RunPopFacts DEF LevelsTypeOK, Depth
<1>3. ASSUME NEW i \in 1..Len(frames'[h]), frames'[h][i].unsat
      PROVE  AssertedUpTo(h, i)' = {}
  <2>1. i \in 1..Depth(h)
    BY <1>1, <1>2
  <2>2. AssertedUpTo(h, i)' = AssertedUpTo(h, i)
    BY <1>1, <1>2, AssertedSame
  <2> QED
    BY <1>2, <1>3, <2>1, <2>2 DEF MarksSound
<1> QED
  BY <1>2, <1>3, MarksOfOne

\* A satisfiable problem has no level that is marked: the status is "True" only
\* until a contradiction is found, and marks are given for nothing else.
TrueUnmarked ==
  \A h \in Handles : status[h] = "True" => \A i \in 1..Depth(h) : ~frames[h][i].unsat

\* A step that takes no status to "True", and finds no contradiction, changes the
\* marks only by levels pushed and popped.
LEMMA UnmarkedKept ==
  ASSUME TrueUnmarked, UNCHANGED frames,
         \A h \in Handles : status'[h] = "True" => status[h] = "True"
  PROVE  TrueUnmarked'
BY DEF TrueUnmarked, Depth

\* It is enough to look at the handle that a step is about.
LEMMA UnmarkedOfOne ==
  ASSUME TrueUnmarked, NEW h \in Handles,
         \A g \in Handles \ {h} : frames'[g] = frames[g] /\ status'[g] = status[g],
         status'[h] = "True" => \A i \in 1..Len(frames'[h]) : ~frames'[h][i].unsat
  PROVE  TrueUnmarked'
<1>1. ASSUME NEW g \in Handles, status'[g] = "True", NEW i \in 1..Len(frames'[g])
      PROVE  ~frames'[g][i].unsat
  <2>1. CASE g = h
    BY <1>1, <2>1
  <2>2. CASE g # h
    BY <1>1, <2>2 DEF TrueUnmarked, Depth
  <2> QED
    BY <2>1, <2>2
<1> QED
  BY <1>1 DEF TrueUnmarked, Depth

\* Levels that can all be satisfied bear no mark.
LEMMA SatisfiableUnmarked ==
  ASSUME LevelsTypeOK, MarksSound, NEW h \in Handles, Asserted(h) # {}
  PROVE  \A i \in 1..Len(frames[h]) : ~frames[h][i].unsat
<1> SUFFICES ASSUME NEW i \in 1..Len(frames[h]), frames[h][i].unsat PROVE FALSE
  OBVIOUS
<1>1. Depth(h) \in Nat /\ i \in 1..Depth(h)
  BY HandleBoundsAssumption DEF LevelsTypeOK, Depth
<1>2. AssertedUpTo(h, i) = {}
  BY <1>1 DEF MarksSound
<1>3. Asserted(h) \subseteq AssertedUpTo(h, i)
  BY <1>1 DEF Asserted, AssertedUpTo
<1> QED
  BY <1>2, <1>3

LEMMA UnmarkedStep ==
  TypeOK /\ CallInv /\ MarksSound /\ TrueUnmarked /\ [Next]_vars => TrueUnmarked'
<1> SUFFICES ASSUME TypeOK, CallInv, MarksSound, TrueUnmarked, [Next]_vars PROVE TrueUnmarked'
  OBVIOUS
<1>1. /\ status \in [Handles -> {"True", "False", "Undef"}]
      /\ self \in Handles
      /\ LevelsTypeOK
      /\ frames \in [Handles -> Seq(Frame)]
  BY DEF TypeOK, LevelsTypeOK
<1>2. PICK h \in Handles : h = self
  BY <1>1
<1>3. \A g \in Handles : Depth(g) \in Nat \ {0}
  BY <1>1, HandleBoundsAssumption DEF LevelsTypeOK
<1> USE DEF handleVars
<1>4. FindsUnsat => TrueUnmarked'
  <2> SUFFICES ASSUME FindsUnsat PROVE TrueUnmarked'
    OBVIOUS
  <2>1. \A g \in Handles \ {h} : frames'[g] = frames[g] /\ status'[g] = status[g]
    BY <1>1, <1>2, <1>3, FindsUnsatFacts DEF FindsUnsat
  <2>2. status'[h] # "True"
    BY <1>1, <1>2 DEF FindsUnsat
  <2> QED
    BY <2>1, <2>2, UnmarkedOfOne
<1>5. ASSUME NEW g \in Handles, New(g) \/ Release(g) \/ UseReleased(g) \/ RejectCall(g)
      PROVE  TrueUnmarked'
  BY <1>5, UnmarkedKept DEF New, Release, UseReleased, RejectCall
<1>6. ASSUME NEW g \in Handles, NEW bounded \in {FALSE, Timeouts}, BeginCheck(g, bounded)
      PROVE  TrueUnmarked'
  BY <1>6, UnmarkedKept DEF BeginCheck
<1>7. ASSUME NEW g \in Handles, NEW n \in 1..MaxScript, BeginScript(g, n) PROVE TrueUnmarked'
  BY <1>7, UnmarkedKept DEF BeginScript
<1>8. ASSUME CheckKnownUnsat \/ PollGoesOn \/ PollStops \/ SearchOn \/ SearchFailure
      PROVE  TrueUnmarked'
  BY <1>8, UnmarkedKept DEF CheckKnownUnsat, PollGoesOn, PollStops, SearchOn, SearchFailure
<1>9. ASSUME EndCheck \/ CheckThrown \/ CheckSatThrown \/ EndScript \/ EndCheckSat
      PROVE  TrueUnmarked'
  BY <1>9, UnmarkedKept DEF EndCheck, CheckThrown, CheckSatThrown, EndScript, EndCheckSat
<1>10. ASSUME RunExit \/ RunCheckSat \/ \E kind \in {"read", "assert", "set-option"} : RunHarmless(kind)
       PROVE  TrueUnmarked'
  BY <1>10, UnmarkedKept DEF RunExit, RunCheckSat, RunHarmless
<1>11. ASSUME Outside \/ UNCHANGED vars PROVE TrueUnmarked'
  BY <1>11, UnmarkedKept DEF Outside, vars
<1>12. ASSUME Preprocess \/ RunSimplify PROVE TrueUnmarked'
  <2>1. CASE FindsUnsat
    BY <1>4, <2>1
  <2>2. CASE UNCHANGED frames /\ status' = [status EXCEPT ![self] = "Undef"]
    BY <1>1, <2>2, UnmarkedKept
  <2> QED
    BY <1>12, <2>1, <2>2 DEF Preprocess, RunSimplify
<1>13. ASSUME FindUnsat PROVE TrueUnmarked'
  BY <1>4, <1>13 DEF FindUnsat
<1>14. ASSUME FindModel \/ ModelFailure PROVE TrueUnmarked'
  <2>1. Asserted(h) # {} /\ UNCHANGED frames /\ status' = [status EXCEPT ![self] = "True"]
    BY <1>2, <1>14 DEF FindModel, ModelFailure
  <2>2. \A i \in 1..Len(frames[h]) : ~frames[h][i].unsat
    BY <1>1, <2>1, SatisfiableUnmarked
  <2> QED
    BY <1>1, <1>2, <2>1, <2>2, UnmarkedOfOne
<1>15. ASSUME NEW g \in Handles, NEW f \in Formula, AddAssertion(g, f), UNCHANGED status
       PROVE  TrueUnmarked'
  <2>1. /\ \A e \in Handles \ {g} : frames'[e] = frames[e]
        /\ Len(frames'[g]) = Len(frames[g])
        /\ \A i \in 1..Len(frames[g]) : frames'[g][i].unsat = frames[g][i].unsat
    BY <1>1, <1>3, <1>15, AddAssertionFacts
  <2>2. status'[g] = "True" => \A i \in 1..Len(frames'[g]) : ~frames'[g][i].unsat
    BY <1>15, <2>1 DEF TrueUnmarked, Depth
  <2> QED
    BY <1>15, <2>1, <2>2, UnmarkedOfOne
<1>16. ASSUME NEW n \in 1..MaxLevels, RunPush(n) PROVE TrueUnmarked'
  <2>0. n \in Nat
    BY HandleBoundsAssumption
  <2>1. /\ \A g \in Handles \ {h} : frames'[g] = frames[g]
        /\ Len(frames'[h]) = Len(frames[h]) + n
        /\ \A i \in 1..Len(frames[h]) : frames'[h][i] = frames[h][i]
        /\ \A i \in (Len(frames[h]) + 1)..(Len(frames[h]) + n) :
             frames'[h][i].unsat = frames[h][Len(frames[h])].unsat
    BY <1>1, <1>2, <1>3, <1>16, <2>0, RunPushFacts
  <2>2. UNCHANGED status
    BY <1>16 DEF RunPush
  <2>3. Len(frames[h]) \in 1..Len(frames[h])
    BY <1>3 DEF Depth
  <2>4. ASSUME status'[h] = "True", NEW i \in 1..Len(frames'[h])
        PROVE  ~frames'[h][i].unsat
    <3>1. \A j \in 1..Len(frames[h]) : ~frames[h][j].unsat
      BY <2>2, <2>4 DEF TrueUnmarked, Depth
    <3>2. i \in 1..Len(frames[h]) \/ i \in (Len(frames[h]) + 1)..(Len(frames[h]) + n)
      BY <2>0, <2>1, <2>3
    <3> QED
      BY <2>1, <2>3, <3>1, <3>2
  <2> QED
    BY <2>1, <2>2, <2>4, UnmarkedOfOne
<1>17. ASSUME NEW n \in 1..MaxLevels, RunPop(n) PROVE TrueUnmarked'
  <2>0. n \in Nat
    BY HandleBoundsAssumption
  <2>1. /\ \A g \in Handles \ {h} : frames'[g] = frames[g]
        /\ Len(frames'[h]) \in 1..Len(frames[h])
        /\ \A i \in 1..Len(frames'[h]) : frames'[h][i] = frames[h][i]
    BY <1>1, <1>2, <1>3, <1>17, <2>0, RunPopFacts
  <2>2. UNCHANGED status
    BY <1>17 DEF RunPop
  <2>3. ASSUME status'[h] = "True", NEW i \in 1..Len(frames'[h])
        PROVE  ~frames'[h][i].unsat
    <3>1. i \in 1..Len(frames[h])
      BY <1>3, <2>1 DEF Depth
    <3> QED
      BY <2>1, <2>2, <2>3, <3>1 DEF TrueUnmarked, Depth
  <2> QED
    BY <2>1, <2>2, <2>3, UnmarkedOfOne
<1>18. ASSUME NEW g \in Handles, NEW f \in Formula, AssertTerm(g, f) PROVE TrueUnmarked'
  BY <1>15, <1>18 DEF AssertTerm
<1>19. ASSUME NEW f \in Formula, RunAssert(f) PROVE TrueUnmarked'
  BY <1>1, <1>15, <1>19 DEF RunAssert
<1> QED
  BY <1>5, <1>6, <1>7, <1>8, <1>9, <1>10, <1>11, <1>12, <1>13, <1>14, <1>16, <1>17, <1>18, <1>19
  DEF Next, Call, Step

\* What is said of a handle whose status describes the assertions there are,
\* because result_current says so or because check() has just come back.
Described(h) == result_current[h] \/ (h = self /\ pc = "answered")

DescriptionSound(h) ==
  Described(h) =>
    /\ status[h] = "False" => Asserted(h) = {}
    /\ status[h] = "True" =>
         /\ Asserted(h) # {}
         /\ \/ verdict[h] = "sat" /\ model[h] \in Asserted(h)
            \/ SolverFails /\ verdict[h] \in {"error", "exception"}

\* The inductive invariant.  A check that searches has forgotten the status of
\* the check before it, so that an answer it does not reach is not described; and
\* a check that answers from a mark does not do so while the status is "True".
ResultInv ==
  /\ MarksSound
  /\ TrueUnmarked
  /\ pc \in {"poll", "search"} => status[self] = "Undef"
  /\ \A h \in Handles : DescriptionSound(h)

\* A step that leaves levels, status and model alone describes no more.
LEMMA ResultsUnchanged ==
  ASSUME ResultInv, TrueUnmarked', UNCHANGED <<frames, status, model, verdict>>,
         \A h \in Handles : Described(h)' => Described(h),
         pc' \in {"poll", "search"} => self' = self /\ pc \in {"poll", "search"}
  PROVE  ResultInv'
<1>1. MarksSound'
  BY MarksUnchanged DEF ResultInv
<1>2. \A h \in Handles : Asserted(h)' = Asserted(h)
  BY DEF Asserted, AssertedUpTo, Depth
<1>3. \A h \in Handles : DescriptionSound(h)'
  BY <1>2 DEF ResultInv, DescriptionSound
<1> QED
  BY <1>1, <1>3 DEF ResultInv

\* A step that changes levels leaves nothing described of their handle.
LEMMA ResultsForgotten ==
  ASSUME ResultInv, NEW h \in Handles, MarksSound', TrueUnmarked',
         \A g \in Handles \ {h} : frames'[g] = frames[g],
         \A g \in Handles \ {h} : Described(g)' => Described(g),
         \A g \in Handles \ {h} : status'[g] = status[g],
         UNCHANGED <<model, verdict>>,
         ~Described(h)',
         pc' \notin {"poll", "search"}
  PROVE  ResultInv'
<1>1. \A g \in Handles \ {h} : Asserted(g)' = Asserted(g)
  BY DEF Asserted, AssertedUpTo, Depth
<1>2. ASSUME NEW g \in Handles PROVE DescriptionSound(g)'
  BY <1>1 DEF ResultInv, DescriptionSound
<1> QED
  BY <1>2 DEF ResultInv

\* A step of check() changes the levels of its handle in nothing but marks.
LEMMA ResultsOfCheck ==
  ASSUME ResultInv, NEW h \in Handles, h = self, UNCHANGED self, MarksSound', TrueUnmarked',
         \A g \in Handles : Asserted(g)' = Asserted(g),
         \A g \in Handles \ {h} : /\ status'[g] = status[g] /\ verdict'[g] = verdict[g]
                                  /\ model'[g] = model[g],
         UNCHANGED result_current,
         pc' \in {"poll", "search"} => status'[h] = "Undef",
         status'[h] = "False" => Asserted(h) = {},
         status'[h] = "True" /\ Described(h)' =>
           /\ Asserted(h) # {}
           /\ \/ verdict'[h] = "sat" /\ model'[h] \in Asserted(h)
              \/ SolverFails /\ verdict'[h] \in {"error", "exception"}
  PROVE  ResultInv'
<1>1. ASSUME NEW g \in Handles, g # h PROVE DescriptionSound(g)'
  BY <1>1 DEF ResultInv, DescriptionSound, Described
<1>2. DescriptionSound(h)'
  BY DEF DescriptionSound
<1> QED
  BY <1>1, <1>2 DEF ResultInv

\* Levels that are only marked are satisfied where they were.
LEMMA AssertedFindsUnsat ==
  ASSUME LevelsTypeOK, NEW h \in Handles, h = self, FindsUnsat
  PROVE  /\ \A g \in Handles : Asserted(g)' = Asserted(g)
         /\ Asserted(h) = {}
<1>1. Depth(h) \in Nat \ {0}
  BY HandleBoundsAssumption DEF LevelsTypeOK
<1>2. /\ \A g \in Handles \ {h} : frames'[g] = frames[g]
      /\ Len(frames'[h]) = Len(frames[h])
      /\ \A i \in 1..Len(frames[h]) : frames'[h][i].fla = frames[h][i].fla
  BY <1>1, FindsUnsatFacts DEF LevelsTypeOK
<1>3. Asserted(h)' = Asserted(h)
  BY <1>2 DEF Asserted, AssertedUpTo, Depth
<1>4. \A g \in Handles \ {h} : Asserted(g)' = Asserted(g)
  BY <1>2 DEF Asserted, AssertedUpTo, Depth
<1>5. PICK k \in 1..Depth(h) : AssertedUpTo(h, k) = {}
  BY DEF FindsUnsat
<1>6. Asserted(h) = {}
  BY <1>1, <1>5 DEF Asserted, AssertedUpTo
<1> QED
  BY <1>3, <1>4, <1>6

\* A command that is not known to be harmless leaves nothing described.
LEMMA NextCommandForgets ==
  ASSUME result_current \in [Handles -> BOOLEAN], NEW h \in Handles, h = self, UNCHANGED self,
         NEW kind, NextCommand(kind), ~keeps_result(kind), pc' \in {"command", "idle"}
  PROVE  /\ ~Described(h)'
         /\ \A g \in Handles \ {h} : Described(g)' => Described(g)
BY DEF NextCommand, Described

LEMMA ResultsStep == TypeOK /\ CallInv /\ ResultInv /\ [Next]_vars => ResultInv'
<1> SUFFICES ASSUME TypeOK, CallInv, ResultInv, [Next]_vars PROVE ResultInv'
  OBVIOUS
<1>1. /\ status \in [Handles -> {"True", "False", "Undef"}]
      /\ model \in [Handles -> Worlds \cup {NoModel}]
      /\ verdict \in [Handles -> {"none", "sat", "unsat", "unknown", "error", "exception"}]
      /\ result_current \in [Handles -> BOOLEAN]
      /\ self \in Handles
      /\ LevelsTypeOK /\ MarksSound /\ TrueUnmarked'
  BY UnmarkedStep DEF TypeOK, LevelsTypeOK, ResultInv
<1>2. PICK h \in Handles : h = self
  BY <1>1
<1>3. UNCHANGED frames => MarksSound' /\ \A g \in Handles : Asserted(g)' = Asserted(g)
  BY <1>1, MarksUnchanged DEF Asserted, AssertedUpTo, Depth
<1>4. FindsUnsat => MarksSound' /\ Asserted(h) = {} /\ \A g \in Handles : Asserted(g)' = Asserted(g)
  BY <1>1, <1>2, MarksFindsUnsat, AssertedFindsUnsat
<1>0. \A g \in Handles : Depth(g) \in Nat \ {0}
  BY <1>1, HandleBoundsAssumption DEF LevelsTypeOK
<1> USE DEF handleVars
<1>5. ASSUME NEW g \in Handles, New(g) \/ Release(g) \/ UseReleased(g) \/ RejectCall(g)
      PROVE  ResultInv'
  BY <1>1, <1>5, ResultsUnchanged
  DEF Described, New, Release, UseReleased, RejectCall, QuickCall
<1>6. ASSUME NEW g \in Handles, NEW bounded \in {FALSE, Timeouts}, BeginCheck(g, bounded)
      PROVE  ResultInv'
  BY <1>1, <1>6, ResultsUnchanged DEF Described, BeginCheck, BeginCall
<1>7. ASSUME NEW g \in Handles, NEW n \in 1..MaxScript, BeginScript(g, n) PROVE ResultInv'
  BY <1>1, <1>7, ResultsUnchanged DEF Described, BeginScript, BeginCall
<1>8. ASSUME SearchOn PROVE ResultInv'
  BY <1>1, <1>8, ResultsUnchanged DEF Described, SearchOn, Goto
<1>9. ASSUME EndCheck PROVE ResultInv'
  BY <1>1, <1>9, ResultsUnchanged DEF Described, EndCheck, Return
<1>10. ASSUME CheckThrown \/ CheckSatThrown \/ EndScript PROVE ResultInv'
  BY <1>1, <1>10, ResultsUnchanged
  DEF Described, CheckThrown, CheckSatThrown, EndScript, CommandFails, Return
<1>11. ASSUME RunExit PROVE ResultInv'
  BY <1>1, <1>11, ResultsUnchanged DEF Described, RunExit, NextCommand, CommandDone
<1>12. ASSUME NEW kind, RunHarmless(kind) PROVE ResultInv'
  BY <1>1, <1>12, ResultsUnchanged
  DEF Described, RunHarmless, NextCommand, CommandDone, CommandFails, Return
<1>13. ASSUME RunCheckSat PROVE ResultInv'
  BY <1>1, <1>13, ResultsUnchanged DEF Described, RunCheckSat, NextCommand, Goto
<1>14. ASSUME EndCheckSat PROVE ResultInv'
  BY <1>1, <1>14, ResultsUnchanged DEF Described, EndCheckSat
<1>15. ASSUME Outside PROVE ResultInv'
  BY <1>1, <1>15, ResultsUnchanged DEF Described, Outside, callVars
<1>16. ASSUME UNCHANGED vars PROVE ResultInv'
  BY <1>1, <1>16, ResultsUnchanged DEF Described, vars, callVars
<1>17. ASSUME CheckKnownUnsat PROVE ResultInv'
  <2>1. Depth(h) \in 1..Depth(h) /\ frames[h][Depth(h)].unsat
    BY <1>1, <1>2, <1>17, HandleBoundsAssumption
    DEF CheckKnownUnsat, isLastFrameUnsat, LevelsTypeOK
  <2>2. Asserted(h) = {}
    BY <1>1, <2>1 DEF MarksSound, Asserted
  <2>3. status[h] # "True"
    BY <2>1 DEF ResultInv, TrueUnmarked
  <2> QED
    BY <1>1, <1>2, <1>3, <1>17, <2>2, <2>3, ResultsOfCheck DEF CheckKnownUnsat, Answers, Goto
<1>18. ASSUME Preprocess PROVE ResultInv'
  BY <1>1, <1>2, <1>3, <1>4, <1>18, ResultsOfCheck
  DEF ResultInv, Described, Preprocess, Answers, Goto, Throws, FindsUnsat
<1>19. ASSUME PollGoesOn PROVE ResultInv'
  BY <1>1, <1>2, <1>3, <1>4, <1>19, ResultsOfCheck
  DEF ResultInv, Described, PollGoesOn, Goto
<1>20. ASSUME PollStops PROVE ResultInv'
  BY <1>1, <1>2, <1>3, <1>4, <1>20, ResultsOfCheck DEF ResultInv, Described, PollStops
<1>21. ASSUME FindUnsat PROVE ResultInv'
  BY <1>1, <1>2, <1>3, <1>4, <1>21, ResultsOfCheck
  DEF ResultInv, Described, FindUnsat, Answers, Goto, FindsUnsat
<1>22. ASSUME FindModel PROVE ResultInv'
  BY <1>1, <1>2, <1>3, <1>4, <1>22, ResultsOfCheck
  DEF ResultInv, Described, FindModel, Answers, Goto
<1>23. ASSUME SearchFailure PROVE ResultInv'
  BY <1>1, <1>2, <1>3, <1>4, <1>23, ResultsOfCheck
  DEF ResultInv, Described, SearchFailure, Answers, Goto, Throws
<1>24. ASSUME ModelFailure PROVE ResultInv'
  BY <1>1, <1>2, <1>3, <1>4, <1>24, ResultsOfCheck
  DEF ResultInv, Described, ModelFailure, Answers, Goto, Throws
<1>25. ASSUME NEW g \in Handles, NEW f \in Formula, AssertTerm(g, f) PROVE ResultInv'
  <2>1. MarksSound' /\ \A e \in Handles \ {g} : frames'[e] = frames[e]
    BY <1>0, <1>1, <1>25, MarksAddAssertion, AddAssertionFacts DEF AssertTerm, LevelsTypeOK
  <2>2. ~Described(g)' /\ \A e \in Handles \ {g} : Described(e)' => Described(e)
    BY <1>1, <1>25 DEF AssertTerm, QuickCall, Described
  <2> QED
    BY <1>1, <1>25, <2>1, <2>2, ResultsForgotten DEF AssertTerm, QuickCall
<1>26. ASSUME NEW f \in Formula, RunAssert(f) PROVE ResultInv'
  <2>1. MarksSound' /\ \A g \in Handles \ {h} : frames'[g] = frames[g]
    BY <1>0, <1>1, <1>2, <1>26, MarksAddAssertion, AddAssertionFacts
    DEF RunAssert, LevelsTypeOK
  <2>2. ~Described(h)' /\ \A g \in Handles \ {h} : Described(g)' => Described(g)
    BY <1>1, <1>2, <1>26, NextCommandForgets
    DEF RunAssert, CommandDone, keeps_result, NextCommand
  <2> QED
    BY <1>1, <1>2, <1>26, <2>1, <2>2, ResultsForgotten
    DEF RunAssert, CommandDone, NextCommand
<1>27. ASSUME NEW n \in 1..MaxLevels, RunPush(n) PROVE ResultInv'
  <2>1. MarksSound' /\ \A g \in Handles \ {h} : frames'[g] = frames[g]
    BY <1>0, <1>1, <1>2, <1>27, MarksPush, RunPushFacts DEF RunPush, LevelsTypeOK
  <2>2. ~Described(h)' /\ \A g \in Handles \ {h} : Described(g)' => Described(g)
    BY <1>1, <1>2, <1>27, NextCommandForgets
    DEF RunPush, CommandDone, keeps_result, NextCommand
  <2> QED
    BY <1>1, <1>2, <1>27, <2>1, <2>2, ResultsForgotten DEF RunPush, CommandDone, NextCommand
<1>28. ASSUME NEW n \in 1..MaxLevels, RunPop(n) PROVE ResultInv'
  <2>1. MarksSound' /\ \A g \in Handles \ {h} : frames'[g] = frames[g]
    BY <1>0, <1>1, <1>2, <1>28, MarksPop, RunPopFacts DEF RunPop, LevelsTypeOK
  <2>2. ~Described(h)' /\ \A g \in Handles \ {h} : Described(g)' => Described(g)
    BY <1>1, <1>2, <1>28, NextCommandForgets
    DEF RunPop, CommandDone, CommandFails, Return, keeps_result, NextCommand
  <2> QED
    BY <1>1, <1>2, <1>28, <2>1, <2>2, ResultsForgotten
    DEF RunPop, CommandDone, CommandFails, Return, NextCommand
<1>29. ASSUME RunSimplify PROVE ResultInv'
  <2>1. MarksSound' /\ \A g \in Handles \ {h} : frames'[g] = frames[g]
    <3>1. CASE FindsUnsat
      BY <1>0, <1>1, <1>2, <1>4, <3>1, FindsUnsatFacts DEF LevelsTypeOK
    <3>2. CASE UNCHANGED frames
      BY <1>3, <3>2
    <3> QED
      BY <1>29, <3>1, <3>2 DEF RunSimplify
  <2>2. ~Described(h)' /\ \A g \in Handles \ {h} : Described(g)' => Described(g)
    BY <1>1, <1>2, <1>29, NextCommandForgets
    DEF RunSimplify, CommandDone, CommandFails, Return, keeps_result, NextCommand
  <2>3. /\ \A g \in Handles \ {h} : status'[g] = status[g]
        /\ UNCHANGED <<model, verdict>>
        /\ pc' \notin {"poll", "search"}
    BY <1>1, <1>2, <1>29
    DEF RunSimplify, FindsUnsat, CommandDone, CommandFails, Return, NextCommand
  <2> QED
    BY <1>1, <2>1, <2>2, <2>3, ResultsForgotten
<1> QED
  BY <1>5, <1>6, <1>7, <1>8, <1>9, <1>10, <1>11, <1>12, <1>13, <1>14, <1>15, <1>16, <1>17,
     <1>18, <1>19, <1>20, <1>21, <1>22, <1>23, <1>24, <1>25, <1>26, <1>27, <1>28, <1>29
  DEF Next, Call, Step

LEMMA ResultsInit == Init => ResultInv
<1> SUFFICES ASSUME Init PROVE ResultInv
  OBVIOUS
<1>1. MarksSound
  <2>1. \A h \in Handles : Depth(h) = 1 /\ ~frames[h][1].unsat
    BY DEF Init, Depth
  <2> QED
    BY <2>1 DEF MarksSound
<1>2. \A h \in Handles : ~Described(h)
  BY DEF Init, Described
<1>3. TrueUnmarked
  BY DEF Init, TrueUnmarked
<1> QED
  BY <1>1, <1>2, <1>3 DEF Init, ResultInv, DescriptionSound

LEMMA ResultInvariant == Spec => []ResultInv
<1>1. Init => TypeOK /\ CallInv /\ ResultInv
  BY TypeInit, ResultsInit DEF Init, CallInv
<1>2. TypeOK /\ CallInv /\ ResultInv /\ [Next]_vars => TypeOK' /\ CallInv' /\ ResultInv'
  BY TypeStep, CallStep, ResultsStep
<1> QED
  BY <1>1, <1>2, PTL DEF Spec

\* A model is given out only while the assertions there are now can be satisfied,
\* and it satisfies them, whatever was pushed, popped or asserted since the check:
\* result_current has been taken back in time.  The exception is in the statement:
\* where the solver may fail, a check that ended in an error or an exception may
\* leave values that nobody vouches for.
THEOREM ModelsStayCurrent == Spec => []ModelsAreCurrent
<1>1. ResultInv => ModelsAreCurrent
  BY DEF ResultInv, DescriptionSound, Described, ModelsAreCurrent, ModelAvailable
<1> QED
  BY <1>1, ResultInvariant, PTL

\* An unsat core or an interpolant is given out of contradictory assertions.
THEOREM CoresStayCurrent == Spec => []CoresAreCurrent
<1>1. ResultInv => CoresAreCurrent
  BY DEF ResultInv, DescriptionSound, Described, CoresAreCurrent, CoreAvailable
<1> QED
  BY <1>1, ResultInvariant, PTL

\* With a solver that does not fail, every model given out is one of the assertions.
THEOREM ModelsAreRight ==
  ASSUME ~SolverFails
  PROVE  Spec => [](\A h \in Handles : Idle /\ ModelAvailable(h) =>
                      verdict[h] = "sat" /\ model[h] \in Asserted(h))
<1>1. ModelsAreCurrent =>
        \A h \in Handles : Idle /\ ModelAvailable(h) =>
          verdict[h] = "sat" /\ model[h] \in Asserted(h)
  BY DEF ModelsAreCurrent
<1> QED
  BY <1>1, ModelsStayCurrent, PTL

\* Models, cores and interpolants that are given out describe the assertions there
\* are now, except for the values of a model after a check that failed.
THEOREM AnswersStayCurrent == Spec => []AnswersAreCurrent
  BY ModelsStayCurrent, CoresStayCurrent, PTL DEF AnswersAreCurrent
=============================================================================
