---------------------------- MODULE SolverHandle ----------------------------
(***************************************************************************)
(* The solver handle of src/src/solver.cc: the calls R makes on it, the    *)
(* SMT-LIB scripts it runs one command at a time, and the record           *)
(* result_current that decides whether a model, an unsat core or an        *)
(* interpolant may still be given out.                                     *)
(*                                                                         *)
(* MainSolver is present as its caller sees it: the assertion levels with  *)
(* their unsat marks, the status and the model.  Its answers are right for *)
(* the assertions (the contract of AssertionStack); what can go wrong here *)
(* is what the handle makes of them when a script stops half way, a call   *)
(* ends in an exception, a deadline passes or the user presses Ctrl-C.     *)
(*                                                                         *)
(* R calls from one thread, so one call is in progress at a time; a check  *)
(* takes several steps, between which the clock and the user may act.      *)
(***************************************************************************)
EXTENDS StopRequests, Naturals, Sequences

CONSTANTS
  Handles,      \* the solver handles of the R session
  Worlds,       \* the valuations the formulas are about
  NoModel,      \* the SAT solver holds no model
  MaxLevels,    \* bound: assertion levels of a handle
  MaxScript,    \* bound: commands in a script
  Timeouts,     \* some checks are given a finite timeout
  SolverFails   \* an exception may end MainSolver::check()

ASSUME NoModelAssumption == NoModel \notin Worlds
ASSUME HandleBoundsAssumption == MaxLevels \in Nat \ {0} /\ MaxScript \in Nat
ASSUME HandleSwitchesAssumption == Timeouts \in BOOLEAN /\ SolverFails \in BOOLEAN

VARIABLES
  life,           \* "fresh", "live", "released": the external pointer's address
  frames,         \* per handle, the levels: a sequence of [fla, unsat]
  status,         \* MainSolver::status
  model,          \* the assignment of the last satisfiable search
  verdict,        \* how the last MainSolver::check() of the handle ended
  result_current, \* SolverHandle::result_current
  f_exit,         \* Interpret::f_exit
  self,           \* the handle of the call in progress, or of the last one
  call,           \* which call that is: "check", "script", or "none" (another)
  pc,             \* where it is; "idle" when it has returned
  todo,           \* commands of the script still to run
  outcome,        \* what it returned; "none" while it runs
  consumed        \* a poll of this call took a Ctrl-C away from R

handleVars == <<life, frames, status, model, verdict, result_current, f_exit>>
callVars   == <<self, call, pc, todo, outcome, consumed>>
vars == <<stopVars, handleVars, callVars>>

-----------------------------------------------------------------------------
Formula == SUBSET Worlds
Frame   == [fla : Formula, unsat : BOOLEAN]

Depth(h) == Len(frames[h])

\* The worlds that satisfy the assertions of the first n levels.
AssertedUpTo(h, n) == {w \in Worlds : \A i \in 1..n : w \in frames[h][i].fla}
Asserted(h) == AssertedUpTo(h, Depth(h))

isLastFrameUnsat(h) == frames[h][Depth(h)].unsat

rememberUnsatFrame(fs, k) ==
  [i \in 1..Len(fs) |-> IF i >= k THEN [fs[i] EXCEPT !.unsat = TRUE] ELSE fs[i]]

Init ==
  /\ StopInit
  /\ life = [h \in Handles |-> "fresh"]
  /\ frames = [h \in Handles |-> <<[fla |-> Worlds, unsat |-> FALSE]>>]
  /\ status = [h \in Handles |-> "Undef"]
  /\ model = [h \in Handles |-> NoModel]
  /\ verdict = [h \in Handles |-> "none"]
  /\ result_current = [h \in Handles |-> FALSE]
  /\ f_exit = [h \in Handles |-> FALSE]
  /\ self \in Handles
  /\ call = "none"
  /\ pc = "idle"
  /\ todo = 0
  /\ outcome = "none"
  /\ consumed = FALSE

\* A call that returns in the step in which it begins.
QuickCall(h, out) ==
  /\ pc = "idle"
  /\ self' = h
  /\ call' = "none"
  /\ outcome' = out
  /\ consumed' = FALSE
  /\ UNCHANGED <<pc, todo>>

BeginCall(h, kind, at) ==
  /\ pc = "idle"
  /\ life[h] = "live"
  /\ self' = h
  /\ call' = kind
  /\ pc' = at
  /\ outcome' = "none"
  /\ consumed' = FALSE

Return(out) ==
  /\ pc' = "idle"
  /\ outcome' = out
  /\ todo' = 0
  /\ UNCHANGED <<self, call, consumed>>

Goto(at) ==
  /\ pc' = at
  /\ UNCHANGED <<self, call, todo, outcome, consumed>>

-----------------------------------------------------------------------------
(***************************************************************************)
(* The life of a handle.                                                   *)
(***************************************************************************)

\* C_solver_new() has run (set-logic ...) by the time it returns.
New(h) ==
  /\ life[h] = "fresh"
  /\ QuickCall(h, "done")
  /\ life' = [life EXCEPT ![h] = "live"]
  /\ UNCHANGED <<stopVars, frames, status, model, verdict, result_current, f_exit>>

\* C_solver_release(), or the finalizer when R has dropped the last reference.
Release(h) ==
  /\ life[h] = "live"
  /\ QuickCall(h, "done")
  /\ life' = [life EXCEPT ![h] = "released"]
  /\ UNCHANGED <<stopVars, frames, status, model, verdict, result_current, f_exit>>

\* handle_from() rejects a released handle.
UseReleased(h) ==
  /\ life[h] = "released"
  /\ QuickCall(h, "condition")
  /\ UNCHANGED <<stopVars, handleVars>>

AddAssertion(h, f) ==
  frames' = [frames EXCEPT ![h][Depth(h)].fla = @ \cap f]

\* C_solver_assert_var(), C_solver_assert_pigeonhole(): assertions that do not
\* come through a script.  Of several, an exception may leave the first ones.
AssertTerm(h, f) ==
  /\ life[h] = "live"
  /\ QuickCall(h, "done") \/ (SolverFails /\ QuickCall(h, "condition"))
  /\ AddAssertion(h, f)
  /\ result_current' = [result_current EXCEPT ![h] = FALSE]
  /\ UNCHANGED <<stopVars, life, status, model, verdict, f_exit>>

\* What C_solver_model(), C_solver_unsat_core() and C_solver_interpolant() test
\* before they read the solver.
ModelAvailable(h) == life[h] = "live" /\ status[h] = "True"  /\ result_current[h]
CoreAvailable(h)  == life[h] = "live" /\ status[h] = "False" /\ result_current[h]
-----------------------------------------------------------------------------
(***************************************************************************)
(* MainSolver::check(), on behalf of C_solver_check() or of (check-sat).   *)
(***************************************************************************)

\* check() comes back with a result, or leaves by an exception.
Answers(v) ==
  /\ verdict' = [verdict EXCEPT ![self] = v]
  /\ Goto("answered")

Throws ==
  /\ SolverFails
  /\ verdict' = [verdict EXCEPT ![self] = "exception"]
  /\ Goto("thrown")

\* A contradiction among the first k levels is found: they are marked.
FindsUnsat ==
  /\ \E k \in 1..Depth(self) :
       /\ AssertedUpTo(self, k) = {}
       /\ frames' = [frames EXCEPT ![self] = rememberUnsatFrame(frames[self], k)]
  /\ status' = [status EXCEPT ![self] = "False"]
  /\ UNCHANGED model

\* A level marked unsat: status is left as it is.
CheckKnownUnsat ==
  /\ pc = "check"
  /\ isLastFrameUnsat(self)
  /\ Answers("unsat")
  /\ UNCHANGED <<stopVars, life, frames, status, model, result_current, f_exit>>

\* simplifyFormulas() does not poll.  It may decide by itself.
Preprocess ==
  /\ pc = "check"
  /\ ~isLastFrameUnsat(self)
  /\ \/ FindsUnsat /\ Answers("unsat")
     \/ /\ status' = [status EXCEPT ![self] = "Undef"]
        /\ UNCHANGED <<frames, model>>
        /\ \/ Goto("poll") /\ UNCHANGED verdict
           \/ Throws
  /\ UNCHANGED <<stopVars, life, result_current, f_exit>>

\* okContinue(): the search goes on, or ends with nothing decided.  The first
\* poll comes before the search, which begins by clearing the old model.
PollGoesOn ==
  /\ pc = "poll"
  /\ NoReasonToStop
  /\ Goto("search")
  /\ model' = [model EXCEPT ![self] = NoModel]
  /\ UNCHANGED <<life, frames, status, verdict, result_current, f_exit>>

PollStops ==
  /\ pc = "poll"
  /\ \/ StopForDeadline /\ UNCHANGED consumed
     \/ StopForSeenInterrupt /\ UNCHANGED consumed
     \/ ConsumeInterrupt /\ consumed' = TRUE
  /\ pc' = "answered"
  /\ verdict' = [verdict EXCEPT ![self] = "unknown"]
  /\ model' = [model EXCEPT ![self] = NoModel]
  /\ UNCHANGED <<life, frames, status, result_current, f_exit, self, call, todo, outcome>>

\* Some work, and the next poll.
SearchOn ==
  /\ pc = "search"
  /\ Goto("poll")
  /\ UNCHANGED <<stopVars, handleVars>>

FindUnsat ==
  /\ pc = "search"
  /\ FindsUnsat
  /\ Answers("unsat")
  /\ UNCHANGED <<stopVars, life, result_current, f_exit>>

FindModel ==
  /\ pc = "search"
  /\ \E w \in Asserted(self) : model' = [model EXCEPT ![self] = w]
  /\ status' = [status EXCEPT ![self] = "True"]
  /\ Answers("sat")
  /\ UNCHANGED <<stopVars, life, frames, result_current, f_exit>>

\* An exception in the search.  std::overflow_error is caught by check() and
\* becomes s_Error; any other leaves it.
SearchFailure ==
  /\ pc = "search"
  /\ \/ SolverFails /\ Answers("error")
     \/ Throws
  /\ UNCHANGED <<stopVars, life, frames, status, model, result_current, f_exit>>

\* An exception in computeModel(): the status is True by then, and the model
\* that was being computed is whatever has been filled in so far.
ModelFailure ==
  /\ pc = "search"
  /\ Asserted(self) # {}
  /\ status' = [status EXCEPT ![self] = "True"]
  /\ \E w \in Worlds : model' = [model EXCEPT ![self] = w]
  /\ \/ SolverFails /\ Answers("error")
     \/ Throws
  /\ UNCHANGED <<stopVars, life, frames, result_current, f_exit>>
-----------------------------------------------------------------------------
(***************************************************************************)
(* C_solver_check()                                                        *)
(***************************************************************************)

\* Faulty: a Ctrl-C seen in an earlier call is not forgotten.
interrupt_request_kept == UNCHANGED interrupt_seen

clear_interrupt_request == interrupt_seen' = FALSE

BeginCheck(h, bounded) ==
  /\ BeginCall(h, "check", "check")
  /\ IF bounded THEN set_deadline ELSE UNCHANGED deadline
  /\ clear_interrupt_request
  /\ UNCHANGED <<pending, throttled, handleVars, todo>>

\* Faulty: the clock alone decides.
ReportedByClock(v) ==
  IF deadline_reached THEN "timeout"
  ELSE IF interrupt_seen THEN "interrupted"
  ELSE v

\* The string returned to R for check()'s result v.
Reported(v) ==
  IF v = "unknown" /\ deadline_reached THEN "timeout"
  ELSE IF interrupt_seen THEN "interrupted"
  ELSE v

EndCheck ==
  /\ pc = "answered" /\ call = "check"
  /\ result_current' = [result_current EXCEPT ![self] = TRUE]
  /\ Return(Reported(verdict[self]))
  /\ clear_deadline
  /\ UNCHANGED <<interrupt_seen, pending, throttled,
                 life, frames, status, model, verdict, f_exit>>

\* Faulty: the deadline is cleared on the normal way out only.
DeadlineAfterException == UNCHANGED deadline

\* ~DeadlineScope() runs while the exception unwinds.
DeadlineOfThrown == clear_deadline

\* with_firewall() makes an R error of the exception.
CheckThrown ==
  /\ pc = "thrown" /\ call = "check"
  /\ Return("condition")
  /\ DeadlineOfThrown
  /\ UNCHANGED <<interrupt_seen, pending, throttled, handleVars>>
-----------------------------------------------------------------------------
(***************************************************************************)
(* run_script(): one step per command, but for a (check-sat).              *)
(***************************************************************************)

\* Faulty: commands taken for harmless.
PushesKeepResult(kind) == kind \in {"read", "exit", "push", "pop"}
AssertsKeepResult(kind) == kind \in {"read", "exit", "assert"}

\* keeps_result(): declarations, readers, (echo) and (exit).
keeps_result(kind) == kind \in {"read", "exit"}

\* A script that does not parse, or nests too deeply, runs nothing; nor does a
\* check with a timeout that is not a positive number.
RejectCall(h) ==
  /\ life[h] = "live"
  /\ QuickCall(h, "condition")
  /\ UNCHANGED <<stopVars, handleVars>>

BeginScript(h, n) ==
  /\ BeginCall(h, "script", "command")
  /\ todo' = n
  /\ UNCHANGED <<stopVars, handleVars>>

\* The loop takes the next command, of the given kind.
NextCommand(kind) ==
  /\ pc = "command" /\ todo > 0 /\ ~f_exit[self]
  /\ result_current' = [result_current EXCEPT ![self] = @ /\ keeps_result(kind)]

\* It succeeds, and the loop goes on; or it fails, and the call ends there.
CommandDone ==
  /\ todo' = todo - 1
  /\ UNCHANGED <<self, call, pc, outcome, consumed>>
CommandFails == Return("condition")

RunAssert(f) ==
  /\ NextCommand("assert")
  /\ AddAssertion(self, f)
  /\ CommandDone
  /\ UNCHANGED <<stopVars, life, status, model, verdict, f_exit>>

\* (push n): new levels are born with the mark of the level they are put on.
RunPush(n) ==
  /\ NextCommand("push")
  /\ Depth(self) + n <= MaxLevels
  /\ frames' = [frames EXCEPT ![self] =
       [i \in 1..(Depth(self) + n) |->
          IF i <= Depth(self) THEN @[i]
          ELSE [fla |-> Worlds, unsat |-> isLastFrameUnsat(self)]]]
  /\ CommandDone
  /\ UNCHANGED <<stopVars, life, status, model, verdict, f_exit>>

\* Faulty: the base level can be popped.
DepthAfterPopOfAll(d, n) == IF n <= d THEN d - n ELSE 0

\* (pop n): the base level stays.
DepthAfterPop(d, n) == IF n < d THEN d - n ELSE 1

\* A (pop n) that goes beyond the base level pops the rest, then fails.
RunPop(n) ==
  /\ NextCommand("pop")
  /\ frames' = [frames EXCEPT ![self] = SubSeq(@, 1, DepthAfterPop(Depth(self), n))]
  /\ IF n < Depth(self) THEN CommandDone ELSE CommandFails
  /\ UNCHANGED <<stopVars, life, status, model, verdict, f_exit>>

\* (simplify) resets the status and may find a contradiction.
RunSimplify ==
  /\ NextCommand("simplify")
  /\ \/ FindsUnsat /\ CommandDone
     \/ /\ status' = [status EXCEPT ![self] = "Undef"]
        /\ UNCHANGED <<frames, model>>
        /\ CommandDone \/ (SolverFails /\ CommandFails)
  /\ UNCHANGED <<stopVars, life, verdict, f_exit>>

RunExit ==
  /\ NextCommand("exit")
  /\ f_exit' = [f_exit EXCEPT ![self] = TRUE]
  /\ CommandDone
  /\ UNCHANGED <<stopVars, life, frames, status, model, verdict>>

\* A command that leaves the solver alone: a declaration or a reader; an
\* assertion that is refused; (set-option ...).  Any of them may fail.
RunHarmless(kind) ==
  /\ NextCommand(kind)
  /\ (kind # "assert" /\ CommandDone) \/ CommandFails
  /\ UNCHANGED <<stopVars, life, frames, status, model, verdict, f_exit>>

RunCheckSat ==
  /\ NextCommand("check-sat")
  /\ Goto("check")
  /\ UNCHANGED <<stopVars, life, frames, status, model, verdict, f_exit>>

\* (check-sat) printed the answer, "unknown" for anything undecided.
EndCheckSat ==
  /\ pc = "answered" /\ call = "script"
  /\ result_current' = [result_current EXCEPT ![self] = TRUE]
  /\ pc' = "command"
  /\ todo' = todo - 1
  /\ UNCHANGED <<stopVars, life, frames, status, model, verdict, f_exit,
                 self, call, outcome, consumed>>

CheckSatThrown ==
  /\ pc = "thrown" /\ call = "script"
  /\ CommandFails
  /\ UNCHANGED <<stopVars, handleVars>>

\* All commands have run, or (exit) has: the rest is skipped, without an error.
EndScript ==
  /\ pc = "command"
  /\ todo = 0 \/ f_exit[self]
  /\ Return("done")
  /\ UNCHANGED <<stopVars, handleVars>>
-----------------------------------------------------------------------------
Call ==
  \/ \E h \in Handles : New(h) \/ Release(h) \/ UseReleased(h) \/ RejectCall(h)
  \/ \E h \in Handles : \E f \in Formula : AssertTerm(h, f)
  \/ \E h \in Handles : \E bounded \in {FALSE, Timeouts} : BeginCheck(h, bounded)
  \/ \E h \in Handles : \E n \in 1..MaxScript : BeginScript(h, n)

\* A step of the call in progress.
Step ==
  \/ CheckKnownUnsat
  \/ Preprocess
  \/ PollGoesOn
  \/ PollStops
  \/ SearchOn
  \/ FindUnsat
  \/ FindModel
  \/ SearchFailure
  \/ ModelFailure
  \/ EndCheck
  \/ CheckThrown
  \/ \E f \in Formula : RunAssert(f)
  \/ \E n \in 1..MaxLevels : RunPush(n) \/ RunPop(n)
  \/ RunSimplify
  \/ RunExit
  \/ \E kind \in {"read", "assert", "set-option"} : RunHarmless(kind)
  \/ RunCheckSat
  \/ EndCheckSat
  \/ CheckSatThrown
  \/ EndScript

Outside ==
  /\ ClockPasses \/ ThrottleEnds \/ CtrlC \/ (pc = "idle" /\ DeliveredByR)
  /\ UNCHANGED <<handleVars, callVars>>

Next == Call \/ Step \/ Outside

Spec == Init /\ [][Next]_vars

\* The thread goes on with the call it is in, and time passes.  Nothing makes
\* the user press a key, nor a search come to an end.
Fairness ==
  /\ WF_vars(Step)
  /\ WF_vars(ClockPasses /\ UNCHANGED <<handleVars, callVars>>)
  /\ WF_vars(ThrottleEnds /\ UNCHANGED <<handleVars, callVars>>)

FairSpec == Spec /\ Fairness
-----------------------------------------------------------------------------
(***************************************************************************)
(* Properties                                                              *)
(***************************************************************************)
Idle == pc = "idle"

TypeOK ==
  /\ StopTypeOK
  /\ life \in [Handles -> {"fresh", "live", "released"}]
  /\ frames \in [Handles -> Seq(Frame)]
  /\ \A h \in Handles : Depth(h) \in 1..MaxLevels
  /\ status \in [Handles -> {"True", "False", "Undef"}]
  /\ model \in [Handles -> Worlds \cup {NoModel}]
  /\ verdict \in [Handles -> {"none", "sat", "unsat", "unknown", "error", "exception"}]
  /\ result_current \in [Handles -> BOOLEAN]
  /\ f_exit \in [Handles -> BOOLEAN]
  /\ self \in Handles
  /\ call \in {"none", "check", "script"}
  /\ pc \in {"idle", "command", "check", "poll", "search", "answered", "thrown"}
  /\ todo \in 0..MaxScript
  /\ outcome \in {"none", "done", "condition", "sat", "unsat", "unknown", "error",
                  "timeout", "interrupted"}
  /\ consumed \in BOOLEAN

\* smt_model() returns values only while the assertions there are now can all be
\* satisfied, and the values do satisfy them: no push, pop, assertion, failed script
\* or (simplify) since the check goes unnoticed.  One case is left out, and only of
\* the values: the last check ended in an error or an exception, where the model is
\* what had been computed by then (ModelOnlyAfterSat is violated by it).
ModelsAreCurrent ==
  \A h \in Handles :
    Idle /\ ModelAvailable(h) =>
      /\ Asserted(h) # {}
      /\ \/ verdict[h] = "sat" /\ model[h] \in Asserted(h)
         \/ SolverFails /\ verdict[h] \in {"error", "exception"}

\* smt_unsat_core() and smt_interpolant() read a refutation only while the
\* assertions there are now are contradictory, whatever has failed before.
CoresAreCurrent ==
  \A h \in Handles : Idle /\ CoreAvailable(h) => Asserted(h) = {}

\* What smt_model(), smt_unsat_core() and smt_interpolant() read after any sequence of calls, failed
\* ones among them, is about the assertions there are now (result_current and the solver's status):
\* a core comes from contradictory assertions, a model from satisfiable ones; the values of the model
\* are vouched for unless the last check itself failed.
AnswersAreCurrent == ModelsAreCurrent /\ CoresAreCurrent

\* solver.cc: "a deadline left armed would silently bound the next solve".
\* Only a smt_check() in progress has one.
DeadlineOwned == deadline # "off" => call = "check" /\ ~Idle

\* solver.cc: "a decided answer is valid however late it is".  An answer that
\* check() reached is what smt_check() returns: neither a deadline that passes
\* while the search ends nor a Ctrl-C, of this call or of another, replaces it.
DecidedAnswerReported ==
  Idle /\ call = "check" /\ verdict[self] \in {"sat", "unsat"} => outcome = verdict[self]

\* An interrupt is reported by smt_check() only if this check took a Ctrl-C
\* from R; and a check that took one never passes for one that ended by
\* itself: no answer comes back, unless the deadline passed as well.
InterruptsAccounted ==
  Idle /\ call = "check" =>
    /\ outcome = "interrupted" => consumed
    /\ consumed => outcome \in {"interrupted", "timeout"}

\* A bounded check returns, however long the search would go on.
BoundedCheckReturns == deadline # "off" ~> Idle

\* Ctrl-C pressed during a search ends it, of a check or of a script.
CtrlCEndsSearch ==
  pending /\ pc \in {"poll", "search"} ~> pc \notin {"poll", "search"}

\* zusmt.R: a model is given out by a solver "on which smt_check() has just
\* returned "sat"".  What smt_model() tests does not say so: after an overflow in
\* computeModel() the status is True and result_current is set, but the answer was
\* "error".
ModelOnlyAfterSat ==
  \A h \in Handles : Idle /\ ModelAvailable(h) => verdict[h] = "sat"

\* test-interrupt.R: "an interrupted solve never returns a value to its caller".
InterruptedCheckReturnsNoValue ==
  Idle /\ call = "check" /\ consumed => outcome = "interrupted"

\* README.md: Ctrl-C stops a long search "and raises an R condition".
InterruptedScriptRaises ==
  Idle /\ call = "script" /\ consumed => outcome = "condition"
=============================================================================
