---------------------------- MODULE StopRequests ----------------------------
(***************************************************************************)
(* What can end a search early: the deadline of a bounded check and        *)
(* Ctrl-C, as src/src/r_compat.cc keeps them.  All of it is process-wide   *)
(* state: it is shared by every solver handle and outlives every call.     *)
(* The search loop asks should_stop() in okContinue(); nothing else does.  *)
(*                                                                         *)
(* The deadline and its latch "reached" are one variable: the clock is     *)
(* monotonic, so a deadline that has passed stays passed.                  *)
(***************************************************************************)

VARIABLES
  deadline,        \* "off", "running" (armed), "passed" (armed, or latched)
  interrupt_seen,  \* a poll has seen a Ctrl-C since this was last cleared
  pending,         \* R's own flag: Ctrl-C was pressed and not yet delivered
  throttled        \* the last look at R's flag is less than 50 ms ago

stopVars == <<deadline, interrupt_seen, pending, throttled>>

StopTypeOK ==
  /\ deadline \in {"off", "running", "passed"}
  /\ interrupt_seen \in BOOLEAN
  /\ pending \in BOOLEAN
  /\ throttled \in BOOLEAN

StopInit ==
  /\ deadline = "off"
  /\ interrupt_seen = FALSE
  /\ pending = FALSE
  /\ throttled = FALSE

set_deadline   == deadline' = "running"
clear_deadline == deadline' = "off"

\* Faulty: the deadline counts only once the latch is set, and nothing sets it.
DeadlineNeverReached == FALSE

deadline_reached == deadline = "passed"

\* A poll that ends the search because of the deadline; R's flag is not read.
StopForDeadline ==
  /\ deadline_reached
  /\ UNCHANGED stopVars

\* A poll that ends it because of a Ctrl-C that an earlier poll has seen ...
StopForSeenInterrupt ==
  /\ ~deadline_reached
  /\ interrupt_seen
  /\ UNCHANGED stopVars

\* ... or that this one sees: looking at R's flag also clears it.
ConsumeInterrupt ==
  /\ ~deadline_reached
  /\ ~interrupt_seen /\ ~throttled /\ pending
  /\ interrupt_seen' = TRUE
  /\ pending' = FALSE
  /\ throttled' = TRUE
  /\ UNCHANGED deadline

\* Faulty: the poll does not look at R's flag.
LookSkipped ==
  /\ ~deadline_reached
  /\ ~interrupt_seen
  /\ throttled' = TRUE
  /\ UNCHANGED <<deadline, interrupt_seen, pending>>

\* A poll that lets the search go on.
NoReasonToStop ==
  /\ ~deadline_reached
  /\ ~interrupt_seen
  /\ throttled \/ ~pending
  /\ throttled' = TRUE
  /\ UNCHANGED <<deadline, interrupt_seen, pending>>

\* The world outside: the clock, the user, and R itself, which delivers a
\* pending Ctrl-C when no C code is running.
ClockPasses ==
  /\ deadline = "running"
  /\ deadline' = "passed"
  /\ UNCHANGED <<interrupt_seen, pending, throttled>>

ThrottleEnds ==
  /\ throttled
  /\ throttled' = FALSE
  /\ UNCHANGED <<deadline, interrupt_seen, pending>>

CtrlC ==
  /\ ~pending
  /\ pending' = TRUE
  /\ UNCHANGED <<deadline, interrupt_seen, throttled>>

DeliveredByR ==
  /\ pending
  /\ pending' = FALSE
  /\ UNCHANGED <<deadline, interrupt_seen, throttled>>
=============================================================================
