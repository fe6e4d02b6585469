---------------------------- MODULE RequestBudget ----------------------------
(***************************************************************************)
(* One RequestBudget object and the threads that use it: Callers running   *)
(* the budgeted branch of _post_with_retry (szl_router/core.py) from route *)
(* to route as chat() and embed() do, and a controller that may cancel or  *)
(* close the request at any moment.                                        *)
(*                                                                         *)
(* Each budget method is atomic (its lock); everything between two method  *)
(* calls is a separate step, so a thread may be delayed between a check    *)
(* and the act it permits.  A post may last longer than its socket timeout *)
(* (the timeout bounds each read, not the exchange).                       *)
(***************************************************************************)
EXTENDS BudgetObject

CONSTANTS
  Callers,        \* threads sharing the object
  MaxAttempts,    \* RequestBudget(max_attempts=...)
  Deadline,       \* RequestBudget(deadline=...)
  Timeouts,       \* per-dispatch socket timeouts a caller may ask for
  Delays,         \* what _backoff_sleep_seconds may draw
  Horizon         \* bound: moments from Horizon on are not told apart

MAX_ATTEMPT_CEILING == 16

ASSUME BudgetAssumption ==
  /\ MaxAttempts \in 1..MAX_ATTEMPT_CEILING
  /\ Deadline \in Nat /\ Horizon \in Nat
  /\ Timeouts \subseteq Nat \ {0}
  /\ Delays \subseteq Nat

VARIABLES
  budget,   \* the object
  now,      \* the monotonic clock
  pc,       \* where each caller is
  attempt,  \* attempt_no of the caller's current or last reservation, 0 before any
  until     \* end of the caller's socket timeout, or of its back-off sleep

vars == <<budget, now, pc, attempt, until>>

Stations ==
  {"between",   \* at the head of the route loop
   "ready",     \* about to call reserve()
   "sending",   \* inside poster(...)
   "backoff",   \* a retryable failure is noted, about to call allow_backoff()
   "drowsy",    \* allow_backoff() said yes, sleep() not yet begun
   "asleep",    \* inside sleep()
   "answered",  \* a response came back to the route loop
   "unavailable", "blocked",  \* about to close() with that reason
   "done"}      \* returned or raised to the client

Init ==
  /\ budget = NewBudget(MaxAttempts, Deadline)
  /\ now = 0
  /\ pc = [c \in Callers |-> "between"]
  /\ attempt = [c \in Callers |-> 0]
  /\ until = [c \in Callers |-> 0]

Go(c, from, to) == pc[c] = from /\ pc' = [pc EXCEPT ![c] = to]

-----------------------------------------------------------------------------
(***************************************************************************)
(* The route loop around the dispatches.                                   *)
(***************************************************************************)

\* The loop goes on to a route it may dispatch to: no terminal reason stands.
NextRoute(c) ==
  /\ Go(c, "between", "ready")
  /\ budget.terminal = Open
  /\ UNCHANGED <<budget, now, attempt, until>>

\* The loop ends without a response.  When no terminal reason stands,
\* _closed_reason picks one from the attempts reserved so far; the close comes
\* after the lock was released, so other callers may act in between.
GiveUp(c) ==
  /\ IF budget.terminal # Open THEN Go(c, "between", "done")
     ELSE \/ Go(c, "between", "unavailable")
          \/ budget.reserved = 0 /\ Go(c, "between", "blocked")
  /\ UNCHANGED <<budget, now, attempt, until>>

CloseUnserved(c) ==
  /\ \/ Go(c, "unavailable", "done") /\ budget' = Close(budget, "provider_unavailable")
     \/ Go(c, "blocked", "done")     /\ budget' = Close(budget, "policy_blocked")
  /\ UNCHANGED <<now, attempt, until>>

Serve(c) ==
  /\ Go(c, "answered", "done")
  /\ budget' = MarkSuccess(budget)
  /\ UNCHANGED <<now, attempt, until>>

\* _chat_response_error: the response is no completion, on to the next route.
Reject(c) ==
  /\ Go(c, "answered", "between")
  /\ UNCHANGED <<budget, now, attempt, until>>

-----------------------------------------------------------------------------
(***************************************************************************)
(* _post_with_retry with a budget.                                         *)
(***************************************************************************)

Dispatch(c) ==
  /\ Go(c, "ready", "sending")
  /\ ReserveStop(budget, now) = Open
  /\ budget' = Reserve(budget, now)
  /\ attempt' = [attempt EXCEPT ![c] = budget.reserved + 1]
  /\ \E timeout \in Timeouts :
       until' = [until EXCEPT ![c] = now + SendTimeout(budget, now, timeout)]
  /\ UNCHANGED now

\* Wrong: the retry loop swallows BudgetStop and tries again.
RefusedAgain(c) ==
  /\ pc[c] = "ready"
  /\ ReserveStop(budget, now) # Open
  /\ budget' = Reserve(budget, now)
  /\ UNCHANGED <<now, pc, attempt, until>>

\* reserve() raises; the route loop gets it, or the last transport error.
Refused(c) ==
  /\ Go(c, "ready", "between")
  /\ ReserveStop(budget, now) # Open
  /\ budget' = Reserve(budget, now)
  /\ UNCHANGED <<now, attempt, until>>

\* poster() is over: the peer answered, well or badly, or nobody can tell.
\* Retryable errors go to the back-off, the others are raised.
Observe(c, outcome, to) ==
  /\ Go(c, "sending", to)
  /\ budget' = NoteOutcome(budget, attempt[c], outcome)
  /\ UNCHANGED <<now, attempt, until>>

Answer(c)    == Observe(c, "known", "answered")
HttpError(c) == \E to \in {"backoff", "between"} : Observe(c, "known", to)
Lost(c)      == \E to \in {"backoff", "between"} : Observe(c, "unknown", to)

Backoff(c, delay) ==
  /\ Go(c, "backoff", IF BackoffStop(budget, now, delay) = Open THEN "drowsy" ELSE "between")
  /\ budget' = AllowBackoff(budget, now, delay)
  /\ until' = [until EXCEPT ![c] = IF BackoffStop(budget, now, delay) = Open THEN delay ELSE @]
  /\ UNCHANGED <<now, attempt>>

FallAsleep(c) ==
  /\ Go(c, "drowsy", "asleep")
  /\ until' = [until EXCEPT ![c] = now + @]
  /\ UNCHANGED <<budget, now, attempt>>

Wake(c) ==
  /\ Go(c, "asleep", "ready")
  /\ now >= until[c] \/ now = Horizon
  /\ UNCHANGED <<budget, now, attempt, until>>

-----------------------------------------------------------------------------
(***************************************************************************)
(* The controller and the clock.                                           *)
(***************************************************************************)

CancelRequest ==
  /\ budget' = Cancel(budget)
  /\ UNCHANGED <<now, pc, attempt, until>>

CloseRequest ==
  /\ \E reason \in {"tests_failed", "cost_unknown"} : budget' = Close(budget, reason)
  /\ UNCHANGED <<now, pc, attempt, until>>

Tick ==
  /\ now < Horizon
  /\ now' = now + 1
  /\ UNCHANGED <<budget, pc, attempt, until>>

CallerStep(c) ==
  \/ NextRoute(c) \/ GiveUp(c) \/ CloseUnserved(c) \/ Serve(c) \/ Reject(c)
  \/ Dispatch(c) \/ Refused(c)
  \/ Answer(c) \/ HttpError(c) \/ Lost(c)
  \/ \E delay \in Delays : Backoff(c, delay)
  \/ FallAsleep(c) \/ Wake(c)

Next ==
  \/ \E c \in Callers : CallerStep(c)
  \/ CancelRequest \/ CloseRequest \/ Tick

Spec == Init /\ [][Next]_vars

\* Threads are scheduled, every post ends (its reads time out) and time passes.
\* The controller need not act.
FairSpec == Spec /\ WF_vars(Tick) /\ \A c \in Callers : WF_vars(CallerStep(c))

-----------------------------------------------------------------------------
TypeOK ==
  /\ budget \in BudgetStates({MaxAttempts}, {Deadline})
  /\ now \in Nat
  /\ pc \in [Callers -> Stations]
  /\ attempt \in [Callers -> Nat]
  /\ until \in [Callers -> Nat]

\* Concurrent reservations never share an attempt number and the ceiling bounds
\* them together.  The row of a dispatch in progress stays unknown, and that of
\* an answered one stays known, whatever the other callers note meanwhile.
OwnAttempt ==
  /\ Len(budget.dispatches) = budget.reserved
  /\ budget.reserved <= MaxAttempts
  /\ \A c \in Callers :
       /\ attempt[c] \in 0..budget.reserved
       /\ pc[c] = "sending"  => attempt[c] > 0 /\ budget.dispatches[attempt[c]] = "unknown"
       /\ pc[c] = "answered" => attempt[c] > 0 /\ budget.dispatches[attempt[c]] = "known"
       /\ \A d \in Callers \ {c} : attempt[d] = attempt[c] => attempt[c] = 0

\* in_flight never claims more than is known: it says known only when every
\* dispatch has been answered and no caller is still sending, and none only
\* before the first dispatch.
InFlightHonest ==
  budget.in_flight =
    IF budget.reserved = 0 THEN "none"
    ELSE IF \E i \in 1..budget.reserved : budget.dispatches[i] = "unknown"
         THEN "unknown" ELSE "known"

\* A granted socket timeout is positive and ends no later than the deadline,
\* and no dispatch is granted at or after it, however long the caller slept or
\* was delayed since its last check.
WithinDeadline ==
  \A c \in Callers : pc[c] = "sending" => until[c] > 0 /\ until[c] <= Deadline

\* A terminal reason is true of the request it concludes: exhausted attempts
\* were all used, a cancellation was asked for, success follows an answered
\* dispatch, and a deadline stop comes no earlier than one back-off before the
\* deadline.
ReasonTruthful ==
  CASE budget.terminal = "attempt_exhausted"  -> budget.reserved = MaxAttempts
    [] budget.terminal = "cancellation"       -> budget.cancelled
    [] budget.terminal = "success"            -> \E i \in 1..budget.reserved :
                                                   budget.dispatches[i] = "known"
    [] budget.terminal = "deadline_exhausted" -> \E d \in Delays \cup {0} :
                                                   now + d >= Deadline
    [] OTHER -> TRUE

\* A dispatch starts only while the request is neither concluded, cancelled nor
\* late: the three are tested in the step that takes the attempt.
NoDispatchAfterStop ==
  [][budget'.reserved # budget.reserved =>
       budget.terminal = Open /\ ~budget.cancelled /\ now < Deadline]_vars

\* The first terminal reason stands, and a cancellation is never taken back.
FirstReasonStands ==
  [][/\ budget.terminal # Open => budget'.terminal = budget.terminal
     /\ budget.cancelled => budget'.cancelled]_vars

\* Every caller returns, and the request ends with one terminal reason.
EveryCallerReturns ==
  <>[](/\ \A c \in Callers : pc[c] = "done"
       /\ Callers # {} => budget.terminal # Open)

-----------------------------------------------------------------------------
Ledger == INSTANCE AttemptLedger WITH
  Limit      <- MaxAttempts,
  NoVerdict  <- Open,
  Verdicts   <- TERMINAL_REASONS,
  granted    <- budget.reserved,
  unresolved <- {i \in 1..budget.reserved : budget.dispatches[i] = "unknown"},
  withdrawn  <- budget.cancelled,
  late       <- now >= Deadline,
  verdict    <- budget.terminal,
  report     <- budget.in_flight

\* The object, under any interleaving of its callers, keeps the promise of the
\* attempt ledger.
KeepsLedger == Ledger!Spec
=============================================================================
