---------------------------- MODULE BudgetObject ----------------------------
(***************************************************************************)
(* The methods of szl_router/request_budget.py as functions from the       *)
(* object's state to its next state.  Every method body runs under the     *)
(* object's one lock, so a method is one step of whoever calls it: the     *)
(* modules that use a budget apply these operators in their actions.       *)
(*                                                                         *)
(* Time is the budget's monotonic clock in whole units.  A dispatch row    *)
(* {"attempt": n, "outcome": o} is the n-th element, o, of `dispatches`.   *)
(* Argument validation and a clock that returns no finite number raise     *)
(* before any state changes and are left out.                              *)
(*                                                                         *)
(* An operator marked "Wrong:" is a plausible mistake in the method after  *)
(* it.  No definition uses it; it documents which property would notice.   *)
(***************************************************************************)
EXTENDS Naturals, Sequences

\* `_terminal is None`.
Open == "open"

TERMINAL_REASONS ==
  {"success", "tests_failed", "attempt_exhausted", "deadline_exhausted",
   "provider_unavailable", "policy_blocked", "cost_unknown", "cancellation"}

Outcomes == {"known", "unknown"}

\* RequestBudget.__init__
NewBudget(limit, due) ==
  [max_attempts |-> limit, deadline |-> due, reserved |-> 0, cancelled |-> FALSE,
   terminal |-> Open, in_flight |-> "none", dispatches |-> << >>]

\* Every object the methods can produce for attempt ceilings in limits and
\* deadlines in dues.
BudgetStates(limits, dues) ==
  [max_attempts : limits, deadline : dues, reserved : Nat, cancelled : BOOLEAN,
   terminal : TERMINAL_REASONS \cup {Open}, in_flight : Outcomes \cup {"none"},
   dispatches : Seq(Outcomes)]

\* Wrong: the last reason wins.
SettleLast(b, reason) == [b EXCEPT !.terminal = reason]

\* Write a terminal reason unless an earlier one stands.
Settle(b, reason) ==
  IF b.terminal = Open THEN [b EXCEPT !.terminal = reason] ELSE b

\* Wrong: a cancelled request still gets its next attempt.
ReserveStopUncancelled(b, t) ==
  IF b.terminal # Open THEN b.terminal
  ELSE IF t >= b.deadline THEN "deadline_exhausted"
  ELSE IF b.reserved >= b.max_attempts THEN "attempt_exhausted"
  ELSE Open

\* Wrong: one attempt more than the ceiling.
ReserveStopOneMore(b, t) ==
  IF b.terminal # Open THEN b.terminal
  ELSE IF b.cancelled THEN "cancellation"
  ELSE IF t >= b.deadline THEN "deadline_exhausted"
  ELSE IF b.reserved > b.max_attempts THEN "attempt_exhausted"
  ELSE Open

\* Why reserve() at time t raises BudgetStop, or Open when it does not.
ReserveStop(b, t) ==
  IF b.terminal # Open THEN b.terminal
  ELSE IF b.cancelled THEN "cancellation"
  ELSE IF t >= b.deadline THEN "deadline_exhausted"
  ELSE IF b.reserved >= b.max_attempts THEN "attempt_exhausted"
  ELSE Open

\* reserve(): the object afterwards, whether it raised or granted attempt
\* number b.reserved + 1.
Reserve(b, t) ==
  IF ReserveStop(b, t) # Open
  THEN Settle(b, ReserveStop(b, t))
  ELSE [b EXCEPT !.reserved = @ + 1, !.in_flight = "unknown",
                 !.dispatches = Append(@, "unknown")]

\* Wrong: the caller's timeout is not capped by the time that remains.
SendTimeoutUncapped(b, t, timeout) == timeout

\* The socket timeout a granted reserve() returns.
SendTimeout(b, t, timeout) ==
  IF timeout <= b.deadline - t THEN timeout ELSE b.deadline - t

\* Wrong: one response speaks for every dispatch.
NoteOutcomeLast(b, attempt, outcome) ==
  [b EXCEPT !.dispatches = [@ EXCEPT ![attempt] = outcome], !.in_flight = outcome]

NoteOutcome(b, attempt, outcome) ==
  LET rows == [b.dispatches EXCEPT ![attempt] = outcome]
  IN  [b EXCEPT !.dispatches = rows,
                !.in_flight = IF \E i \in DOMAIN rows : rows[i] = "unknown"
                              THEN "unknown" ELSE "known"]

\* Wrong: the last attempt of the ceiling is never used.
BackoffStopOneLess(b, t, delay) ==
  IF b.cancelled THEN "cancellation"
  ELSE IF b.terminal # Open THEN b.terminal
  ELSE IF b.reserved + 1 >= b.max_attempts THEN "attempt_exhausted"
  ELSE IF b.deadline <= t + delay THEN "deadline_exhausted"
  ELSE Open

\* Why allow_backoff(delay) at time t returns False, or Open when it returns True.
BackoffStop(b, t, delay) ==
  IF b.cancelled THEN "cancellation"
  ELSE IF b.terminal # Open THEN b.terminal
  ELSE IF b.reserved >= b.max_attempts THEN "attempt_exhausted"
  ELSE IF b.deadline <= t + delay THEN "deadline_exhausted"
  ELSE Open

AllowBackoff(b, t, delay) ==
  IF BackoffStop(b, t, delay) # Open THEN Settle(b, BackoffStop(b, t, delay)) ELSE b

\* Wrong: concludes a request whose dispatch may still succeed.
CancelInFlight(b) == Settle([b EXCEPT !.cancelled = TRUE], "cancellation")

\* Wrong: a reason outside TERMINAL_REASONS.
CancelMisspelt(b) == Settle([b EXCEPT !.cancelled = TRUE], "cancelled")

Cancel(b) ==
  LET asked == [b EXCEPT !.cancelled = TRUE]
  IN  IF b.in_flight = "none" THEN Settle(asked, "cancellation") ELSE asked

Close(b, reason) == Settle(b, reason)

MarkSuccess(b) == Settle(b, "success")
=============================================================================
