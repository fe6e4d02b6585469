------------------------ MODULE RequestBudget_proofs ------------------------
(***************************************************************************)
(* Proofs about RequestBudget, for any number of callers, any ceiling and  *)
(* deadline, and any timeouts and back-off delays.                         *)
(***************************************************************************)
EXTENDS RequestBudget, TLAPS

Budgets == BudgetStates({MaxAttempts}, {Deadline})

(***************************************************************************)
(* What the methods do to the object's fields.                             *)
(***************************************************************************)

\* Settling changes nothing but an open terminal reason.
LEMMA SettleEffect ==
  ASSUME NEW b \in Budgets, NEW reason \in TERMINAL_REASONS
  PROVE  /\ Settle(b, reason) \in Budgets
         /\ Settle(b, reason).terminal = IF b.terminal = Open THEN reason ELSE b.terminal
         /\ Settle(b, reason).reserved = b.reserved
         /\ Settle(b, reason).cancelled = b.cancelled
         /\ Settle(b, reason).in_flight = b.in_flight
         /\ Settle(b, reason).dispatches = b.dispatches
BY DEF Budgets, BudgetStates, Settle

\* A granted reservation opens one unknown row at the end.
LEMMA ReserveGrants ==
  ASSUME NEW b \in Budgets, NEW t \in Nat, ReserveStop(b, t) = Open
  PROVE  /\ Reserve(b, t) \in Budgets
         /\ Reserve(b, t).terminal = b.terminal
         /\ Reserve(b, t).reserved = b.reserved + 1
         /\ Reserve(b, t).cancelled = b.cancelled
         /\ Reserve(b, t).in_flight = "unknown"
         /\ Reserve(b, t).dispatches = Append(b.dispatches, "unknown")
<1>1. Reserve(b, t) = [b EXCEPT !.reserved = b.reserved + 1, !.in_flight = "unknown",
                                !.dispatches = Append(b.dispatches, "unknown")]
  BY DEF Reserve
<1>2. Append(b.dispatches, "unknown") \in Seq(Outcomes)
  BY DEF Budgets, BudgetStates, Outcomes
<1>3. PICK rows \in Seq(Outcomes) : rows = Append(b.dispatches, "unknown")
  BY <1>2
<1>4. PICK n \in Nat : n = b.reserved + 1
  BY DEF Budgets, BudgetStates
<1>5. PICK r : r = [b EXCEPT !.reserved = n, !.in_flight = "unknown", !.dispatches = rows]
  OBVIOUS
<1>6. r \in Budgets
  BY <1>5 DEF Budgets, BudgetStates, Outcomes
<1>7. /\ r.terminal = b.terminal /\ r.reserved = n
      /\ r.cancelled = b.cancelled /\ r.in_flight = "unknown" /\ r.dispatches = rows
  BY <1>5 DEF Budgets, BudgetStates
<1>8. Reserve(b, t) = r
  BY <1>1, <1>3, <1>4, <1>5
<1>9. QED
  BY <1>3, <1>4, <1>6, <1>7, <1>8

\* A granted reservation was neither concluded, cancelled, late nor over the ceiling.
LEMMA GrantConditions ==
  ASSUME NEW b \in Budgets, NEW t \in Nat, ReserveStop(b, t) = Open
  PROVE  b.terminal = Open /\ ~b.cancelled /\ t < Deadline /\ b.reserved < MaxAttempts
BY BudgetAssumption DEF Budgets, BudgetStates, ReserveStop, Open, MAX_ATTEMPT_CEILING

\* A refusal, by reserve() or by allow_backoff(), names a terminal reason.
LEMMA StopReasons ==
  ASSUME NEW b \in Budgets, NEW t \in Nat, NEW delay \in Nat
  PROVE  /\ ReserveStop(b, t) # Open => ReserveStop(b, t) \in TERMINAL_REASONS
         /\ BackoffStop(b, t, delay) # Open => BackoffStop(b, t, delay) \in TERMINAL_REASONS
BY DEF Budgets, BudgetStates, ReserveStop, BackoffStop, Open, TERMINAL_REASONS

\* Overwriting one element, in range or not, leaves a sequence of the same length.
LEMMA ExceptSeq ==
  ASSUME NEW S, NEW s \in Seq(S), NEW n, NEW x \in S
  PROVE  /\ [s EXCEPT ![n] = x] \in Seq(S)
         /\ Len([s EXCEPT ![n] = x]) = Len(s)
<1>1. CASE n \in 1..Len(s)
  BY <1>1
<1>2. CASE n \notin 1..Len(s)
  <2>1. [s EXCEPT ![n] = x] = s
    BY <1>2
  <2>2. QED
    BY <2>1
<1>3. QED
  BY <1>1, <1>2

\* Noting an outcome, of whatever attempt, leaves a budget.
LEMMA NoteTyped ==
  ASSUME NEW b \in Budgets, NEW n, NEW o \in Outcomes
  PROVE  NoteOutcome(b, n, o) \in Budgets
<1>0. b.dispatches \in Seq(Outcomes)
  BY DEF Budgets, BudgetStates
<1>1. PICK rows \in Seq(Outcomes) : rows = [b.dispatches EXCEPT ![n] = o]
  BY <1>0, ExceptSeq
<1>2. PICK s \in Outcomes :
        s = IF \E i \in DOMAIN rows : rows[i] = "unknown" THEN "unknown" ELSE "known"
  BY DEF Outcomes
<1>3. NoteOutcome(b, n, o) = [b EXCEPT !.dispatches = rows, !.in_flight = s]
  BY <1>1, <1>2 DEF NoteOutcome
<1>4. PICK r : r = [b EXCEPT !.dispatches = rows, !.in_flight = s]
  OBVIOUS
<1>5. r \in Budgets
  BY <1>4 DEF Budgets, BudgetStates, Outcomes
<1>6. QED
  BY <1>3, <1>4, <1>5

\* Noting an outcome changes one row and summarises all of them.
LEMMA NoteEffect ==
  ASSUME NEW b \in Budgets, NEW n \in 1..Len(b.dispatches), NEW o \in Outcomes
  PROVE  /\ NoteOutcome(b, n, o) \in Budgets
         /\ NoteOutcome(b, n, o).terminal = b.terminal
         /\ NoteOutcome(b, n, o).reserved = b.reserved
         /\ NoteOutcome(b, n, o).cancelled = b.cancelled
         /\ NoteOutcome(b, n, o).dispatches = [b.dispatches EXCEPT ![n] = o]
         /\ NoteOutcome(b, n, o).in_flight =
              IF \E i \in 1..Len(b.dispatches) : [b.dispatches EXCEPT ![n] = o][i] = "unknown"
              THEN "unknown" ELSE "known"
<1>1. /\ [b.dispatches EXCEPT ![n] = o] \in Seq(Outcomes)
      /\ DOMAIN [b.dispatches EXCEPT ![n] = o] = 1..Len(b.dispatches)
  BY DEF Budgets, BudgetStates
<1>2. QED
  BY <1>1 DEF Budgets, BudgetStates, NoteOutcome, Outcomes

\* Cancelling marks the object and concludes it only before the first dispatch.
LEMMA CancelEffect ==
  ASSUME NEW b \in Budgets
  PROVE  /\ Cancel(b) \in Budgets
         /\ Cancel(b).cancelled
         /\ Cancel(b).terminal = IF b.in_flight = "none" /\ b.terminal = Open
                                 THEN "cancellation" ELSE b.terminal
         /\ Cancel(b).reserved = b.reserved
         /\ Cancel(b).in_flight = b.in_flight
         /\ Cancel(b).dispatches = b.dispatches
BY DEF Budgets, BudgetStates, Cancel, Settle, TERMINAL_REASONS, Open

(***************************************************************************)
(* Type correctness.                                                       *)
(***************************************************************************)

\* The timeout a granted reservation returns ends after now and by the deadline.
LEMMA SendTimeoutBounds ==
  ASSUME NEW b \in Budgets, NEW t \in Nat, NEW timeout \in Nat \ {0}, t < Deadline
  PROVE  /\ t + SendTimeout(b, t, timeout) \in Nat
         /\ t + SendTimeout(b, t, timeout) > 0
         /\ t + SendTimeout(b, t, timeout) <= Deadline
BY BudgetAssumption DEF Budgets, BudgetStates, SendTimeout

\* Every state of every behaviour is well typed, whatever the callers do.
THEOREM TypeCorrect == Spec => []TypeOK
<1>1. Init => TypeOK
  <2> SUFFICES ASSUME Init PROVE TypeOK
    OBVIOUS
  <2>1. NewBudget(MaxAttempts, Deadline) \in BudgetStates({MaxAttempts}, {Deadline})
    BY DEF NewBudget, BudgetStates, Outcomes, TERMINAL_REASONS, Open
  <2>2. QED
    BY <2>1 DEF Init, TypeOK, Stations
<1>2. TypeOK /\ [Next]_vars => TypeOK'
  <2> SUFFICES ASSUME TypeOK, [Next]_vars PROVE TypeOK'
    OBVIOUS
  <2> USE DEF TypeOK, Stations
  <2>0. budget \in Budgets
    BY DEF Budgets
  <2>1. ASSUME NEW c \in Callers, CallerStep(c) PROVE TypeOK'
    <3>1. CASE NextRoute(c)
      BY <3>1 DEF NextRoute, Go
    <3>2. CASE GiveUp(c)
      BY <3>2 DEF GiveUp, Go
    <3>3. CASE CloseUnserved(c)
      <4>1. \A reason \in TERMINAL_REASONS : Close(budget, reason) \in Budgets
        BY <2>0, SettleEffect DEF Close
      <4>2. {"provider_unavailable", "policy_blocked"} \subseteq TERMINAL_REASONS
        BY DEF TERMINAL_REASONS
      <4>3. budget' \in Budgets
        BY <3>3, <4>1, <4>2 DEF CloseUnserved
      <4>4. QED
        BY <3>3, <4>3 DEF CloseUnserved, Go, Budgets
    <3>4. CASE Serve(c)
      <4>1. budget' \in Budgets
        BY <3>4, <2>0, SettleEffect DEF Serve, MarkSuccess, TERMINAL_REASONS
      <4>2. QED
        BY <3>4, <4>1 DEF Serve, Go, Budgets
    <3>5. CASE Reject(c)
      BY <3>5 DEF Reject, Go
    <3>6. CASE Dispatch(c)
      <4>1. budget' \in Budgets
        BY <3>6, <2>0, ReserveGrants DEF Dispatch
      <4>2. budget.reserved + 1 \in Nat
        BY <2>0 DEF Budgets, BudgetStates
      <4>3. PICK timeout \in Timeouts :
              until' = [until EXCEPT ![c] = now + SendTimeout(budget, now, timeout)]
        BY <3>6 DEF Dispatch
      <4>4. now + SendTimeout(budget, now, timeout) \in Nat
        BY <3>6, <2>0, GrantConditions, SendTimeoutBounds, BudgetAssumption DEF Dispatch
      <4>5. QED
        BY <3>6, <4>1, <4>2, <4>3, <4>4 DEF Dispatch, Go, Budgets
    <3>7. CASE Refused(c)
      <4>1. budget' = Settle(budget, ReserveStop(budget, now))
        BY <3>7 DEF Refused, Reserve
      <4>2. budget' \in Budgets
        BY <3>7, <2>0, <4>1, StopReasons, SettleEffect, 0 \in Nat DEF Refused
      <4>3. QED
        BY <3>7, <4>2 DEF Refused, Go, Budgets
    <3>8. ASSUME NEW o \in Outcomes, NEW to \in {"answered", "backoff", "between"}, Observe(c, o, to)
          PROVE  TypeOK'
      <4>1. NoteOutcome(budget, attempt[c], o) \in Budgets
        BY <2>0, NoteTyped
      <4>2. QED
        BY <3>8, <4>1 DEF Observe, Go, Budgets
    <3>9. CASE Answer(c) \/ HttpError(c) \/ Lost(c)
      BY <3>9, <3>8 DEF Answer, HttpError, Lost, Outcomes
    <3>10. ASSUME NEW delay \in Delays, Backoff(c, delay) PROVE TypeOK'
      <4>1. budget' \in Budgets
        BY <3>10, <2>0, StopReasons, SettleEffect, BudgetAssumption DEF Backoff, AllowBackoff
      <4>2. delay \in Nat
        BY BudgetAssumption
      <4>3. QED
        BY <3>10, <4>1, <4>2 DEF Backoff, Go, Budgets
    <3>11. CASE FallAsleep(c)
      BY <3>11 DEF FallAsleep, Go
    <3>12. CASE Wake(c)
      BY <3>12 DEF Wake, Go
    <3>13. QED
      BY <2>1, <3>1, <3>2, <3>3, <3>4, <3>5, <3>6, <3>7, <3>9, <3>10, <3>11, <3>12
      DEF CallerStep
  <2>2. CASE CancelRequest
    BY <2>2, <2>0, CancelEffect DEF CancelRequest, Budgets
  <2>3. CASE CloseRequest
    <3>1. {"tests_failed", "cost_unknown"} \subseteq TERMINAL_REASONS
      BY DEF TERMINAL_REASONS
    <3>2. budget' \in Budgets
      BY <2>3, <2>0, <3>1, SettleEffect DEF CloseRequest, Close
    <3>3. QED
      BY <2>3, <3>2 DEF CloseRequest, Budgets
  <2>4. CASE Tick
    BY <2>4 DEF Tick
  <2>stutter. ASSUME vars' = vars PROVE TypeOK'
    BY <2>stutter DEF vars
  <2>end. QED
    BY <2>stutter, <2>4, <2>3, <2>2, <2>1 DEF Next, vars
<1>3. QED
  BY <1>2, <1>1, PTL DEF Spec

(***************************************************************************)
(* What a step can do: to the numbered attempts, and to the conclusion.    *)
(***************************************************************************)

\* The attempts, their rows and the callers that depend on them are left alone.
AttemptsUntouched ==
  /\ budget'.reserved = budget.reserved
  /\ budget'.dispatches = budget.dispatches
  /\ budget'.in_flight = budget.in_flight
  /\ attempt' = attempt
  /\ \A c \in Callers : pc'[c] \in {"sending", "answered"} =>
       pc'[c] = pc[c] /\ until'[c] = until[c]

\* An outcome is observed of c's dispatch.
Observed(c) ==
  \E outcome \in Outcomes, to \in {"answered", "backoff", "between"} :
    /\ Observe(c, outcome, to)
    /\ to = "answered" => outcome = "known"

\* Only a granted reservation and an observed outcome touch the attempts.
LEMMA AttemptSteps ==
  ASSUME TypeOK, [Next]_vars
  PROVE  AttemptsUntouched \/ \E c \in Callers : Dispatch(c) \/ Observed(c)
<1> USE DEF TypeOK, Stations
<1>0. budget \in Budgets
  BY DEF Budgets
<1>1. ASSUME NEW c \in Callers, CallerStep(c)
      PROVE  AttemptsUntouched \/ Dispatch(c) \/ Observed(c)
  <2>1. CASE NextRoute(c)
    BY <2>1 DEF NextRoute, Go, AttemptsUntouched
  <2>2. CASE GiveUp(c)
    BY <2>2 DEF GiveUp, Go, AttemptsUntouched
  <2>3. CASE CloseUnserved(c)
    BY <2>3, <1>0, SettleEffect
    DEF CloseUnserved, Go, AttemptsUntouched, Close, TERMINAL_REASONS
  <2>4. CASE Serve(c)
    BY <2>4, <1>0, SettleEffect
    DEF Serve, Go, AttemptsUntouched, MarkSuccess, TERMINAL_REASONS
  <2>5. CASE Reject(c)
    BY <2>5 DEF Reject, Go, AttemptsUntouched
  <2>6. CASE Refused(c)
    <3>1. ReserveStop(budget, now) \in TERMINAL_REASONS
      BY <2>6, <1>0, StopReasons, 0 \in Nat DEF Refused
    <3>2. budget' = Settle(budget, ReserveStop(budget, now))
      BY <2>6 DEF Refused, Reserve
    <3>3. QED
      BY <2>6, <3>1, <3>2, <1>0, SettleEffect DEF Refused, Go, AttemptsUntouched
  <2>7. CASE Answer(c) \/ HttpError(c) \/ Lost(c)
    BY <2>7 DEF Answer, HttpError, Lost, Observed, Outcomes
  <2>8. ASSUME NEW delay \in Delays, Backoff(c, delay) PROVE AttemptsUntouched
    <3>1. \/ budget' = budget
          \/ \E reason \in TERMINAL_REASONS : budget' = Settle(budget, reason)
      BY <2>8, <1>0, StopReasons, BudgetAssumption DEF Backoff, AllowBackoff
    <3>2. /\ budget'.reserved = budget.reserved
          /\ budget'.dispatches = budget.dispatches
          /\ budget'.in_flight = budget.in_flight
      BY <3>1, <1>0, SettleEffect
    <3>3. QED
      BY <2>8, <3>2 DEF Backoff, Go, AttemptsUntouched
  <2>9. CASE FallAsleep(c)
    BY <2>9 DEF FallAsleep, Go, AttemptsUntouched
  <2>10. CASE Wake(c)
    BY <2>10 DEF Wake, Go, AttemptsUntouched
  <2>11. QED
    BY <1>1, <2>1, <2>2, <2>3, <2>4, <2>5, <2>6, <2>7, <2>8, <2>9, <2>10 DEF CallerStep
<1>2. CASE CancelRequest
  BY <1>2, <1>0, CancelEffect DEF CancelRequest, AttemptsUntouched
<1>3. CASE CloseRequest
  BY <1>3, <1>0, SettleEffect DEF CloseRequest, Close, AttemptsUntouched, TERMINAL_REASONS
<1>4. CASE Tick
  BY <1>4 DEF Tick, AttemptsUntouched
<1>5. CASE UNCHANGED vars
  BY <1>5 DEF vars, AttemptsUntouched
<1>6. QED
  BY <1>1, <1>2, <1>3, <1>4, <1>5 DEF Next

\* The request is concluded, for a reason that is true when it is given.
Concluded ==
  /\ budget.terminal = Open /\ budget'.terminal \in TERMINAL_REASONS
  /\ UNCHANGED now
  /\ budget'.reserved = budget.reserved /\ budget'.dispatches = budget.dispatches
  /\ budget'.in_flight = budget.in_flight
  /\ CASE budget'.terminal = "attempt_exhausted" -> budget.reserved >= MaxAttempts
       [] budget'.terminal = "cancellation" -> budget'.cancelled
       [] budget'.terminal = "success" -> \E c \in Callers : pc[c] = "answered"
       [] budget'.terminal = "deadline_exhausted" ->
            \E d \in Delays \cup {0} : now + d >= Deadline
       [] OTHER -> TRUE
  /\ \/ budget'.cancelled = budget.cancelled
     \/ budget'.cancelled /\ budget.in_flight = "none" /\ budget'.terminal = "cancellation"

\* A step leaves the conclusion alone or concludes.
LEMMA VerdictSteps ==
  ASSUME TypeOK, [Next]_vars
  PROVE  /\ Concluded \/ budget'.terminal = budget.terminal
         /\ budget.cancelled => budget'.cancelled
         /\ now' \in Nat /\ now' >= now
<1> USE DEF TypeOK, Stations
<1>0. budget \in Budgets /\ now \in Nat /\ Deadline \in Nat /\ MaxAttempts \in Nat
  BY BudgetAssumption DEF Budgets
<1>1. ASSUME NEW c \in Callers, CallerStep(c)
      PROVE  /\ Concluded \/ budget'.terminal = budget.terminal
             /\ budget.cancelled => budget'.cancelled
             /\ now' = now
  <2>1. CASE NextRoute(c)
    BY <2>1 DEF NextRoute
  <2>2. CASE GiveUp(c)
    BY <2>2 DEF GiveUp
  <2>3. CASE CloseUnserved(c)
    BY <2>3, <1>0, SettleEffect DEF CloseUnserved, Close, Concluded, TERMINAL_REASONS
  <2>4. CASE Serve(c)
    BY <2>4, <1>0, SettleEffect DEF Serve, Go, MarkSuccess, Concluded, TERMINAL_REASONS
  <2>5. CASE Reject(c)
    BY <2>5 DEF Reject
  <2>6. CASE Dispatch(c)
    BY <2>6, <1>0, ReserveGrants DEF Dispatch
  <2>7. CASE Refused(c)
    <3>1. ReserveStop(budget, now) \in TERMINAL_REASONS
      BY <2>7, <1>0, StopReasons, 0 \in Nat DEF Refused
    <3>2. budget' = Settle(budget, ReserveStop(budget, now)) /\ now' = now
      BY <2>7 DEF Refused, Reserve
    <3>3. budget.terminal = Open =>
            CASE ReserveStop(budget, now) = "attempt_exhausted" -> budget.reserved >= MaxAttempts
              [] ReserveStop(budget, now) = "cancellation" -> budget.cancelled
              [] ReserveStop(budget, now) = "success" -> FALSE
              [] ReserveStop(budget, now) = "deadline_exhausted" -> now + 0 >= Deadline
              [] OTHER -> TRUE
      BY <1>0 DEF ReserveStop, Budgets, BudgetStates, Open
    <3>4. QED
      BY <3>1, <3>2, <3>3, <1>0, SettleEffect DEF Concluded
  <2>8. CASE Answer(c) \/ HttpError(c) \/ Lost(c)
    <3>1. PICK o \in Outcomes : budget' = NoteOutcome(budget, attempt[c], o) /\ now' = now
      BY <2>8 DEF Answer, HttpError, Lost, Observe, Outcomes
    <3>2. budget'.terminal = budget.terminal /\ budget'.cancelled = budget.cancelled
      BY <3>1, <1>0 DEF NoteOutcome, Budgets, BudgetStates
    <3>3. QED
      BY <3>1, <3>2
  <2>9. ASSUME NEW delay \in Delays, Backoff(c, delay)
        PROVE  /\ Concluded \/ budget'.terminal = budget.terminal
               /\ budget.cancelled => budget'.cancelled
               /\ now' = now
    <3>0. delay \in Nat
      BY BudgetAssumption
    <3>1. CASE BackoffStop(budget, now, delay) = Open
      BY <2>9, <3>1 DEF Backoff, AllowBackoff
    <3>2. CASE BackoffStop(budget, now, delay) # Open
      <4>1. BackoffStop(budget, now, delay) \in TERMINAL_REASONS
        BY <3>2, <3>0, <1>0, StopReasons
      <4>2. budget' = Settle(budget, BackoffStop(budget, now, delay)) /\ now' = now
        BY <2>9, <3>2 DEF Backoff, AllowBackoff
      <4>3. budget.terminal = Open =>
              CASE BackoffStop(budget, now, delay) = "attempt_exhausted" ->
                     budget.reserved >= MaxAttempts
                [] BackoffStop(budget, now, delay) = "cancellation" -> budget.cancelled
                [] BackoffStop(budget, now, delay) = "success" -> FALSE
                [] BackoffStop(budget, now, delay) = "deadline_exhausted" ->
                     now + delay >= Deadline
                [] OTHER -> TRUE
        BY <1>0, <3>0 DEF BackoffStop, Budgets, BudgetStates, Open
      <4>4. QED
        BY <4>1, <4>2, <4>3, <1>0, SettleEffect DEF Concluded
    <3>3. QED
      BY <3>1, <3>2
  <2>10. CASE FallAsleep(c)
    BY <2>10 DEF FallAsleep
  <2>11. CASE Wake(c)
    BY <2>11 DEF Wake
  <2>12. QED
    BY <1>1, <2>1, <2>2, <2>3, <2>4, <2>5, <2>6, <2>7, <2>8, <2>9, <2>10, <2>11
    DEF CallerStep
<1>2. CASE CancelRequest
  BY <1>2, <1>0, CancelEffect DEF CancelRequest, Concluded, TERMINAL_REASONS
<1>3. CASE CloseRequest
  BY <1>3, <1>0, SettleEffect DEF CloseRequest, Close, Concluded, TERMINAL_REASONS
<1>4. CASE Tick
  BY <1>4 DEF Tick
<1>5. CASE UNCHANGED vars
  BY <1>5 DEF vars
<1>6. QED
  BY <1>0, <1>1, <1>2, <1>3, <1>4, <1>5 DEF Next

(***************************************************************************)
(* The inductive invariant.  OwnAttempt alone would be inductive; the rest *)
(* needs its rows: a reason success rests on an answered row that no later *)
(* observation may take back.                                              *)
(***************************************************************************)

IInv == TypeOK /\ OwnAttempt /\ InFlightHonest /\ WithinDeadline /\ ReasonTruthful

\* A granted reservation takes a number nobody has.
LEMMA DispatchStep ==
  ASSUME TypeOK, OwnAttempt, NEW c \in Callers, Dispatch(c)
  PROVE  /\ budget' \in Budgets
         /\ budget'.terminal = budget.terminal /\ budget.terminal = Open
         /\ budget'.cancelled = budget.cancelled /\ ~budget.cancelled
         /\ now < Deadline /\ budget.reserved < MaxAttempts /\ now' = now
         /\ budget'.reserved = budget.reserved + 1
         /\ budget'.in_flight = "unknown"
         /\ budget'.dispatches \in Seq(Outcomes)
         /\ Len(budget'.dispatches) = budget.reserved + 1
         /\ \A i \in 1..budget.reserved : budget'.dispatches[i] = budget.dispatches[i]
         /\ budget'.dispatches[budget.reserved + 1] = "unknown"
         /\ attempt' = [attempt EXCEPT ![c] = budget.reserved + 1]
         /\ pc' = [pc EXCEPT ![c] = "sending"]
<1>1. /\ budget \in Budgets /\ now \in Nat /\ ReserveStop(budget, now) = Open
      /\ budget' = Reserve(budget, now)
  BY DEF TypeOK, Budgets, Dispatch
<1>2. /\ budget.reserved \in Nat /\ budget.dispatches \in Seq(Outcomes)
      /\ Len(budget.dispatches) = budget.reserved
  BY <1>1 DEF Budgets, BudgetStates, OwnAttempt
<1>3. /\ budget'.dispatches = Append(budget.dispatches, "unknown")
      /\ budget' \in Budgets /\ budget'.terminal = budget.terminal
      /\ budget'.cancelled = budget.cancelled
      /\ budget'.reserved = budget.reserved + 1 /\ budget'.in_flight = "unknown"
  BY <1>1, ReserveGrants
<1>4. /\ Append(budget.dispatches, "unknown") \in Seq(Outcomes)
      /\ Len(Append(budget.dispatches, "unknown")) = budget.reserved + 1
      /\ \A i \in 1..budget.reserved :
           Append(budget.dispatches, "unknown")[i] = budget.dispatches[i]
      /\ Append(budget.dispatches, "unknown")[budget.reserved + 1] = "unknown"
  BY <1>2 DEF Outcomes
<1>5. QED
  BY <1>1, <1>3, <1>4, GrantConditions DEF Dispatch, Go

\* An observed outcome rewrites the row of an attempt that nobody else holds,
\* and the summary follows the rows.
LEMMA ObservedStep ==
  ASSUME TypeOK, OwnAttempt, NEW c \in Callers, Observed(c)
  PROVE  /\ budget'.terminal = budget.terminal /\ budget'.cancelled = budget.cancelled
         /\ budget'.reserved = budget.reserved /\ now' = now /\ attempt' = attempt
         /\ attempt[c] \in 1..budget.reserved /\ pc[c] = "sending"
         /\ budget.dispatches[attempt[c]] = "unknown"
         /\ budget'.dispatches \in Seq(Outcomes)
         /\ Len(budget'.dispatches) = budget.reserved
         /\ \A i \in 1..budget.reserved :
              i # attempt[c] => budget'.dispatches[i] = budget.dispatches[i]
         /\ pc'[c] # "sending"
         /\ pc'[c] = "answered" => budget'.dispatches[attempt[c]] = "known"
         /\ \A d \in Callers \ {c} : pc'[d] = pc[d]
         /\ until' = until
         /\ budget'.in_flight =
              IF \E i \in 1..budget.reserved : budget'.dispatches[i] = "unknown"
              THEN "unknown" ELSE "known"
<1>1. PICK o \in Outcomes, to \in {"answered", "backoff", "between"} :
        Observe(c, o, to) /\ (to = "answered" => o = "known")
  BY DEF Observed
<1>2. /\ budget \in Budgets /\ budget.reserved \in Nat
      /\ budget.dispatches \in Seq(Outcomes)
      /\ Len(budget.dispatches) = budget.reserved
  BY DEF TypeOK, OwnAttempt, Budgets, BudgetStates
<1>3. /\ pc[c] = "sending" /\ pc' = [pc EXCEPT ![c] = to]
      /\ budget' = NoteOutcome(budget, attempt[c], o)
      /\ UNCHANGED <<now, attempt, until>>
  BY <1>1 DEF Observe, Go
<1>4. attempt[c] \in 1..budget.reserved /\ budget.dispatches[attempt[c]] = "unknown"
  BY <1>2, <1>3 DEF OwnAttempt, TypeOK
<1>5. /\ budget'.terminal = budget.terminal /\ budget'.reserved = budget.reserved
      /\ budget'.cancelled = budget.cancelled
      /\ budget'.dispatches = [budget.dispatches EXCEPT ![attempt[c]] = o]
      /\ budget'.in_flight =
           IF \E i \in 1..budget.reserved :
                [budget.dispatches EXCEPT ![attempt[c]] = o][i] = "unknown"
           THEN "unknown" ELSE "known"
  BY <1>2, <1>3, <1>4, NoteEffect
<1>6. /\ [budget.dispatches EXCEPT ![attempt[c]] = o] \in Seq(Outcomes)
      /\ Len([budget.dispatches EXCEPT ![attempt[c]] = o]) = budget.reserved
  BY <1>2, <1>4
<1>7. /\ [budget.dispatches EXCEPT ![attempt[c]] = o][attempt[c]] = o
      /\ \A i \in 1..budget.reserved : i # attempt[c] =>
           [budget.dispatches EXCEPT ![attempt[c]] = o][i] = budget.dispatches[i]
  BY <1>2, <1>4
<1>8. QED
  BY <1>1, <1>3, <1>4, <1>5, <1>6, <1>7 DEF TypeOK

LEMMA OwnAttemptInductive ==
  ASSUME TypeOK, TypeOK', OwnAttempt, [Next]_vars
  PROVE  OwnAttempt'
<1>0. /\ budget.reserved \in Nat /\ MaxAttempts \in Nat
      /\ pc \in [Callers -> Stations] /\ attempt \in [Callers -> Nat]
      /\ budget.dispatches \in Seq(Outcomes)
  BY BudgetAssumption DEF TypeOK, BudgetStates, MAX_ATTEMPT_CEILING
<1>1. CASE AttemptsUntouched
  BY <1>0, <1>1 DEF AttemptsUntouched, OwnAttempt
<1>2. ASSUME NEW c \in Callers, Dispatch(c) PROVE OwnAttempt'
  <2>1. Len(budget'.dispatches) = budget'.reserved /\ budget'.reserved <= MaxAttempts
    BY <1>0, <1>2, DispatchStep
  <2>2. ASSUME NEW d \in Callers
        PROVE  /\ attempt'[d] \in 0..budget'.reserved
               /\ pc'[d] = "sending" =>
                    attempt'[d] > 0 /\ budget'.dispatches[attempt'[d]] = "unknown"
               /\ pc'[d] = "answered" =>
                    attempt'[d] > 0 /\ budget'.dispatches[attempt'[d]] = "known"
    <3>1. CASE d = c
      BY <1>0, <1>2, <3>1, DispatchStep
    <3>2. CASE d # c
      <4>1. attempt'[d] = attempt[d] /\ pc'[d] = pc[d]
        BY <1>0, <1>2, <3>2, DispatchStep
      <4>2. attempt[d] \in 0..budget.reserved
        BY DEF OwnAttempt
      <4>3. QED
        BY <1>0, <1>2, <4>1, <4>2, DispatchStep DEF OwnAttempt
    <3>3. QED
      BY <3>1, <3>2
  <2>3. ASSUME NEW d \in Callers, NEW e \in Callers \ {d}, attempt'[e] = attempt'[d]
        PROVE  attempt'[d] = 0
    <3>1. \A x \in Callers : attempt[x] <= budget.reserved
      BY <1>0 DEF OwnAttempt
    <3>2. attempt' = [attempt EXCEPT ![c] = budget.reserved + 1]
      BY <1>2, DispatchStep
    <3>3. d # c /\ e # c
      BY <1>0, <2>3, <3>1, <3>2
    <3>4. QED
      BY <1>0, <2>3, <3>2, <3>3 DEF OwnAttempt
  <2>4. QED
    BY <2>1, <2>2, <2>3 DEF OwnAttempt
<1>3. ASSUME NEW c \in Callers, Observed(c) PROVE OwnAttempt'
  <2>1. Len(budget'.dispatches) = budget'.reserved /\ budget'.reserved <= MaxAttempts
    BY <1>3, ObservedStep DEF OwnAttempt
  <2>2. ASSUME NEW d \in Callers
        PROVE  /\ attempt'[d] \in 0..budget'.reserved
               /\ pc'[d] = "sending" =>
                    attempt'[d] > 0 /\ budget'.dispatches[attempt'[d]] = "unknown"
               /\ pc'[d] = "answered" =>
                    attempt'[d] > 0 /\ budget'.dispatches[attempt'[d]] = "known"
    <3>1. CASE d = c
      BY <1>0, <1>3, <3>1, ObservedStep
    <3>2. CASE d # c
      <4>1. pc'[d] = pc[d] /\ attempt' = attempt /\ budget'.reserved = budget.reserved
        BY <1>3, <3>2, ObservedStep
      <4>2. attempt[d] > 0 => attempt[d] # attempt[c]
        BY <3>2, <1>0 DEF OwnAttempt
      <4>3. QED
        BY <1>0, <1>3, <4>1, <4>2, ObservedStep DEF OwnAttempt
    <3>3. QED
      BY <3>1, <3>2
  <2>3. QED
    BY <1>3, <2>1, <2>2, ObservedStep DEF OwnAttempt
<1>4. QED
  BY <1>1, <1>2, <1>3, AttemptSteps

LEMMA InFlightInductive ==
  ASSUME TypeOK, TypeOK', OwnAttempt, InFlightHonest, [Next]_vars
  PROVE  InFlightHonest'
<1>0. budget.reserved \in Nat
  BY DEF TypeOK, BudgetStates
<1>1. CASE AttemptsUntouched
  BY <1>1 DEF AttemptsUntouched, InFlightHonest
<1>2. ASSUME NEW c \in Callers, Dispatch(c) PROVE InFlightHonest'
  BY <1>0, <1>2, DispatchStep DEF InFlightHonest
<1>3. ASSUME NEW c \in Callers, Observed(c) PROVE InFlightHonest'
  <2>1. budget'.reserved = budget.reserved /\ budget.reserved # 0
    BY <1>0, <1>3, ObservedStep
  <2>2. QED
    BY <1>3, <2>1, ObservedStep DEF InFlightHonest
<1>4. QED
  BY <1>1, <1>2, <1>3, AttemptSteps

LEMMA WithinDeadlineInductive ==
  ASSUME TypeOK, TypeOK', OwnAttempt, WithinDeadline, [Next]_vars
  PROVE  WithinDeadline'
<1>0. /\ pc \in [Callers -> Stations] /\ until \in [Callers -> Nat]
      /\ budget \in Budgets /\ now \in Nat
  BY DEF TypeOK, Budgets
<1>1. CASE AttemptsUntouched
  BY <1>0, <1>1 DEF AttemptsUntouched, WithinDeadline
<1>2. ASSUME NEW c \in Callers, Dispatch(c) PROVE WithinDeadline'
  <2>1. PICK timeout \in Timeouts :
          until' = [until EXCEPT ![c] = now + SendTimeout(budget, now, timeout)]
    BY <1>2 DEF Dispatch
  <2>2. pc' = [pc EXCEPT ![c] = "sending"] /\ now < Deadline
    BY <1>2, DispatchStep
  <2>3. timeout \in Nat \ {0}
    BY BudgetAssumption
  <2>4. until'[c] > 0 /\ until'[c] <= Deadline
    BY <1>0, <2>1, <2>2, <2>3, SendTimeoutBounds
  <2>5. \A d \in Callers \ {c} : until'[d] = until[d] /\ pc'[d] = pc[d]
    BY <1>0, <2>1, <2>2
  <2>6. QED
    BY <2>4, <2>5 DEF WithinDeadline
<1>3. ASSUME NEW c \in Callers, Observed(c) PROVE WithinDeadline'
  BY <1>3, ObservedStep DEF WithinDeadline
<1>4. QED
  BY <1>1, <1>2, <1>3, AttemptSteps

\* Rows that are known stay known, and attempts are never given back.
LEMMA RowsPersist ==
  ASSUME TypeOK, OwnAttempt, [Next]_vars
  PROVE  /\ budget'.reserved \in Nat /\ budget'.reserved >= budget.reserved
         /\ \A i \in 1..budget.reserved :
              budget.dispatches[i] = "known" => budget'.dispatches[i] = "known"
<1>0. budget.reserved \in Nat
  BY DEF TypeOK, BudgetStates
<1>1. CASE AttemptsUntouched
  BY <1>0, <1>1 DEF AttemptsUntouched
<1>2. ASSUME NEW c \in Callers, Dispatch(c)
      PROVE  /\ budget'.reserved \in Nat /\ budget'.reserved >= budget.reserved
             /\ \A i \in 1..budget.reserved :
                  budget.dispatches[i] = "known" => budget'.dispatches[i] = "known"
  BY <1>0, <1>2, DispatchStep
<1>3. ASSUME NEW c \in Callers, Observed(c)
      PROVE  /\ budget'.reserved \in Nat /\ budget'.reserved >= budget.reserved
             /\ \A i \in 1..budget.reserved :
                  budget.dispatches[i] = "known" => budget'.dispatches[i] = "known"
  BY <1>0, <1>3, ObservedStep
<1>4. QED
  BY <1>1, <1>2, <1>3, AttemptSteps

LEMMA ReasonInductive ==
  ASSUME TypeOK, TypeOK', OwnAttempt, OwnAttempt', ReasonTruthful, [Next]_vars
  PROVE  ReasonTruthful'
<1>0. /\ budget.reserved \in Nat /\ budget'.reserved \in Nat /\ MaxAttempts \in Nat
      /\ now \in Nat /\ Deadline \in Nat /\ Delays \subseteq Nat
      /\ budget.reserved <= MaxAttempts /\ budget'.reserved <= MaxAttempts
  BY BudgetAssumption DEF TypeOK, BudgetStates, OwnAttempt, MAX_ATTEMPT_CEILING
<1>1. CASE Concluded
  <2>1. \A c \in Callers : pc[c] = "answered" =>
          attempt[c] \in 1..budget'.reserved /\ budget'.dispatches[attempt[c]] = "known"
    BY <1>0, <1>1 DEF Concluded, OwnAttempt
  <2>2. QED
    BY <1>0, <1>1, <2>1 DEF Concluded, ReasonTruthful
<1>2. CASE budget'.terminal = budget.terminal
  <2>1. /\ budget.cancelled => budget'.cancelled
        /\ now' \in Nat /\ now' >= now
    BY VerdictSteps
  <2>2. /\ budget'.reserved >= budget.reserved
        /\ \A i \in 1..budget.reserved :
             budget.dispatches[i] = "known" => budget'.dispatches[i] = "known"
    BY RowsPersist
  <2>3. CASE budget.terminal = "success"
    BY <1>0, <1>2, <2>2, <2>3 DEF ReasonTruthful
  <2>4. CASE budget.terminal = "deadline_exhausted"
    BY <1>0, <1>2, <2>1, <2>4 DEF ReasonTruthful
  <2>5. CASE budget.terminal \notin {"success", "deadline_exhausted"}
    BY <1>0, <1>2, <2>1, <2>2, <2>5 DEF ReasonTruthful
  <2>6. QED
    BY <2>3, <2>4, <2>5
<1>3. QED
  BY <1>1, <1>2, VerdictSteps

\* The five invariants hold in every reachable state.
THEOREM Invariance == Spec => []IInv
<1>1. Init => OwnAttempt /\ InFlightHonest /\ WithinDeadline /\ ReasonTruthful
  BY BudgetAssumption
  DEF Init, NewBudget, OwnAttempt, InFlightHonest, WithinDeadline, ReasonTruthful,
      MAX_ATTEMPT_CEILING, Open
<1>2. TypeOK /\ TypeOK' /\ OwnAttempt /\ InFlightHonest /\ WithinDeadline /\ ReasonTruthful
        /\ [Next]_vars
      => OwnAttempt' /\ InFlightHonest' /\ WithinDeadline' /\ ReasonTruthful'
  BY OwnAttemptInductive, InFlightInductive, WithinDeadlineInductive, ReasonInductive
<1>3. QED
  BY <1>1, <1>2, TypeCorrect, PTL DEF Spec, IInv

\* Concurrent reservations share no attempt number and no row, and together
\* they never exceed the ceiling.
THEOREM AttemptsAreOwned == Spec => []OwnAttempt
BY Invariance, PTL DEF IInv

\* The summary of the dispatches never says more than is known.
THEOREM SummaryIsHonest == Spec => []InFlightHonest
BY Invariance, PTL DEF IInv

\* No granted socket timeout reaches past the absolute deadline.
THEOREM TimeoutsEndInTime == Spec => []WithinDeadline
BY Invariance, PTL DEF IInv

\* A terminal reason is true of the request it concludes.
THEOREM ReasonsAreTrue == Spec => []ReasonTruthful
BY Invariance, PTL DEF IInv

\* Attempts are taken only while nothing has stopped the request.
THEOREM NothingDispatchedAfterStop == Spec => NoDispatchAfterStop
<1>1. IInv /\ [Next]_vars =>
        [budget'.reserved # budget.reserved =>
           budget.terminal = Open /\ ~budget.cancelled /\ now < Deadline]_vars
  <2> SUFFICES ASSUME IInv, [Next]_vars, budget'.reserved # budget.reserved
               PROVE  budget.terminal = Open /\ ~budget.cancelled /\ now < Deadline
    OBVIOUS
  <2>1. ~AttemptsUntouched
    BY DEF AttemptsUntouched
  <2>2. \A c \in Callers : ~Observed(c)
    BY ObservedStep DEF IInv
  <2>3. PICK c \in Callers : Dispatch(c)
    BY <2>1, <2>2, AttemptSteps DEF IInv
  <2>4. QED
    BY <2>3, DispatchStep DEF IInv
<1>2. QED
  BY <1>1, Invariance, PTL DEF Spec, NoDispatchAfterStop

\* The first conclusion stands and a cancellation is never taken back.
THEOREM FirstReason == Spec => FirstReasonStands
<1>1. TypeOK /\ [Next]_vars =>
        [/\ budget.terminal # Open => budget'.terminal = budget.terminal
         /\ budget.cancelled => budget'.cancelled]_vars
  BY VerdictSteps DEF Concluded
<1>2. QED
  BY <1>1, TypeCorrect, PTL DEF Spec, FirstReasonStands

(***************************************************************************)
(* The object keeps the promise of the attempt ledger.                     *)
(***************************************************************************)

Unresolved == {i \in 1..budget.reserved : budget.dispatches[i] = "unknown"}

\* Any interleaving of callers, controller and clock implements AttemptLedger:
\* a reservation grants, a known outcome resolves its own attempt only, and a
\* conclusion is the ledger's verdict.
THEOREM LedgerKept == Spec => KeepsLedger
<1>1. Init => Ledger!Init
  <2> SUFFICES ASSUME Init PROVE Ledger!Init
    OBVIOUS
  <2>1. Unresolved = {}
    BY DEF Init, NewBudget, Unresolved
  <2>2. QED
    BY <2>1 DEF Init, NewBudget, Ledger!Init, Unresolved
<1>2. IInv /\ IInv' /\ [Next]_vars => [Ledger!Next]_(Ledger!vars)
  <2> SUFFICES ASSUME IInv, IInv', [Next]_vars PROVE Ledger!Next \/ UNCHANGED Ledger!vars
    OBVIOUS
  <2>0. /\ budget.reserved \in Nat /\ budget'.reserved \in Nat /\ now \in Nat
        /\ Deadline \in Nat /\ MaxAttempts \in Nat /\ budget.cancelled \in BOOLEAN
        /\ budget.reserved <= MaxAttempts
        /\ budget'.cancelled \in BOOLEAN /\ budget'.reserved <= MaxAttempts
    BY BudgetAssumption DEF IInv, TypeOK, BudgetStates, OwnAttempt, MAX_ATTEMPT_CEILING
  <2>1. ASSUME NEW c \in Callers, Dispatch(c) PROVE Ledger!Next
    <3>1. Unresolved' = Unresolved \cup {budget.reserved + 1}
      BY <2>0, <2>1, DispatchStep DEF IInv, Unresolved
    <3>2. Ledger!Grant
      BY <2>0, <2>1, <3>1, DispatchStep DEF IInv, Ledger!Grant, Ledger!Summary, Unresolved
    <3>3. QED
      BY <3>2 DEF Ledger!Next
  <2>2. ASSUME NEW c \in Callers, Observed(c) PROVE Ledger!Next \/ UNCHANGED Ledger!vars
    <3>1. attempt[c] \in Unresolved
      BY <2>2, ObservedStep DEF IInv, Unresolved
    <3>2. /\ budget'.in_flight = Ledger!Summary(budget.reserved, Unresolved')
          /\ budget.in_flight = Ledger!Summary(budget.reserved, Unresolved)
      BY <2>0, <2>2, ObservedStep DEF IInv, InFlightHonest, Ledger!Summary, Unresolved
    <3>3. CASE budget'.dispatches[attempt[c]] = "unknown"
      <4>1. Unresolved' = Unresolved
        BY <2>0, <2>2, <3>3, ObservedStep DEF IInv, Unresolved
      <4>2. budget'.in_flight = budget.in_flight
        BY <3>2, <4>1
      <4>3. /\ budget'.terminal = budget.terminal /\ budget'.cancelled = budget.cancelled
            /\ budget'.reserved = budget.reserved /\ now' = now
        BY <2>2, ObservedStep DEF IInv
      <4>4. UNCHANGED Ledger!vars
        BY <4>1, <4>2, <4>3 DEF Ledger!vars, Unresolved
      <4>5. QED
        BY <4>4
    <3>4. CASE budget'.dispatches[attempt[c]] # "unknown"
      <4>1. Unresolved' = Unresolved \ {attempt[c]}
        BY <2>0, <2>2, <3>4, ObservedStep DEF IInv, Unresolved
      <4>2. Ledger!Resolve
        BY <2>2, <3>1, <3>2, <4>1, ObservedStep DEF IInv, Ledger!Resolve, Unresolved
      <4>3. QED
        BY <4>2 DEF Ledger!Next
    <3>5. QED
      BY <3>3, <3>4
  <2>3. CASE AttemptsUntouched
    <3>1. /\ Unresolved' = Unresolved /\ budget'.reserved = budget.reserved
          /\ budget'.in_flight = budget.in_flight
      BY <2>3 DEF AttemptsUntouched, Unresolved
    <3>2. CASE Concluded
      <4>1. budget'.terminal \in TERMINAL_REASONS /\ budget.terminal = Open /\ now' = now
        BY <3>2 DEF Concluded
      <4>2. CASE budget'.cancelled = budget.cancelled
        <5>1. /\ budget'.terminal = "attempt_exhausted" => budget.reserved = MaxAttempts
              /\ budget'.terminal = "cancellation" => budget.cancelled
          BY <2>0, <3>2, <4>2 DEF Concluded
        <5>2. ASSUME budget'.terminal = "success"
              PROVE  budget.reserved > 0 /\ Unresolved # 1..budget.reserved
          <6>1. PICK c \in Callers : pc[c] = "answered"
            BY <3>2, <5>2 DEF Concluded
          <6>2. attempt[c] \in 1..budget.reserved /\ attempt[c] \notin Unresolved
            BY <2>0, <6>1 DEF IInv, OwnAttempt, Unresolved
          <6>3. QED
            BY <2>0, <6>2
        <5>3. Ledger!Conclude
          BY <3>1, <4>1, <4>2, <5>1, <5>2 DEF Ledger!Conclude, Unresolved
        <5>4. QED
          BY <5>3 DEF Ledger!Next
      <4>3. CASE budget'.cancelled # budget.cancelled
        <5>1. /\ budget'.cancelled = TRUE /\ budget'.terminal = "cancellation"
              /\ budget.in_flight = "none"
          BY <2>0, <3>2, <4>3 DEF Concluded
        <5>2. budget.reserved = 0
          BY <5>1 DEF IInv, InFlightHonest
        <5>3. Ledger!Withdraw
          BY <3>1, <4>1, <5>1, <5>2 DEF Ledger!Withdraw, Unresolved
        <5>4. QED
          BY <5>3 DEF Ledger!Next
      <4>4. QED
        BY <4>2, <4>3
    <3>3. CASE budget'.terminal = budget.terminal /\ now' = now
      <4>1. CASE budget'.cancelled = budget.cancelled
        BY <3>1, <3>3, <4>1 DEF Ledger!vars, Unresolved
      <4>2. CASE budget'.cancelled # budget.cancelled
        <5>1. budget'.cancelled = TRUE
          BY <2>0, <4>2, VerdictSteps DEF IInv
        <5>2. Ledger!Withdraw
          BY <3>1, <3>3, <5>1 DEF Ledger!Withdraw, Unresolved
        <5>3. QED
          BY <5>2 DEF Ledger!Next
      <4>3. QED
        BY <4>1, <4>2
    <3>4. CASE budget'.terminal = budget.terminal /\ now' # now
      <4>1. budget' = budget /\ now' >= now /\ now' \in Nat
        <5>1. CASE Tick
          BY <2>0, <5>1 DEF Tick
        <5>2. ~Tick => now' = now
          BY DEF Next, vars, CallerStep, NextRoute, GiveUp, CloseUnserved, Serve, Reject,
                 Dispatch, Refused, Answer, HttpError, Lost, Observe, Backoff, FallAsleep,
                 Wake, CancelRequest, CloseRequest
        <5>3. QED
          BY <3>4, <5>1, <5>2
      <4>2. CASE (now' >= Deadline) = (now >= Deadline)
        BY <4>1, <4>2, <3>1 DEF Ledger!vars, Unresolved
      <4>3. CASE (now' >= Deadline) # (now >= Deadline)
        <5>1. ~(now >= Deadline) /\ now' >= Deadline
          BY <2>0, <4>1, <4>3
        <5>2. Ledger!Expire
          BY <3>1, <4>1, <5>1 DEF Ledger!Expire, Unresolved
        <5>3. QED
          BY <5>2 DEF Ledger!Next
      <4>4. QED
        BY <4>2, <4>3
    <3>5. QED
      BY <3>2, <3>3, <3>4, VerdictSteps DEF IInv
  <2>4. QED
    BY <2>1, <2>2, <2>3, AttemptSteps DEF IInv
<1>3. QED
  BY <1>1, <1>2, Invariance, PTL DEF Spec, KeepsLedger, Ledger!Spec
=============================================================================
