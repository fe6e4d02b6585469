----------------------------- MODULE RouteChain -----------------------------
(***************************************************************************)
(* chat() of szl_router/core.py: several requests, each on its own thread, *)
(* walk their ordered routes, retry a provider that blips, and share one   *)
(* map of provider cooldowns.  A budgeted request applies its own          *)
(* RequestBudget (BudgetObject) to every dispatch; a controller may cancel *)
(* or close that budget at any time.                                       *)
(*                                                                         *)
(* A step touches shared state (the cooldowns, a budget) at most once, as  *)
(* each access takes and leaves a lock of its own; thread-local work is    *)
(* joined to the access before it.  Cooldowns lapse at any moment, which   *)
(* covers every SZL_COOLDOWN_SECONDS above 0 and every clock.              *)
(*                                                                         *)
(* An operator marked "Wrong:" is a plausible mistake in the definition    *)
(* after it, which no other definition uses.                               *)
(***************************************************************************)
EXTENDS BudgetObject, FiniteSets

CONSTANTS
  Requests,       \* chat() calls
  Budgeted,       \* those that pass a request_budget
  Providers,      \* keys of PROVIDERS
  Tier,           \* _tier_of
  Chains,         \* resolve_routes of the models a request may ask for: the
                  \* providers in order
  Configurations, \* sets of providers an operator may have armed
  RetryMax,       \* SZL_RETRY_MAX_ATTEMPTS
  MaxAttempts,    \* the budgets' attempt ceiling
  Deadline,       \* the budgets' deadline, and the bound of their clock
  Delays,         \* what _backoff_sleep_seconds may draw
  CloseReasons    \* reasons a controller may close a budget with

Tiers == {"sovereign", "unqualified-grid", "paid-grid"}

ASSUME RouteAssumption ==
  /\ Budgeted \subseteq Requests
  /\ Tier \in [Providers -> Tiers]
  /\ Chains \in [Requests -> SUBSET Seq(Providers)]
  /\ Configurations \subseteq SUBSET Providers
  /\ RetryMax \in Nat \ {0} /\ MaxAttempts \in Nat \ {0}
  /\ Deadline \in Nat /\ Delays \subseteq Nat
  /\ CloseReasons \subseteq {"tests_failed", "cost_unknown"}

VARIABLES
  chain,     \* routes of each request's model
  armed,     \* providers with a key, a url and their opt-in: Provider.available()
  cooling,   \* providers whose _COOLDOWN_UNTIL lies ahead
  now,       \* the budgets' monotonic clock
  budget,    \* the budget of each budgeted request
  pc,        \* where each request is
  route,     \* index in its chain
  later,     \* index reached by _warm_candidate_later
  tries,     \* dispatches of the current _post_with_retry call
  resent,    \* the pool has used its hidden resend in the current dispatch
  trail,     \* attempts: rows [route, kind]
  sent       \* POSTs put on the wire for the request (history)

vars == <<chain, armed, cooling, now, budget, pc, route, later, tries, resent, trail, sent>>
local == <<later, tries, resent, sent>>
world == <<chain, armed, now>>

Stations ==
  {"head",      \* top of the route loop
   "cooled",    \* _cooldown_remaining > 0, looking for a warm candidate
   "post",      \* about to dispatch
   "wire",      \* waiting for the provider
   "again",     \* a retryable failure
   "failed",    \* _post_with_retry raised the provider's error
   "answered",  \* _post_with_retry returned
   "usable",    \* the answer is a completion, about to clear the cooldown
   "served", "raised"}

Dispatched == {"failed", "ok"}
RowKinds == {"unavailable", "pricing", "cooldown-skip"} \cup Dispatched

Init ==
  /\ chain \in [Requests -> UNION {Chains[r] : r \in Requests}]
  /\ \A r \in Requests : chain[r] \in Chains[r]
  /\ armed \in Configurations
  /\ cooling = {}
  /\ now = 0
  /\ budget = [r \in Budgeted |-> NewBudget(MaxAttempts, Deadline)]
  /\ pc = [r \in Requests |-> "head"]
  /\ route = [r \in Requests |-> 1]
  /\ later = [r \in Requests |-> 0]
  /\ tries = [r \in Requests |-> 0]
  /\ resent = [r \in Requests |-> FALSE]
  /\ trail = [r \in Requests |-> << >>]
  /\ sent = [r \in Requests |-> 0]

Provider(r, i) == chain[r][i]
Here(r) == Provider(r, route[r])

\* Dispatchable at all: armed, and neither unqualified nor paid.
Eligible(p) == p \in armed /\ Tier[p] = "sovereign"

\* Wrong: forgets that unqualified and paid providers cannot take over.
WarmAnyTier(p) == p \in armed /\ p \notin cooling

\* The test of _warm_candidate_later.
Warm(p) == Eligible(p) /\ p \notin cooling

Stopped(r) == r \in Budgeted /\ budget[r].terminal # Open

Go(r, from, to) == pc[r] = from /\ pc' = [pc EXCEPT ![r] = to]
Row(r, kind) == Append(trail[r], [route |-> route[r], kind |-> kind])
Record(r, kind) == trail' = [trail EXCEPT ![r] = Row(r, kind)]
NextRoute(r) ==
  /\ route' = [route EXCEPT ![r] = @ + 1]
  /\ later' = [later EXCEPT ![r] = 0]
  /\ tries' = [tries EXCEPT ![r] = 0]
  /\ resent' = [resent EXCEPT ![r] = FALSE]
  /\ UNCHANGED sent

-----------------------------------------------------------------------------
(***************************************************************************)
(* The head of the route loop.                                             *)
(***************************************************************************)

AtRoute(r) == pc[r] = "head" /\ route[r] <= Len(chain[r]) /\ ~Stopped(r)

\* Unavailable, unqualified and paid routes are recorded and passed over.
PassOver(r) ==
  /\ AtRoute(r) /\ ~Eligible(Here(r))
  /\ Record(r, IF Here(r) \in armed THEN "pricing" ELSE "unavailable")
  /\ NextRoute(r)
  /\ UNCHANGED <<world, cooling, budget, pc>>

TakeWarm(r) ==
  /\ AtRoute(r) /\ Eligible(Here(r)) /\ Here(r) \notin cooling
  /\ Go(r, "head", "post")
  /\ UNCHANGED <<world, local, cooling, budget, route, trail>>

FindCooled(r) ==
  /\ AtRoute(r) /\ Eligible(Here(r)) /\ Here(r) \in cooling
  /\ Go(r, "head", "cooled")
  /\ later' = [later EXCEPT ![r] = route[r] + 1]
  /\ UNCHANGED <<world, cooling, budget, route, tries, resent, trail, sent>>

\* _warm_candidate_later reads one cooldown after the other.
LookFurther(r) ==
  /\ pc[r] = "cooled" /\ later[r] <= Len(chain[r])
  /\ ~Warm(Provider(r, later[r]))
  /\ later' = [later EXCEPT ![r] = @ + 1]
  /\ UNCHANGED <<world, cooling, budget, pc, route, tries, resent, trail, sent>>

\* Wrong: the skip leaves no row.
SkipUnrecorded(r) ==
  /\ Go(r, "cooled", "head") /\ later[r] <= Len(chain[r])
  /\ Warm(Provider(r, later[r]))
  /\ NextRoute(r)
  /\ UNCHANGED <<world, cooling, budget, trail>>

SkipCooled(r) ==
  /\ Go(r, "cooled", "head") /\ later[r] <= Len(chain[r])
  /\ Warm(Provider(r, later[r]))
  /\ Record(r, "cooldown-skip")
  /\ NextRoute(r)
  /\ UNCHANGED <<world, cooling, budget>>

\* Wrong: waits for the cooldown to lapse.
AwaitCooled(r) ==
  /\ Go(r, "cooled", "head") /\ later[r] > Len(chain[r])
  /\ UNCHANGED <<world, local, cooling, budget, route, trail>>

\* No warm candidate remains: the cooled provider is the last resort.
TakeCooled(r) ==
  /\ Go(r, "cooled", "post") /\ later[r] > Len(chain[r])
  /\ UNCHANGED <<world, local, cooling, budget, route, trail>>

-----------------------------------------------------------------------------
(***************************************************************************)
(* _post_with_retry, without and with a budget.                            *)
(***************************************************************************)

Put(r) ==
  /\ sent' = [sent EXCEPT ![r] = @ + 1]
  /\ tries' = [tries EXCEPT ![r] = @ + 1]
  /\ resent' = [resent EXCEPT ![r] = FALSE]
  /\ UNCHANGED <<route, later, trail>>

Post(r) ==
  /\ r \notin Budgeted
  /\ Go(r, "post", "wire")
  /\ Put(r)
  /\ UNCHANGED <<world, cooling, budget>>

PostBudgeted(r) ==
  /\ r \in Budgeted /\ ReserveStop(budget[r], now) = Open
  /\ Go(r, "post", "wire")
  /\ Put(r)
  /\ budget' = [budget EXCEPT ![r] = Reserve(@, now)]
  /\ UNCHANGED <<world, cooling>>

\* BudgetStop leaves the loop (its head sees the terminal reason), unless the
\* provider's last error is raised in its place.
ReserveRefused(r) ==
  /\ r \in Budgeted /\ ReserveStop(budget[r], now) # Open
  /\ Go(r, "post", IF tries[r] > 0 THEN "failed" ELSE "head")
  /\ budget' = [budget EXCEPT ![r] = Reserve(@, now)]
  /\ UNCHANGED <<world, local, cooling, route, trail>>

\* Wrong: the resend ignores an active budget.
ResendUncounted(r) ==
  /\ pc[r] = "wire" /\ ~resent[r]
  /\ sent' = [sent EXCEPT ![r] = @ + 1]
  /\ resent' = [resent EXCEPT ![r] = TRUE]
  /\ UNCHANGED <<world, cooling, budget, pc, route, later, tries, trail>>

\* request_json resends once when the first send fails, unless a budget is active.
HiddenResend(r) ==
  /\ r \notin Budgeted /\ pc[r] = "wire" /\ ~resent[r]
  /\ sent' = [sent EXCEPT ![r] = @ + 1]
  /\ resent' = [resent EXCEPT ![r] = TRUE]
  /\ UNCHANGED <<world, cooling, budget, pc, route, later, tries, trail>>

\* The dispatch is over.  With a budget its outcome is noted and gets a row now;
\* without one the route loop records one row for the whole call.
Observe(r, to, outcome, kind) ==
  /\ Go(r, "wire", to)
  /\ IF r \in Budgeted
     THEN /\ budget' = [budget EXCEPT ![r] = NoteOutcome(@, @.reserved, outcome)]
          /\ Record(r, kind)
     ELSE UNCHANGED <<budget, trail>>
  /\ UNCHANGED <<world, local, cooling, route>>

\* Wrong: one dispatch more than RetryMax.
RetryingOneMore(r) ==
  IF r \in Budgeted THEN "again" ELSE IF tries[r] <= RetryMax THEN "post" ELSE "failed"

\* After a retryable error.  A back-off sleep ends at "post", where time may pass.
Retrying(r) ==
  IF r \in Budgeted THEN "again" ELSE IF tries[r] < RetryMax THEN "post" ELSE "failed"

Answer(r)    == Observe(r, "answered", "known", "ok")
Blip(r)      == Observe(r, Retrying(r), "known", "failed")  \* 429, 500, 502, 503, 504
Permanent(r) == Observe(r, "failed", "known", "failed")     \* any other HTTP status
Garbled(r)   == Observe(r, "failed", "unknown", "failed")   \* the body is not JSON
Lost(r)      == Observe(r, Retrying(r), "unknown", "failed") \* the connection failed

Retry(r) ==
  /\ \E delay \in Delays :
       /\ Go(r, "again", IF BackoffStop(budget[r], now, delay) = Open
                         THEN "post" ELSE "failed")
       /\ budget' = [budget EXCEPT ![r] = AllowBackoff(@, now, delay)]
  /\ UNCHANGED <<world, local, cooling, route, trail>>

-----------------------------------------------------------------------------
(***************************************************************************)
(* What becomes of the route, and of the request.                          *)
(***************************************************************************)

\* Record the failure, cool the provider, and go on.
FailRoute(r) ==
  /\ Go(r, "failed", "head")
  /\ IF r \in Budgeted THEN UNCHANGED trail ELSE Record(r, "failed")
  /\ cooling' = cooling \cup {Here(r)}
  /\ NextRoute(r)
  /\ UNCHANGED <<world, budget>>

\* Wrong: the row of a budgeted dispatch keeps its ok.
RejectUncorrected(r) ==
  /\ Go(r, "answered", "head")
  /\ IF r \in Budgeted THEN UNCHANGED trail ELSE Record(r, "failed")
  /\ cooling' = cooling \cup {Here(r)}
  /\ NextRoute(r)
  /\ UNCHANGED <<world, budget>>

\* _chat_response_error: with a budget the row already there is corrected.
RejectAnswer(r) ==
  /\ Go(r, "answered", "head")
  /\ IF r \in Budgeted
     THEN trail' = [trail EXCEPT ![r][Len(trail[r])].kind = "failed"]
     ELSE Record(r, "failed")
  /\ cooling' = cooling \cup {Here(r)}
  /\ NextRoute(r)
  /\ UNCHANGED <<world, budget>>

\* Wrong: serves without telling the budget.
AcceptUnmarked(r) ==
  /\ Go(r, "answered", "usable")
  /\ IF r \in Budgeted THEN UNCHANGED trail ELSE Record(r, "ok")
  /\ UNCHANGED <<world, local, cooling, budget, route>>

AcceptAnswer(r) ==
  /\ Go(r, "answered", "usable")
  /\ IF r \in Budgeted
     THEN budget' = [budget EXCEPT ![r] = MarkSuccess(@)] /\ UNCHANGED trail
     ELSE Record(r, "ok") /\ UNCHANGED budget
  /\ UNCHANGED <<world, local, cooling, route>>

Serve(r) ==
  /\ Go(r, "usable", "served")
  /\ cooling' = cooling \ {Here(r)}
  /\ UNCHANGED <<world, local, budget, route, trail>>

\* _closed_reason
ClosedReason(rows, dispatched) ==
  IF dispatched = 0 /\ rows # << >> /\ \A k \in DOMAIN rows : rows[k].kind = "pricing"
  THEN "policy_blocked" ELSE "provider_unavailable"

\* The routes are exhausted, or the budget has a terminal reason: close the
\* budget if it has none and raise RouterError with the attempts.
Raise(r) ==
  /\ Go(r, "head", "raised")
  /\ route[r] > Len(chain[r]) \/ Stopped(r)
  /\ IF r \in Budgeted
     THEN budget' = [budget EXCEPT ![r] = Close(@, ClosedReason(trail[r], @.reserved))]
     ELSE UNCHANGED budget
  /\ UNCHANGED <<world, local, cooling, route, trail>>

-----------------------------------------------------------------------------
(***************************************************************************)
(* The environment.                                                        *)
(***************************************************************************)

Over(r) == pc[r] \in {"served", "raised"}

CooldownLapse ==
  /\ \E p \in cooling : cooling' = cooling \ {p}
  /\ UNCHANGED <<world, local, budget, pc, route, trail>>

Tick ==
  /\ now < Deadline
  /\ now' = now + 1
  /\ UNCHANGED <<chain, armed, local, cooling, budget, pc, route, trail>>

\* Bound: the controller of a request that is over has no effect on anyone.
Controller(r) ==
  /\ ~Over(r)
  /\ \/ budget' = [budget EXCEPT ![r] = Cancel(@)]
     \/ \E reason \in CloseReasons :
          budget' = [budget EXCEPT ![r] = Close(@, reason)]
  /\ UNCHANGED <<world, local, cooling, pc, route, trail>>

RequestStep(r) ==
  \/ PassOver(r) \/ TakeWarm(r) \/ FindCooled(r)
  \/ LookFurther(r) \/ SkipCooled(r) \/ TakeCooled(r)
  \/ Post(r) \/ PostBudgeted(r) \/ ReserveRefused(r) \/ HiddenResend(r)
  \/ Answer(r) \/ Blip(r) \/ Permanent(r) \/ Garbled(r) \/ Lost(r)
  \/ Retry(r)
  \/ FailRoute(r) \/ RejectAnswer(r) \/ AcceptAnswer(r) \/ Serve(r) \/ Raise(r)

Next ==
  \/ \E r \in Requests : RequestStep(r)
  \/ \E r \in Budgeted : Controller(r)
  \/ CooldownLapse \/ Tick

Spec == Init /\ [][Next]_vars

\* Request threads run and every exchange ends; nothing is asked of the clock,
\* the cooldowns or the controller.
FairSpec == Spec /\ \A r \in Requests : WF_vars(RequestStep(r))

-----------------------------------------------------------------------------
Rows(r, kinds) == {k \in DOMAIN trail[r] : trail[r][k].kind \in kinds}

\* The trail of a budgeted request is the list of what it sent: one row per
\* dispatch, except for the dispatch still in progress, and as many
\* as the budget reserved.  Neither retries, refusals, corrected rows nor a
\* cancellation in between make the two drift apart.
TrailMatchesSends ==
  \A r \in Budgeted :
    /\ sent[r] = budget[r].reserved
    /\ Cardinality(Rows(r, Dispatched)) = sent[r] - (IF pc[r] = "wire" THEN 1 ELSE 0)

\* The attempt trail is complete: its rows follow the chain, no route that was
\* left behind is missing, and a request that raised without its budget telling
\* it to stop accounts for every route.
TrailComplete ==
  \A r \in Requests :
    /\ \A k \in 1..Len(trail[r]) - 1 :
         trail[r][k + 1].route \in {trail[r][k].route, trail[r][k].route + 1}
    /\ \A i \in 1..route[r] - 1 : \E k \in DOMAIN trail[r] : trail[r][k].route = i
    /\ pc[r] = "raised" /\ r \notin Budgeted => route[r] = Len(chain[r]) + 1

\* A served answer is the last row, the only one marked ok, from an armed
\* sovereign provider; no other tier is ever sent anything.
ServedHonestly ==
  \A r \in Requests :
    /\ \A k \in Rows(r, Dispatched) :
         LET p == Provider(r, trail[r][k].route) IN p \in armed /\ Tier[p] = "sovereign"
    /\ pc[r] = "served" =>
         /\ Rows(r, {"ok"}) = {Len(trail[r])}
         /\ trail[r][Len(trail[r])].route = route[r]
    /\ pc[r] = "raised" => Rows(r, {"ok"}) = {}

EligibleRoutes(r) == {i \in DOMAIN chain[r] : Eligible(Provider(r, i))}

\* Trying loudly beats refusing silently: a request that has any eligible route
\* does not raise before it dispatched to one, whatever the cooldowns other
\* requests set and lift while it decides, unless its budget stopped it.
NeverRefusesSilently ==
  \A r \in Requests :
    (/\ pc[r] = "raised" /\ EligibleRoutes(r) # {}
     /\ r \in Budgeted => budget[r].terminal = "provider_unavailable")
    => sent[r] > 0

\* How a budgeted request ends agrees with its budget: an error never carries
\* the reason success, an answer carries success unless the controller closed
\* the request while it was in flight, and policy_blocked means that every
\* route was priced out and nothing was sent.
EndAgreesWithBudget ==
  \A r \in Budgeted :
    /\ pc[r] = "raised" => budget[r].terminal \notin {Open, "success"}
    /\ pc[r] = "served" => budget[r].terminal \in {"success"} \cup CloseReasons
    /\ budget[r].terminal = "policy_blocked" =>
         sent[r] = 0 /\ Len(trail[r]) = Len(chain[r]) /\ Rows(r, {"pricing"}) = DOMAIN trail[r]

\* The retries of a request are bounded: RetryMax dispatches per eligible route,
\* each at most doubled by the pool's resend; with a budget its ceiling.
SendsBounded ==
  \A r \in Requests :
    sent[r] <= IF r \in Budgeted THEN MaxAttempts
               ELSE 2 * RetryMax * Cardinality(EligibleRoutes(r))

\* Every request ends, with an answer or an error.
EveryRequestEnds == <>(\A r \in Requests : Over(r))

\* "Last-resort routes are always tried": a request without a budget does not
\* raise while an eligible provider of its chain was only skipped.
LastResortTried ==
  \A r \in Requests \ Budgeted : pc[r] = "raised" =>
    \A i \in EligibleRoutes(r) :
      \E k \in Rows(r, Dispatched) : trail[r][k].route = i

\* What the budget of r tells of r.
Ledger(r) == INSTANCE AttemptLedger WITH
  Limit      <- MaxAttempts,
  NoVerdict  <- Open,
  Verdicts   <- TERMINAL_REASONS,
  granted    <- budget[r].reserved,
  unresolved <- {i \in 1..budget[r].reserved : budget[r].dispatches[i] = "unknown"},
  withdrawn  <- budget[r].cancelled,
  late       <- now >= Deadline,
  verdict    <- budget[r].terminal,
  report     <- budget[r].in_flight

\* Each budgeted request keeps the promise of the attempt ledger, whatever its
\* route loop, the other requests and its controller do: nothing is dispatched
\* once it is stopped, and its one verdict is true of what it dispatched.
KeepsLedgers ==
  /\ \A r \in Budgeted : Ledger(r)!Init
  /\ [][\A r \in Budgeted : [Ledger(r)!Next]_(Ledger(r)!vars)]_<<budget, now>>
=============================================================================
