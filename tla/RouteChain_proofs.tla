-------------------------- MODULE RouteChain_proofs --------------------------
(***************************************************************************)
(* Proofs about RouteChain, for any number of requests, any routes, tiers  *)
(* and configurations, and any budgets and retry limits: the safety        *)
(* invariants, and that each budgeted request implements AttemptLedger.    *)
(***************************************************************************)
EXTENDS RouteChain, FiniteSetTheorems, TLAPS

TrailRows == [route : Nat, kind : RowKinds]

\* What one request keeps for itself.
Views ==
  [pc : Stations, route : Nat, later : Nat, tries : Nat, resent : BOOLEAN,
   trail : Seq(TrailRows), sent : Nat]

View(r) ==
  [pc |-> pc[r], route |-> route[r], later |-> later[r], tries |-> tries[r],
   resent |-> resent[r], trail |-> trail[r], sent |-> sent[r]]

Budgets == BudgetStates({MaxAttempts}, {Deadline})

Typed ==
  /\ pc \in [Requests -> Stations] /\ route \in [Requests -> Nat]
  /\ later \in [Requests -> Nat] /\ tries \in [Requests -> Nat]
  /\ resent \in [Requests -> BOOLEAN] /\ trail \in [Requests -> Seq(TrailRows)]
  /\ sent \in [Requests -> Nat]
  /\ chain \in [Requests -> Seq(Providers)]
  /\ now \in Nat
  /\ budget \in [Budgeted -> Budgets]

Ends(rows, i) == rows # << >> /\ rows[Len(rows)].route = i

Follows(rows) ==
  \A k \in 1..Len(rows) - 1 : rows[k + 1].route \in {rows[k].route, rows[k].route + 1}

Covers(rows, n) == \A i \in 1..n : \E k \in DOMAIN rows : rows[k].route = i

\* Where the request is in its chain.
Placed(r, v) ==
  /\ v.route \in 1..Len(chain[r]) + 1
  /\ v.pc \notin {"head", "raised"} =>
       v.route <= Len(chain[r]) /\ Eligible(Provider(r, v.route))
  /\ v.pc = "cooled" => v.later > v.route
  /\ v.pc = "raised" /\ r \notin Budgeted => v.route = Len(chain[r]) + 1
  /\ v.pc \in {"head", "cooled"} => v.tries = 0

\* The rows follow the chain up to it.
Trailed(r, v) ==
  /\ Follows(v.trail) /\ Covers(v.trail, v.route - 1)
  /\ v.trail # << >> => v.trail[Len(v.trail)].route \in {v.route - 1, v.route}
  /\ (r \in Budgeted /\ v.pc # "wire" /\ (v.tries > 0 \/ v.pc \in {"again", "failed", "answered"}))
       => Ends(v.trail, v.route)

Accepting(r, v) == v.pc \in {"usable", "served"} \/ (r \in Budgeted /\ v.pc = "answered")

\* What the rows say was sent and answered.
Kinded(r, v) ==
  /\ \A k \in DOMAIN v.trail : v.trail[k].kind \in Dispatched =>
       v.trail[k].route \in DOMAIN chain[r] /\ Eligible(Provider(r, v.trail[k].route))
  /\ \A k \in DOMAIN v.trail : v.trail[k].kind = "ok" => k = Len(v.trail) /\ Accepting(r, v)
  /\ Accepting(r, v) => Ends(v.trail, v.route) /\ v.trail[Len(v.trail)].kind = "ok"

\* Until something is sent, a candidate was only ever passed over for a later
\* one.
Unsent(r, v) ==
  /\ v.tries > 0 \/ v.pc \in {"wire", "again", "failed", "answered", "usable", "served"}
       => v.sent > 0
  /\ v.sent = 0 =>
       /\ (\E i \in EligibleRoutes(r) : i < v.route) => \E j \in EligibleRoutes(r) : j >= v.route
       /\ Len(v.trail) = v.route - 1

Good(r, v) == Placed(r, v) /\ Trailed(r, v) /\ Kinded(r, v) /\ Unsent(r, v)

DispatchRows(rows) == {k \in DOMAIN rows : rows[k].kind \in Dispatched}

\* The budget of the request agrees with it.
Counted(v, b) ==
  /\ v.sent = b.reserved /\ b.reserved <= MaxAttempts
  /\ IsFiniteSet(DispatchRows(v.trail))
  /\ Cardinality(DispatchRows(v.trail)) = v.sent - (IF v.pc = "wire" THEN 1 ELSE 0)

Concluded(r, v, b) ==
  /\ b.terminal = "provider_unavailable" =>
       v.pc = "raised" /\ (EligibleRoutes(r) = {} \/ v.sent > 0)
  /\ b.terminal = "success" => v.pc \in {"usable", "served"}
  /\ b.terminal = "policy_blocked" =>
       /\ v.pc = "raised" /\ v.sent = 0 /\ Len(v.trail) = Len(chain[r])
       /\ \A k \in DOMAIN v.trail : v.trail[k].kind = "pricing"
  /\ v.pc = "raised" => b.terminal # Open
  /\ v.pc \in {"wire", "answered"} =>
       b.terminal \in {Open} \cup CloseReasons /\ b.in_flight # "none"
  /\ v.pc \in {"usable", "served"} => b.terminal \in {"success"} \cup CloseReasons

Kept(r, v, b) == Counted(v, b) /\ Concluded(r, v, b)

IInv ==
  /\ Typed
  /\ \A r \in Requests :
       Good(r, View(r)) /\ (r \in Budgeted => Kept(r, View(r), budget[r]))

-----------------------------------------------------------------------------
\* r's own variables become what v says, and nobody else's change.
Becomes(r, v) ==
  /\ pc' = [pc EXCEPT ![r] = v.pc] /\ route' = [route EXCEPT ![r] = v.route]
  /\ later' = [later EXCEPT ![r] = v.later] /\ tries' = [tries EXCEPT ![r] = v.tries]
  /\ resent' = [resent EXCEPT ![r] = v.resent] /\ trail' = [trail EXCEPT ![r] = v.trail]
  /\ sent' = [sent EXCEPT ![r] = v.sent]

\* A view is the record of its fields.
LEMMA ViewOf ==
  ASSUME Typed, NEW r \in Requests
  PROVE  /\ View(r) \in Views
         /\ View(r).pc = pc[r] /\ View(r).route = route[r] /\ View(r).later = later[r]
         /\ View(r).tries = tries[r] /\ View(r).resent = resent[r]
         /\ View(r).trail = trail[r] /\ View(r).sent = sent[r]
  BY DEF Typed, View, Views

\* What r keeps to itself it may also leave as it is.
LEMMA Unmoved ==
  ASSUME Typed, NEW r \in Requests
  PROVE  /\ pc = [pc EXCEPT ![r] = pc[r]] /\ route = [route EXCEPT ![r] = route[r]]
         /\ later = [later EXCEPT ![r] = later[r]] /\ tries = [tries EXCEPT ![r] = tries[r]]
         /\ resent = [resent EXCEPT ![r] = resent[r]] /\ trail = [trail EXCEPT ![r] = trail[r]]
         /\ sent = [sent EXCEPT ![r] = sent[r]]
  BY DEF Typed

\* Good and Kept speak of the chain and of what is armed, which never change.
LEMMA Framed ==
  ASSUME IInv, NEW r \in Requests, NEW v \in Views, Becomes(r, v), Good(r, v),
         chain' = chain, armed' = armed, now' \in Nat, budget' \in [Budgeted -> Budgets],
         \A d \in Budgeted \ {r} : budget'[d] = budget[d],
         r \in Budgeted => Kept(r, v, budget'[r])
  PROVE  IInv'
<1>1. Typed
  BY DEF IInv
<1>2. Typed'
  BY <1>1 DEF Typed, Becomes, Views
<1>3. View(r)' = v
  <2>1. /\ pc'[r] = v.pc /\ route'[r] = v.route /\ later'[r] = v.later /\ tries'[r] = v.tries
        /\ resent'[r] = v.resent /\ trail'[r] = v.trail /\ sent'[r] = v.sent
    BY <1>1 DEF Typed, Becomes
  <2> QED
    BY <2>1 DEF View, Views
<1>4. \A d \in Requests \ {r} : View(d)' = View(d)
  BY <1>1 DEF Typed, Becomes, View
<1>5. /\ \A d, i : Provider(d, i)' = Provider(d, i)
      /\ \A p : Eligible(p)' <=> Eligible(p)
  BY DEF Provider, Eligible
<1>6. \A d : EligibleRoutes(d)' = EligibleRoutes(d)
  BY <1>5 DEF EligibleRoutes
<1>7. ASSUME NEW d \in Requests, NEW w, Good(d, w)
      PROVE  Good(d, w)'
  <2>1. Placed(d, w)'
    BY <1>5, <1>7 DEF Good, Placed
  <2>2. Trailed(d, w)'
    BY <1>7 DEF Good, Trailed, Ends, Follows, Covers
  <2>3. Kinded(d, w)'
    BY <1>5, <1>7 DEF Good, Kinded, Accepting, Ends
  <2>4. Unsent(d, w)'
    BY <1>6, <1>7 DEF Good, Unsent
  <2> QED
    BY <2>1, <2>2, <2>3, <2>4 DEF Good
<1>8. ASSUME NEW d \in Requests, NEW w, NEW b, Kept(d, w, b)
      PROVE  Kept(d, w, b)'
  BY <1>6, <1>8 DEF Kept, Counted, Concluded, DispatchRows
<1>9. ASSUME NEW d \in Requests
      PROVE  Good(d, View(d))' /\ (d \in Budgeted => Kept(d, View(d), budget[d])')
  <2>1. PICK w : /\ w = View(d)' /\ Good(d, w)
                 /\ (d \in Budgeted => Kept(d, w, budget'[d]))
    <3>1. CASE d = r
      BY <1>3, <3>1
    <3>2. CASE d # r
      BY <1>4, <3>2 DEF IInv
    <3> QED
      BY <3>1, <3>2
  <2>2. Good(d, w)' /\ (d \in Budgeted => \A b : b = budget'[d] => Kept(d, w, b)')
    BY <1>7, <1>8, <2>1
  <2> QED
    BY <2>1, <2>2
<1> QED
  BY <1>2, <1>9 DEF IInv

-----------------------------------------------------------------------------
(* Sequences. *)

\* Appending one element.
LEMMA AppendOne ==
  ASSUME NEW S, NEW s \in Seq(S), NEW e \in S
  PROVE  /\ Append(s, e) \in Seq(S) /\ Len(Append(s, e)) = Len(s) + 1 /\ Len(s) \in Nat
         /\ Append(s, e)[Len(s) + 1] = e /\ \A i \in 1..Len(s) : Append(s, e)[i] = s[i]
         /\ DOMAIN Append(s, e) = 1..Len(s) + 1 /\ DOMAIN s = 1..Len(s)
<1>1. Append(s, e) \in Seq(S) /\ Len(Append(s, e)) = Len(s) + 1 /\ Len(s) \in Nat
  OBVIOUS
<1>2. Append(s, e)[Len(s) + 1] = e /\ \A i \in 1..Len(s) : Append(s, e)[i] = s[i]
  OBVIOUS
<1> QED
  BY <1>1, <1>2

\* Replacing one, in range or not.
LEMMA Replaced ==
  ASSUME NEW S, NEW s \in Seq(S), NEW i, NEW e \in S
  PROVE  [s EXCEPT ![i] = e] \in Seq(S) /\ Len([s EXCEPT ![i] = e]) = Len(s)
<1>1. CASE i \in 1..Len(s)
  BY <1>1
<1>2. CASE i \notin 1..Len(s)
  <2>1. [s EXCEPT ![i] = e] = s
    BY <1>2
  <2> QED
    BY <2>1
<1> QED
  BY <1>1, <1>2

-----------------------------------------------------------------------------
(* What the methods do to a budget. *)

Refusals == {"cancellation", "deadline_exhausted", "attempt_exhausted"}

LEMMA Settling ==
  ASSUME NEW b \in Budgets, NEW reason \in TERMINAL_REASONS
  PROVE  /\ Settle(b, reason) \in Budgets /\ Settle(b, reason).reserved = b.reserved
         /\ Settle(b, reason).in_flight = b.in_flight
         /\ Settle(b, reason).terminal = IF b.terminal = Open THEN reason ELSE b.terminal
  BY DEF Settle, Budgets, BudgetStates

\* A grant counts one dispatch, under the ceiling, of a request not concluded.
LEMMA Granted ==
  ASSUME NEW b \in Budgets, NEW t \in Nat, ReserveStop(b, t) = Open
  PROVE  /\ Reserve(b, t) \in Budgets /\ Reserve(b, t).reserved = b.reserved + 1
         /\ Reserve(b, t).in_flight = "unknown" /\ Reserve(b, t).terminal = Open
         /\ b.terminal = Open /\ b.reserved + 1 <= MaxAttempts
<1>1. b.terminal = Open /\ ~(b.reserved >= b.max_attempts)
  BY DEF ReserveStop, Open
<1>2. b.reserved \in Nat /\ b.max_attempts = MaxAttempts /\ MaxAttempts \in Nat
      /\ b.dispatches \in Seq(Outcomes)
  BY RouteAssumption DEF Budgets, BudgetStates
<1>3. PICK rows \in Seq(Outcomes) : rows = Append(b.dispatches, "unknown")
  <2>1. "unknown" \in Outcomes
    BY DEF Outcomes
  <2> QED
    BY <1>2, <2>1, AppendOne
<1>4. PICK n \in Nat : n = b.reserved + 1
  BY <1>2
<1>5. Reserve(b, t) = [b EXCEPT !.reserved = n, !.in_flight = "unknown", !.dispatches = rows]
  BY <1>3, <1>4 DEF Reserve
<1>6. [b EXCEPT !.reserved = n, !.in_flight = "unknown", !.dispatches = rows] \in Budgets
  BY DEF Budgets, BudgetStates, Outcomes
<1>7. /\ Reserve(b, t).reserved = n /\ Reserve(b, t).in_flight = "unknown"
      /\ Reserve(b, t).terminal = b.terminal
  BY <1>5 DEF Budgets, BudgetStates
<1> QED
  BY <1>1, <1>2, <1>4, <1>5, <1>6, <1>7

\* A refusal, of reserve() or allow_backoff(), at most settles its reason.
LEMMA Declined ==
  ASSUME NEW b \in Budgets, NEW t \in Nat, NEW delay \in Nat,
         NEW next, \/ ReserveStop(b, t) # Open /\ next = Reserve(b, t)
                   \/ next = AllowBackoff(b, t, delay)
  PROVE  /\ next \in Budgets /\ next.reserved = b.reserved /\ next.in_flight = b.in_flight
         /\ next.terminal \in {b.terminal} \cup Refusals
         /\ b.terminal # Open => next.terminal = b.terminal
<1>1. \A reason \in Refusals : reason \in TERMINAL_REASONS
  BY DEF Refusals, TERMINAL_REASONS
<1>2. b.terminal \in TERMINAL_REASONS \cup {Open}
  BY DEF Budgets, BudgetStates
<1>3. CASE next = b
  BY <1>3
<1>4. ASSUME NEW reason \in {b.terminal} \cup Refusals, next = Settle(b, reason), reason # Open
      PROVE  /\ next \in Budgets /\ next.reserved = b.reserved /\ next.in_flight = b.in_flight
             /\ next.terminal \in {b.terminal} \cup Refusals
             /\ b.terminal # Open => next.terminal = b.terminal
  BY <1>1, <1>2, <1>4, Settling
<1>5. ReserveStop(b, t) # Open => ReserveStop(b, t) \in {b.terminal} \cup Refusals
  BY DEF ReserveStop, Refusals
<1>6. BackoffStop(b, t, delay) # Open => BackoffStop(b, t, delay) \in {b.terminal} \cup Refusals
  BY DEF BackoffStop, Refusals
<1> QED
  BY <1>3, <1>4, <1>5, <1>6 DEF Reserve, AllowBackoff

\* Noting an outcome settles nothing.
LEMMA Noted ==
  ASSUME NEW b \in Budgets, NEW attempt, NEW outcome \in Outcomes
  PROVE  /\ NoteOutcome(b, attempt, outcome) \in Budgets
         /\ NoteOutcome(b, attempt, outcome).reserved = b.reserved
         /\ NoteOutcome(b, attempt, outcome).terminal = b.terminal
         /\ NoteOutcome(b, attempt, outcome).in_flight # "none"
<1> DEFINE rows == [b.dispatches EXCEPT ![attempt] = outcome]
           flight == IF \E i \in DOMAIN rows : rows[i] = "unknown" THEN "unknown" ELSE "known"
<1>1. b.dispatches \in Seq(Outcomes)
  BY DEF Budgets, BudgetStates
<1>2. rows \in Seq(Outcomes)
  BY <1>1, Replaced
<1>3. flight \in Outcomes /\ flight # "none"
  BY DEF Outcomes
<1>4. NoteOutcome(b, attempt, outcome) = [b EXCEPT !.dispatches = rows, !.in_flight = flight]
  BY DEF NoteOutcome
<1> HIDE DEF rows, flight
<1>5. /\ [b EXCEPT !.dispatches = rows, !.in_flight = flight] \in Budgets
      /\ [b EXCEPT !.dispatches = rows, !.in_flight = flight].reserved = b.reserved
      /\ [b EXCEPT !.dispatches = rows, !.in_flight = flight].terminal = b.terminal
      /\ [b EXCEPT !.dispatches = rows, !.in_flight = flight].in_flight = flight
  BY <1>2, <1>3 DEF Budgets, BudgetStates
<1> QED
  BY <1>3, <1>4, <1>5

\* A cancellation settles only what has dispatched nothing.
LEMMA Cancelling ==
  ASSUME NEW b \in Budgets
  PROVE  /\ Cancel(b) \in Budgets /\ Cancel(b).reserved = b.reserved
         /\ Cancel(b).in_flight = b.in_flight
         /\ Cancel(b).terminal = IF b.terminal = Open /\ b.in_flight = "none"
                                 THEN "cancellation" ELSE b.terminal
<1>1. PICK asked \in Budgets :
        /\ asked = [b EXCEPT !.cancelled = TRUE] /\ asked.reserved = b.reserved
        /\ asked.in_flight = b.in_flight /\ asked.terminal = b.terminal
  <2>1. [b EXCEPT !.cancelled = TRUE] \in Budgets
    BY DEF Budgets, BudgetStates
  <2> QED
    BY <2>1 DEF Budgets, BudgetStates
<1>2. Cancel(b) = IF b.in_flight = "none" THEN Settle(asked, "cancellation") ELSE asked
  BY <1>1 DEF Cancel
<1>3. "cancellation" \in TERMINAL_REASONS
  BY DEF TERMINAL_REASONS
<1>4. CASE b.in_flight = "none"
  <2>1. Cancel(b) = Settle(asked, "cancellation")
    BY <1>2, <1>4
  <2>2. /\ Settle(asked, "cancellation") \in Budgets
        /\ Settle(asked, "cancellation").reserved = asked.reserved
        /\ Settle(asked, "cancellation").in_flight = asked.in_flight
        /\ Settle(asked, "cancellation").terminal =
             IF asked.terminal = Open THEN "cancellation" ELSE asked.terminal
    BY <1>3, Settling
  <2> QED
    BY <1>1, <1>4, <2>1, <2>2
<1>5. CASE b.in_flight # "none"
  BY <1>1, <1>2, <1>5
<1> QED
  BY <1>4, <1>5

-----------------------------------------------------------------------------
(* What the steps do to a request. *)

\* rows is k's trail with one more row, for k's route.
Extended(k, rows, kind) ==
  /\ Len(k.trail) \in Nat /\ Len(rows) = Len(k.trail) + 1
  /\ DOMAIN k.trail = 1..Len(k.trail) /\ DOMAIN rows = 1..Len(k.trail) + 1
  /\ rows[Len(k.trail) + 1].route = k.route /\ rows[Len(k.trail) + 1].kind = kind
  /\ \A i \in 1..Len(k.trail) : rows[i] = k.trail[i]

LEMMA NewRow ==
  ASSUME NEW k \in Views, NEW kind \in RowKinds
  PROVE  \E rows \in Seq(TrailRows) :
           /\ rows = Append(k.trail, [route |-> k.route, kind |-> kind])
           /\ Extended(k, rows, kind)
<1> DEFINE row == [route |-> k.route, kind |-> kind]
           rows == Append(k.trail, row)
<1>1. row \in TrailRows /\ row.route = k.route /\ row.kind = kind /\ k.trail \in Seq(TrailRows)
  BY DEF TrailRows, Views
<1> HIDE DEF row
<1>2. /\ rows \in Seq(TrailRows) /\ Len(rows) = Len(k.trail) + 1 /\ Len(k.trail) \in Nat
      /\ rows[Len(k.trail) + 1] = row /\ \A i \in 1..Len(k.trail) : rows[i] = k.trail[i]
      /\ DOMAIN rows = 1..Len(k.trail) + 1 /\ DOMAIN k.trail = 1..Len(k.trail)
  BY <1>1, AppendOne
<1> HIDE DEF rows
<1>3. Extended(k, rows, kind)
  BY <1>1, <1>2 DEF Extended
<1> QED
  BY <1>2, <1>3 DEF rows, row

\* The trail stays in step with the chain.
LEMMA ExtendedInStep ==
  ASSUME NEW r \in Requests, NEW k \in Views, Good(r, k), NEW kind, NEW rows \in Seq(TrailRows),
         Extended(k, rows, kind)
  PROVE  Follows(rows) /\ Covers(rows, k.route) /\ Ends(rows, k.route)
<1>1. /\ Follows(k.trail) /\ Covers(k.trail, k.route - 1) /\ k.route \in Nat
      /\ k.trail # << >> => k.trail[Len(k.trail)].route \in {k.route - 1, k.route}
  BY DEF Good, Trailed, Views
<1>2. ASSUME NEW i \in 1..Len(rows) - 1
      PROVE  rows[i + 1].route \in {rows[i].route, rows[i].route + 1}
  <2>1. CASE i = Len(k.trail)
    <3>1. k.trail # << >> /\ rows[i] = k.trail[Len(k.trail)] /\ rows[i + 1].route = k.route
      BY <1>2, <2>1 DEF Extended
    <3>2. k.trail[Len(k.trail)].route \in {k.route - 1, k.route}
      BY <1>1, <3>1
    <3> QED
      BY <1>1, <3>1, <3>2
  <2>2. CASE i # Len(k.trail)
    <3>1. i \in 1..Len(k.trail) - 1 /\ i \in 1..Len(k.trail) /\ i + 1 \in 1..Len(k.trail)
      BY <1>2, <2>2 DEF Extended
    <3>2. rows[i] = k.trail[i] /\ rows[i + 1] = k.trail[i + 1]
      BY <3>1 DEF Extended
    <3> QED
      BY <1>1, <3>1, <3>2 DEF Follows
  <2> QED
    BY <2>1, <2>2
<1>3. ASSUME NEW i \in 1..k.route
      PROVE  \E j \in DOMAIN rows : rows[j].route = i
  <2>1. CASE i = k.route
    <3>1. Len(k.trail) + 1 \in DOMAIN rows
      BY DEF Extended
    <3> QED
      BY <2>1, <3>1 DEF Extended
  <2>2. CASE i # k.route
    <3>1. i \in 1..k.route - 1
      BY <1>1, <1>3, <2>2
    <3>2. PICK j \in DOMAIN k.trail : k.trail[j].route = i
      BY <1>1, <3>1 DEF Covers
    <3>3. j \in DOMAIN rows /\ rows[j] = k.trail[j]
      BY DEF Extended
    <3> QED
      BY <3>2, <3>3
  <2> QED
    BY <2>1, <2>2
<1>4. Ends(rows, k.route)
  <2>1. rows # << >>
    BY DEF Extended
  <2> QED
    BY <2>1 DEF Extended, Ends
<1> QED
  BY <1>2, <1>3, <1>4 DEF Follows, Covers

\* A request goes on to its next route.
LEMMA GoesOn ==
  ASSUME NEW r \in Requests, NEW k \in Views, Good(r, k), k.route <= Len(chain[r]),
         chain[r] \in Seq(Providers),
         NEW rows \in Seq(TrailRows), Follows(rows), Covers(rows, k.route), Ends(rows, k.route),
         \A i \in DOMAIN rows : rows[i].kind \in Dispatched =>
           rows[i].route \in DOMAIN chain[r] /\ Eligible(Provider(r, rows[i].route)),
         \A i \in DOMAIN rows : rows[i].kind # "ok",
         k.sent = 0 => /\ Len(rows) = k.route
                       /\ Eligible(Provider(r, k.route)) =>
                            \E j \in EligibleRoutes(r) : j > k.route,
         NEW n \in Views, n.pc = "head", n.route = k.route + 1, n.tries = 0, n.trail = rows,
         n.sent = k.sent
  PROVE  Good(r, n)
<1>1. k.route \in Nat /\ k.route >= 1 /\ Len(chain[r]) \in Nat /\ DOMAIN chain[r] = 1..Len(chain[r])
  BY DEF Good, Placed, Views
<1>2. Placed(r, n)
  BY <1>1 DEF Placed
<1>3. Trailed(r, n)
  BY <1>1 DEF Trailed, Ends
<1>4. Kinded(r, n)
  BY DEF Kinded, Accepting
<1>5. Unsent(r, n)
  <2>1. SUFFICES ASSUME n.sent = 0
                 PROVE  /\ (\E i \in EligibleRoutes(r) : i < n.route) =>
                             \E j \in EligibleRoutes(r) : j >= n.route
                        /\ Len(n.trail) = n.route - 1
    BY DEF Unsent
  <2>2. Len(n.trail) = n.route - 1
    BY <1>1, <2>1
  <2>3. ASSUME NEW i \in EligibleRoutes(r), i < n.route
        PROVE  \E j \in EligibleRoutes(r) : j >= n.route
    <3>1. i \in Nat /\ \A j \in EligibleRoutes(r) : j \in Nat
      BY <1>1 DEF EligibleRoutes
    <3>2. Eligible(Provider(r, k.route)) => \E j \in EligibleRoutes(r) : j > k.route
      BY <2>1
    <3>3. CASE i = k.route
      <4>1. PICK j \in EligibleRoutes(r) : j > k.route
        BY <3>2, <3>3 DEF EligibleRoutes
      <4> QED
        BY <1>1, <3>1, <4>1
    <3>4. CASE i # k.route
      <4>1. i < k.route
        BY <1>1, <2>3, <3>1, <3>4
      <4>2. PICK j \in EligibleRoutes(r) : j >= k.route
        BY <2>1, <4>1 DEF Good, Unsent
      <4>3. CASE j = k.route
        <5>1. PICK l \in EligibleRoutes(r) : l > k.route
          BY <3>2, <4>3 DEF EligibleRoutes
        <5>2. l \in Nat /\ l >= k.route + 1
          BY <1>1, <3>1, <5>1
        <5> QED
          BY <5>2
      <4>4. CASE j # k.route
        BY <1>1, <3>1, <4>2, <4>4
      <4> QED
        BY <4>3, <4>4
    <3> QED
      BY <3>3, <3>4
  <2> QED
    BY <2>2, <2>3
<1> QED
  BY <1>2, <1>3, <1>4, <1>5 DEF Good

\* The dispatch rows after a step of the trail.
LEMMA OneRowMore ==
  ASSUME NEW k \in Views, NEW kind, NEW rows, Extended(k, rows, kind),
         IsFiniteSet(DispatchRows(k.trail))
  PROVE  /\ IsFiniteSet(DispatchRows(rows)) /\ Cardinality(DispatchRows(k.trail)) \in Nat
         /\ Cardinality(DispatchRows(rows)) =
              Cardinality(DispatchRows(k.trail)) + (IF kind \in Dispatched THEN 1 ELSE 0)
<1>1. Len(k.trail) + 1 \notin DispatchRows(k.trail)
  BY DEF Extended, DispatchRows
<1>2. DispatchRows(rows) =
        IF kind \in Dispatched THEN DispatchRows(k.trail) \cup {Len(k.trail) + 1}
        ELSE DispatchRows(k.trail)
  <2>1. ASSUME NEW i
        PROVE  i \in DispatchRows(rows) <=>
                 \/ i \in DispatchRows(k.trail)
                 \/ i = Len(k.trail) + 1 /\ kind \in Dispatched
    <3>1. CASE i = Len(k.trail) + 1
      BY <3>1 DEF Extended, DispatchRows
    <3>2. CASE i # Len(k.trail) + 1
      BY <3>2 DEF Extended, DispatchRows
    <3> QED
      BY <3>1, <3>2
  <2> QED
    BY <2>1
<1>3. Cardinality(DispatchRows(k.trail)) \in Nat
  BY FS_CardinalityType
<1>4. CASE kind \in Dispatched
  <2> DEFINE R == DispatchRows(k.trail)
             m == Len(k.trail) + 1
  <2>1. m \notin R /\ IsFiniteSet(R) /\ DispatchRows(rows) = R \cup {m}
    BY <1>1, <1>2, <1>4
  <2> HIDE DEF R, m
  <2>2. IsFiniteSet(R \cup {m}) /\ Cardinality(R \cup {m}) = Cardinality(R) + 1
    BY <2>1, FS_AddElement
  <2> QED
    BY <1>3, <1>4, <2>1, <2>2 DEF R
<1>5. CASE kind \notin Dispatched
  BY <1>2, <1>3, <1>5
<1> QED
  BY <1>4, <1>5

\* A route is passed over, or skipped for a warm one further on.
LEMMA Passed ==
  ASSUME IInv, NEW r \in Requests, PassOver(r) \/ SkipCooled(r)
  PROVE  IInv'
<1>1. PICK k \in Views :
        /\ k = View(r) /\ Good(r, k) /\ k.pc = pc[r] /\ k.route = route[r] /\ k.later = later[r]
        /\ k.tries = tries[r] /\ k.resent = resent[r] /\ k.trail = trail[r] /\ k.sent = sent[r]
        /\ r \in Budgeted => Kept(r, k, budget[r])
  BY ViewOf DEF IInv
<1>2. Typed /\ chain[r] \in Seq(Providers)
  BY DEF IInv, Typed
<1>3. k.route \in Nat /\ k.route >= 1 /\ Len(chain[r]) \in Nat /\ DOMAIN chain[r] = 1..Len(chain[r])
  BY <1>1, <1>2 DEF Good, Placed, Views
<1>4. PICK kind \in {"unavailable", "pricing", "cooldown-skip"} :
        /\ trail' = [trail EXCEPT ![r] = Append(k.trail, [route |-> k.route, kind |-> kind])]
        /\ Eligible(Provider(r, k.route)) => kind = "cooldown-skip"
  BY <1>1, <1>2 DEF PassOver, SkipCooled, Record, Row, AtRoute, Here
<1>5. k.pc \in {"head", "cooled"} /\ k.route <= Len(chain[r])
  BY <1>1, <1>2 DEF PassOver, SkipCooled, AtRoute, Go, Good, Placed
<1>6. kind \in RowKinds /\ kind \notin Dispatched /\ kind # "ok"
  BY DEF RowKinds, Dispatched
<1>7. PICK rows \in Seq(TrailRows) :
        /\ rows = Append(k.trail, [route |-> k.route, kind |-> kind]) /\ Extended(k, rows, kind)
  BY <1>6, NewRow
<1>8. PICK n \in Views :
        /\ n.pc = "head" /\ n.route = k.route + 1 /\ n.later = 0 /\ n.tries = 0
        /\ n.resent = FALSE /\ n.trail = rows /\ n.sent = k.sent
  <2> DEFINE n == [pc |-> "head", route |-> k.route + 1, later |-> 0, tries |-> 0,
                   resent |-> FALSE, trail |-> rows, sent |-> k.sent]
  <2>1. n \in Views
    BY <1>3 DEF Views, Stations
  <2> QED
    BY <2>1
<1>9. Becomes(r, n)
  <2>1. /\ route' = [route EXCEPT ![r] = n.route] /\ later' = [later EXCEPT ![r] = n.later]
        /\ tries' = [tries EXCEPT ![r] = n.tries] /\ resent' = [resent EXCEPT ![r] = n.resent]
        /\ sent' = sent
    BY <1>1, <1>2, <1>8 DEF PassOver, SkipCooled, NextRoute, Typed
  <2>2. pc' = [pc EXCEPT ![r] = n.pc]
    BY <1>2, <1>8, Unmoved DEF PassOver, SkipCooled, Go, AtRoute
  <2>3. trail' = [trail EXCEPT ![r] = n.trail] /\ sent = [sent EXCEPT ![r] = n.sent]
    BY <1>1, <1>2, <1>4, <1>7, <1>8, Unmoved
  <2> QED
    BY <2>1, <2>2, <2>3 DEF Becomes
<1>10. \A i \in DOMAIN rows : rows[i].kind \in Dispatched =>
         rows[i].route \in DOMAIN chain[r] /\ Eligible(Provider(r, rows[i].route))
  BY <1>1, <1>6, <1>7 DEF Extended, Good, Kinded
<1>11. \A i \in DOMAIN rows : rows[i].kind # "ok"
  BY <1>1, <1>5, <1>6, <1>7 DEF Extended, Good, Kinded, Accepting
<1>12. k.sent = 0 => Len(rows) = k.route
  BY <1>1, <1>3, <1>7 DEF Extended, Good, Unsent
<1>13. Eligible(Provider(r, k.route)) => \E j \in EligibleRoutes(r) : j > k.route
  <2> SUFFICES ASSUME Eligible(Provider(r, k.route))
               PROVE  \E j \in EligibleRoutes(r) : j > k.route
    OBVIOUS
  <2>1. SkipCooled(r)
    BY <1>1 DEF PassOver, SkipCooled, Here
  <2>2. k.later > k.route /\ k.later \in Nat /\ k.later <= Len(chain[r])
        /\ Eligible(Provider(r, k.later))
    BY <1>1, <2>1 DEF SkipCooled, Go, Good, Placed, Warm, Views
  <2> QED
    BY <1>3, <2>2 DEF EligibleRoutes
<1>14. Follows(rows) /\ Covers(rows, k.route) /\ Ends(rows, k.route)
  BY <1>1, <1>7, ExtendedInStep
<1>15. Good(r, n)
  BY <1>1, <1>2, <1>5, <1>8, <1>10, <1>11, <1>12, <1>13, <1>14, GoesOn
<1>16. r \in Budgeted => Kept(r, n, budget[r])
  <2> SUFFICES ASSUME r \in Budgeted
               PROVE  Counted(n, budget[r]) /\ Concluded(r, n, budget[r])
    BY DEF Kept
  <2>1. Counted(n, budget[r])
    BY <1>1, <1>5, <1>6, <1>7, <1>8, OneRowMore DEF Kept, Counted
  <2> QED
    BY <1>1, <1>5, <1>8, <2>1 DEF Kept, Concluded
<1>17. chain' = chain /\ armed' = armed /\ now' = now /\ budget' = budget
  BY DEF PassOver, SkipCooled, world
<1> QED
  BY <1>2, <1>8, <1>9, <1>15, <1>16, <1>17, Framed DEF Typed

\* The request looks at its route and further on, until it dispatches.
LEMMA Looked ==
  ASSUME IInv, NEW r \in Requests,
         TakeWarm(r) \/ FindCooled(r) \/ LookFurther(r) \/ TakeCooled(r)
  PROVE  IInv'
<1>1. PICK k \in Views :
        /\ k = View(r) /\ Good(r, k) /\ k.pc = pc[r] /\ k.route = route[r] /\ k.later = later[r]
        /\ k.tries = tries[r] /\ k.resent = resent[r] /\ k.trail = trail[r] /\ k.sent = sent[r]
        /\ r \in Budgeted => Kept(r, k, budget[r])
  BY ViewOf DEF IInv
<1>2. Typed
  BY DEF IInv
<1>3. k.later \in Nat /\ k.route \in Nat
  BY DEF Views
<1>4. PICK to \in {"cooled", "post"}, further \in Nat :
        /\ pc' = [pc EXCEPT ![r] = to] /\ later' = [later EXCEPT ![r] = further]
        /\ to = "cooled" => further > k.route
  <2>1. CASE TakeWarm(r) \/ TakeCooled(r)
    <3>1. pc' = [pc EXCEPT ![r] = "post"] /\ later' = [later EXCEPT ![r] = k.later]
      BY <1>1, <1>2, <2>1, Unmoved DEF TakeWarm, TakeCooled, Go, local
    <3> QED
      BY <1>3, <3>1
  <2>2. CASE FindCooled(r)
    <3>1. pc' = [pc EXCEPT ![r] = "cooled"] /\ later' = [later EXCEPT ![r] = k.route + 1]
      BY <1>1, <2>2 DEF FindCooled, Go
    <3>2. PICK m \in Nat : m = k.route + 1 /\ m > k.route
      BY <1>3
    <3> QED
      BY <3>1, <3>2, Zenon
  <2>3. CASE LookFurther(r)
    <3>1. pc' = [pc EXCEPT ![r] = "cooled"] /\ later' = [later EXCEPT ![r] = k.later + 1]
      BY <1>1, <1>2, <2>3, Unmoved DEF LookFurther, Typed
    <3>2. k.later > k.route
      BY <1>1, <2>3 DEF LookFurther, Good, Placed
    <3>3. PICK m \in Nat : m = k.later + 1 /\ m > k.route
      BY <1>3, <3>2
    <3> QED
      BY <3>1, <3>3, Zenon
  <2> QED
    BY <2>1, <2>2, <2>3
<1>5. /\ k.pc \in {"head", "cooled"} /\ k.route <= Len(chain[r]) /\ Eligible(Provider(r, k.route))
      /\ UNCHANGED <<world, cooling, budget, route, tries, resent, trail, sent>>
  <2>1. CASE TakeWarm(r) \/ FindCooled(r)
    BY <1>1, <2>1 DEF TakeWarm, FindCooled, AtRoute, Here, local, world
  <2>2. CASE LookFurther(r) \/ TakeCooled(r)
    BY <1>1, <2>2 DEF LookFurther, TakeCooled, Go, Good, Placed, local, world
  <2> QED
    BY <2>1, <2>2
<1>6. PICK n \in Views :
        /\ n.pc = to /\ n.route = k.route /\ n.later = further /\ n.tries = k.tries
        /\ n.resent = k.resent /\ n.trail = k.trail /\ n.sent = k.sent
  <2> DEFINE n == [pc |-> to, route |-> k.route, later |-> further, tries |-> k.tries,
                   resent |-> k.resent, trail |-> k.trail, sent |-> k.sent]
  <2>1. n \in Views
    BY DEF Views, Stations
  <2> QED
    BY <2>1
<1>7. Becomes(r, n)
  BY <1>1, <1>2, <1>4, <1>5, <1>6, Unmoved DEF Becomes
<1>8. Placed(r, n)
  BY <1>1, <1>4, <1>5, <1>6 DEF Good, Placed
<1>9. Trailed(r, n)
  BY <1>1, <1>4, <1>5, <1>6 DEF Good, Trailed
<1>10. Kinded(r, n)
  BY <1>1, <1>4, <1>5, <1>6 DEF Good, Kinded, Accepting
<1>11. Unsent(r, n)
  BY <1>1, <1>4, <1>5, <1>6 DEF Good, Unsent
<1>12. r \in Budgeted => Kept(r, n, budget[r])
  BY <1>1, <1>4, <1>5, <1>6 DEF Kept, Counted, Concluded
<1> QED
  BY <1>2, <1>5, <1>6, <1>7, <1>8, <1>9, <1>10, <1>11, <1>12, Framed DEF Typed, Good, world

\* A POST goes out, for the first time, again, or once more from the pool.
LEMMA Sent ==
  ASSUME IInv, NEW r \in Requests, Post(r) \/ PostBudgeted(r) \/ HiddenResend(r)
  PROVE  IInv'
<1>1. PICK k \in Views :
        /\ k = View(r) /\ Good(r, k) /\ k.pc = pc[r] /\ k.route = route[r] /\ k.later = later[r]
        /\ k.tries = tries[r] /\ k.resent = resent[r] /\ k.trail = trail[r] /\ k.sent = sent[r]
        /\ r \in Budgeted => Kept(r, k, budget[r])
  BY ViewOf DEF IInv
<1>2. Typed
  BY DEF IInv
<1>3. k.sent \in Nat /\ k.tries \in Nat /\ k.trail \in Seq(TrailRows)
  BY DEF Views
<1>4. k.pc \in {"post", "wire"}
  BY <1>1 DEF Post, PostBudgeted, HiddenResend, Go
<1>5. PICK dispatches \in Nat, again \in BOOLEAN :
        /\ tries' = [tries EXCEPT ![r] = dispatches] /\ resent' = [resent EXCEPT ![r] = again]
        /\ dispatches >= k.tries
  <2>1. CASE Post(r) \/ PostBudgeted(r)
    <3>1. /\ tries' = [tries EXCEPT ![r] = k.tries + 1]
          /\ resent' = [resent EXCEPT ![r] = FALSE]
      BY <1>1, <1>2, <2>1 DEF Post, PostBudgeted, Put, Typed
    <3>2. PICK m \in Nat : m = k.tries + 1 /\ m >= k.tries
      BY <1>3
    <3>3. FALSE \in BOOLEAN
      OBVIOUS
    <3> QED
      BY <3>1, <3>2, <3>3, Zenon
  <2>2. CASE HiddenResend(r)
    <3>1. /\ tries' = [tries EXCEPT ![r] = k.tries]
          /\ resent' = [resent EXCEPT ![r] = TRUE]
      BY <1>1, <1>2, <2>2, Unmoved DEF HiddenResend
    <3>2. k.tries \in Nat /\ k.tries >= k.tries /\ TRUE \in BOOLEAN
      BY <1>3
    <3> QED
      BY <3>1, <3>2, Zenon
  <2> QED
    BY <2>1, <2>2
<1>6. /\ sent' = [sent EXCEPT ![r] = k.sent + 1] /\ pc' = [pc EXCEPT ![r] = "wire"]
      /\ route' = route /\ later' = later /\ trail' = trail
      /\ chain' = chain /\ armed' = armed /\ now' = now
  <2>1. CASE Post(r) \/ PostBudgeted(r)
    BY <1>1, <1>2, <2>1 DEF Post, PostBudgeted, Put, Go, Typed, world
  <2>2. CASE HiddenResend(r)
    BY <1>1, <1>2, <2>2, Unmoved DEF HiddenResend, Typed, world
  <2> QED
    BY <2>1, <2>2
<1>7. PICK n \in Views :
        /\ n.pc = "wire" /\ n.route = k.route /\ n.later = k.later /\ n.tries = dispatches
        /\ n.resent = again /\ n.trail = k.trail /\ n.sent = k.sent + 1
  <2> DEFINE n == [pc |-> "wire", route |-> k.route, later |-> k.later, tries |-> dispatches,
                   resent |-> again, trail |-> k.trail, sent |-> k.sent + 1]
  <2>1. n \in Views
    BY <1>3 DEF Views, Stations
  <2> QED
    BY <2>1
<1>8. Becomes(r, n)
  BY <1>1, <1>2, <1>5, <1>6, <1>7, Unmoved DEF Becomes
<1>9. Placed(r, n)
  BY <1>1, <1>4, <1>7 DEF Good, Placed
<1>10. Trailed(r, n)
  BY <1>1, <1>4, <1>7 DEF Good, Trailed
<1>11. Kinded(r, n)
  BY <1>1, <1>4, <1>7 DEF Good, Kinded, Accepting
<1>12. Unsent(r, n)
  BY <1>3, <1>7 DEF Unsent
<1>13. /\ budget' \in [Budgeted -> Budgets] /\ \A d \in Budgeted \ {r} : budget'[d] = budget[d]
       /\ r \in Budgeted => Kept(r, n, budget'[r])
  <2>1. CASE PostBudgeted(r)
    <3> DEFINE b == budget[r]
    <3>1. /\ b \in Budgets /\ now \in Nat /\ ReserveStop(b, now) = Open /\ r \in Budgeted
          /\ budget' = [budget EXCEPT ![r] = Reserve(b, now)] /\ k.pc = "post"
      BY <1>1, <1>2, <2>1 DEF PostBudgeted, Go, Typed
    <3>2. /\ Reserve(b, now) \in Budgets /\ Reserve(b, now).reserved = b.reserved + 1
          /\ Reserve(b, now).in_flight = "unknown" /\ Reserve(b, now).terminal = Open
          /\ b.reserved + 1 <= MaxAttempts
      BY <3>1, Granted
    <3>3. PICK c \in Budgets : c = Reserve(b, now)
      BY <3>2
    <3>4. budget'[r] = c /\ budget' \in [Budgeted -> Budgets]
          /\ \A d \in Budgeted \ {r} : budget'[d] = budget[d]
      BY <1>2, <3>1, <3>3 DEF Typed
    <3>5. Counted(k, b) /\ Concluded(r, k, b)
      BY <1>1, <3>1 DEF Kept
    <3>6. Counted(n, c)
      <4>1. Cardinality(DispatchRows(k.trail)) = k.sent
        BY <1>3, <3>1, <3>5 DEF Counted
      <4> QED
        BY <1>3, <1>7, <3>2, <3>3, <3>5, <4>1 DEF Counted
    <3>7. Concluded(r, n, c)
      BY <1>7, <3>2, <3>3 DEF Concluded, Open
    <3> QED
      BY <3>4, <3>6, <3>7 DEF Kept
  <2>2. CASE Post(r) \/ HiddenResend(r)
    BY <1>2, <2>2 DEF Post, HiddenResend, Typed
  <2> QED
    BY <2>1, <2>2
<1> QED
  BY <1>2, <1>6, <1>7, <1>8, <1>9, <1>10, <1>11, <1>12, <1>13, Framed DEF Typed, Good

-----------------------------------------------------------------------------
\* n is k at another station.
Moves(k, n, to) ==
  /\ n.pc = to /\ n.route = k.route /\ n.later = k.later /\ n.tries = k.tries
  /\ n.resent = k.resent /\ n.trail = k.trail /\ n.sent = k.sent

\* r's budget became c, and nobody else's changed.
Spends(r, c) ==
  IF r \in Budgeted THEN c \in Budgets /\ budget' = [budget EXCEPT ![r] = c]
  ELSE budget' = budget

\* A step that only moves a request and tells its budget something.
LEMMA Told ==
  ASSUME IInv, NEW r \in Requests, NEW k \in Views, k = View(r),
         NEW to \in Stations, pc' = [pc EXCEPT ![r] = to],
         UNCHANGED <<world, route, local, trail>>, NEW c, Spends(r, c),
         \A n \in Views : Moves(k, n, to) =>
           /\ Placed(r, n) /\ Trailed(r, n) /\ Kinded(r, n) /\ Unsent(r, n)
           /\ r \in Budgeted => Counted(n, c) /\ Concluded(r, n, c)
  PROVE  IInv'
<1>1. Typed
  BY DEF IInv
<1>2. /\ k.route = route[r] /\ k.later = later[r] /\ k.tries = tries[r]
      /\ k.resent = resent[r] /\ k.trail = trail[r] /\ k.sent = sent[r]
  BY <1>1, ViewOf
<1>3. PICK n \in Views : Moves(k, n, to)
  <2> DEFINE n == [pc |-> to, route |-> k.route, later |-> k.later, tries |-> k.tries,
                   resent |-> k.resent, trail |-> k.trail, sent |-> k.sent]
  <2>1. n \in Views
    BY DEF Views
  <2> QED
    BY <2>1 DEF Moves
<1>4. Becomes(r, n)
  BY <1>1, <1>2, <1>3, Unmoved DEF Becomes, Moves, local
<1>5. /\ budget' \in [Budgeted -> Budgets] /\ \A d \in Budgeted \ {r} : budget'[d] = budget[d]
      /\ r \in Budgeted => budget'[r] = c
  BY <1>1 DEF Typed, Spends
<1>6. Good(r, n) /\ (r \in Budgeted => Kept(r, n, budget'[r]))
  BY <1>3, <1>5 DEF Good, Kept
<1> QED
  BY <1>1, <1>3, <1>4, <1>5, <1>6, Framed DEF Typed, world

\* What IInv says of one request.
LEMMA Seen ==
  ASSUME IInv, NEW r \in Requests
  PROVE  \E k \in Views :
           /\ k = View(r) /\ Placed(r, k) /\ Trailed(r, k) /\ Kinded(r, k) /\ Unsent(r, k)
           /\ k.pc = pc[r] /\ k.route = route[r] /\ k.later = later[r]
           /\ k.tries = tries[r] /\ k.resent = resent[r] /\ k.trail = trail[r]
           /\ k.sent = sent[r]
           /\ k.route \in Nat /\ k.tries \in Nat /\ k.sent \in Nat /\ k.trail \in Seq(TrailRows)
           /\ chain[r] \in Seq(Providers) /\ Len(chain[r]) \in Nat
           /\ r \in Budgeted =>
                Counted(k, budget[r]) /\ Concluded(r, k, budget[r]) /\ budget[r] \in Budgets
<1>1. Typed
  BY DEF IInv
<1>2. PICK k \in Views :
        /\ k = View(r) /\ k.pc = pc[r] /\ k.route = route[r] /\ k.later = later[r]
        /\ k.tries = tries[r] /\ k.resent = resent[r] /\ k.trail = trail[r] /\ k.sent = sent[r]
  BY <1>1, ViewOf
<1>3. k.route \in Nat /\ k.tries \in Nat /\ k.sent \in Nat /\ k.trail \in Seq(TrailRows)
  BY DEF Views
<1>4. chain[r] \in Seq(Providers) /\ Len(chain[r]) \in Nat
  BY <1>1 DEF Typed
<1>5. Placed(r, k) /\ Trailed(r, k) /\ Kinded(r, k) /\ Unsent(r, k)
  BY <1>2 DEF IInv, Good
<1>6. r \in Budgeted =>
        Counted(k, budget[r]) /\ Concluded(r, k, budget[r]) /\ budget[r] \in Budgets
  BY <1>1, <1>2 DEF IInv, Kept, Typed
<1> QED
  BY <1>2, <1>3, <1>4, <1>5, <1>6

\* r goes from k to another station, its budget to c.
Redirects(r, k, to, c) ==
  /\ to \in {"head", "post", "failed"}
  /\ pc' = [pc EXCEPT ![r] = to] /\ Spends(r, c)
  /\ to = "head" => k.pc = "post" /\ k.tries = 0
  /\ to = "failed" => k.pc = "again" \/ k.tries > 0
  /\ r \in Budgeted =>
       /\ c.reserved = budget[r].reserved
       /\ c.terminal \in {budget[r].terminal} \cup Refusals

\* The budget refuses a dispatch, or a back-off is decided.
LEMMA Decided ==
  ASSUME IInv, NEW r \in Requests, ReserveRefused(r) \/ Retry(r)
  PROVE  IInv'
<1>1. PICK k \in Views :
        /\ k = View(r) /\ Placed(r, k) /\ Trailed(r, k) /\ Kinded(r, k) /\ Unsent(r, k)
        /\ k.pc = pc[r] /\ k.tries = tries[r] /\ k.tries \in Nat
        /\ r \in Budgeted =>
             Counted(k, budget[r]) /\ Concluded(r, k, budget[r]) /\ budget[r] \in Budgets
  BY Seen
<1>2. Typed /\ now \in Nat
  BY DEF IInv, Typed
<1>3. PICK to, c : Redirects(r, k, to, c)
  <2>1. CASE ReserveRefused(r)
    <3>1. PICK to \in {"head", "failed"} :
            pc' = [pc EXCEPT ![r] = to] /\ (to = "head" => k.tries = 0)
            /\ (to = "failed" => k.tries > 0)
      <4>1. CASE k.tries > 0
        BY <1>1, <2>1, <4>1 DEF ReserveRefused, Go
      <4>2. CASE ~(k.tries > 0)
        <5>1. k.tries = 0
          BY <1>1, <4>2
        <5>2. pc' = [pc EXCEPT ![r] = "head"]
          BY <1>1, <2>1, <4>2 DEF ReserveRefused, Go
        <5> QED
          BY <5>1, <5>2
      <4> QED
        BY <4>1, <4>2
    <3>2. /\ r \in Budgeted /\ k.pc = "post" /\ ReserveStop(budget[r], now) # Open
          /\ budget' = [budget EXCEPT ![r] = Reserve(budget[r], now)]
      BY <1>1, <2>1 DEF ReserveRefused, Go
    <3>3. /\ Reserve(budget[r], now) \in Budgets
          /\ Reserve(budget[r], now).reserved = budget[r].reserved
          /\ Reserve(budget[r], now).terminal \in {budget[r].terminal} \cup Refusals
      BY <1>1, <1>2, <3>2, Declined
    <3>4. Spends(r, Reserve(budget[r], now))
      BY <3>2, <3>3 DEF Spends
    <3>5. PICK c :
            /\ Spends(r, c) /\ c.reserved = budget[r].reserved
            /\ c.terminal \in {budget[r].terminal} \cup Refusals
      BY <3>3, <3>4, Zenon
    <3>6. Redirects(r, k, to, c)
      BY <3>1, <3>2, <3>5 DEF Redirects
    <3> QED
      BY <3>6, Zenon
  <2>2. CASE Retry(r)
    <3>1. PICK delay \in Delays :
            /\ Go(r, "again", IF BackoffStop(budget[r], now, delay) = Open
                              THEN "post" ELSE "failed")
            /\ budget' = [budget EXCEPT ![r] = AllowBackoff(budget[r], now, delay)]
      BY <2>2 DEF Retry
    <3>2. PICK to \in {"post", "failed"} : pc' = [pc EXCEPT ![r] = to]
      BY <3>1 DEF Go
    <3>3. k.pc = "again" /\ delay \in Nat
      BY <1>1, <3>1, RouteAssumption DEF Go
    <3>4. r \in Budgeted =>
            /\ AllowBackoff(budget[r], now, delay) \in Budgets
            /\ AllowBackoff(budget[r], now, delay).reserved = budget[r].reserved
            /\ AllowBackoff(budget[r], now, delay).terminal \in {budget[r].terminal} \cup Refusals
      BY <1>1, <1>2, <3>3, Declined
    <3>5. Spends(r, AllowBackoff(budget[r], now, delay))
      BY <1>2, <3>1, <3>4 DEF Spends, Typed
    <3>6. PICK c :
            /\ Spends(r, c)
            /\ r \in Budgeted =>
                 /\ c.reserved = budget[r].reserved
                 /\ c.terminal \in {budget[r].terminal} \cup Refusals
      BY <3>4, <3>5, Zenon
    <3>7. Redirects(r, k, to, c)
      BY <3>2, <3>3, <3>6 DEF Redirects
    <3> QED
      BY <3>7, Zenon
  <2> QED
    BY <2>1, <2>2
<1>4. k.pc \in {"post", "again"} /\ UNCHANGED <<world, route, local, trail>>
  BY <1>1 DEF ReserveRefused, Retry, Go
<1>5. ASSUME NEW n \in Views, Moves(k, n, to)
      PROVE  /\ Placed(r, n) /\ Trailed(r, n) /\ Kinded(r, n) /\ Unsent(r, n)
             /\ r \in Budgeted => Counted(n, c) /\ Concluded(r, n, c)
  <2>1. Placed(r, n)
    BY <1>1, <1>3, <1>4, <1>5 DEF Redirects, Moves, Placed
  <2>2. Trailed(r, n)
    BY <1>1, <1>3, <1>4, <1>5 DEF Redirects, Moves, Trailed
  <2>3. Kinded(r, n)
    BY <1>1, <1>3, <1>4, <1>5 DEF Redirects, Moves, Kinded, Accepting
  <2>4. Unsent(r, n)
    BY <1>1, <1>3, <1>4, <1>5 DEF Redirects, Moves, Unsent
  <2>5. r \in Budgeted => Counted(n, c)
    BY <1>1, <1>3, <1>4, <1>5 DEF Redirects, Moves, Counted
  <2>6. r \in Budgeted => Concluded(r, n, c)
    BY <1>1, <1>3, <1>4, <1>5 DEF Redirects, Moves, Concluded, Refusals, Open
  <2> QED
    BY <2>1, <2>2, <2>3, <2>4, <2>5, <2>6
<1>6. to \in Stations
  BY <1>3 DEF Redirects, Stations
<1> QED
  BY <1>1, <1>3, <1>4, <1>5, <1>6, Told DEF Redirects

\* The controller cancels or closes the budget of a request that is not over.
LEMMA Steered ==
  ASSUME IInv, NEW r \in Budgeted, Controller(r)
  PROVE  IInv'
<1>1. r \in Requests
  BY RouteAssumption
<1>2. PICK k \in Views :
        /\ k = View(r) /\ Placed(r, k) /\ Trailed(r, k) /\ Kinded(r, k) /\ Unsent(r, k)
        /\ k.pc = pc[r] /\ Counted(k, budget[r]) /\ Concluded(r, k, budget[r])
        /\ budget[r] \in Budgets
  BY <1>1, Seen
<1>3. k.pc \notin {"served", "raised"} /\ k.pc \in Stations
      /\ UNCHANGED <<world, pc, route, local, trail>>
  BY <1>2 DEF Controller, Over, Views
<1>4. pc' = [pc EXCEPT ![r] = k.pc]
  BY <1>1, <1>2, <1>3, Unmoved DEF IInv
<1>5. PICK c \in Budgets :
        /\ budget' = [budget EXCEPT ![r] = c] /\ c.reserved = budget[r].reserved
        /\ c.in_flight = budget[r].in_flight
        /\ \/ c.terminal = budget[r].terminal
           \/ /\ budget[r].terminal = Open
              /\ \/ c.terminal = "cancellation" /\ c.in_flight = "none"
                 \/ c.terminal \in CloseReasons
  <2>1. CASE budget' = [budget EXCEPT ![r] = Cancel(budget[r])]
    <3>1. PICK c \in Budgets :
            /\ c = Cancel(budget[r]) /\ c.reserved = budget[r].reserved
            /\ c.in_flight = budget[r].in_flight
            /\ c.terminal = IF budget[r].terminal = Open /\ budget[r].in_flight = "none"
                            THEN "cancellation" ELSE budget[r].terminal
      BY <1>2, Cancelling
    <3> QED
      BY <2>1, <3>1
  <2>2. ASSUME NEW reason \in CloseReasons,
               budget' = [budget EXCEPT ![r] = Close(budget[r], reason)]
        PROVE  \E c \in Budgets :
                 /\ budget' = [budget EXCEPT ![r] = c] /\ c.reserved = budget[r].reserved
                 /\ c.in_flight = budget[r].in_flight
                 /\ \/ c.terminal = budget[r].terminal
                    \/ budget[r].terminal = Open /\ c.terminal \in CloseReasons
    <3>1. reason \in TERMINAL_REASONS
      BY RouteAssumption DEF TERMINAL_REASONS
    <3>2. PICK c \in Budgets :
            /\ c = Settle(budget[r], reason) /\ c.reserved = budget[r].reserved
            /\ c.in_flight = budget[r].in_flight
            /\ c.terminal = IF budget[r].terminal = Open THEN reason ELSE budget[r].terminal
      BY <1>2, <3>1, Settling
    <3> QED
      BY <2>2, <3>2 DEF Close
  <2> QED
    BY <2>1, <2>2 DEF Controller
<1>6. Spends(r, c)
  BY <1>5 DEF Spends
<1>7. ASSUME NEW n \in Views, Moves(k, n, k.pc)
      PROVE  /\ Placed(r, n) /\ Trailed(r, n) /\ Kinded(r, n) /\ Unsent(r, n)
             /\ r \in Budgeted => Counted(n, c) /\ Concluded(r, n, c)
  <2>1. Placed(r, n) /\ Trailed(r, n) /\ Kinded(r, n) /\ Unsent(r, n)
    BY <1>2, <1>7 DEF Moves, Placed, Trailed, Kinded, Accepting, Unsent
  <2>2. Counted(n, c)
    BY <1>2, <1>5, <1>7 DEF Moves, Counted
  <2>3. CloseReasons \subseteq {"tests_failed", "cost_unknown"}
    BY RouteAssumption
  <2>4. Concluded(r, n, c)
    BY <1>2, <1>3, <1>5, <1>7, <2>3 DEF Moves, Concluded, Open
  <2> QED
    BY <2>1, <2>2, <2>4
<1> QED
  BY <1>1, <1>2, <1>3, <1>4, <1>6, <1>7, Told

\* The answer is delivered.
LEMMA Served ==
  ASSUME IInv, NEW r \in Requests, Serve(r)
  PROVE  IInv'
<1>1. PICK k \in Views :
        /\ k = View(r) /\ Placed(r, k) /\ Trailed(r, k) /\ Kinded(r, k) /\ Unsent(r, k)
        /\ k.pc = pc[r]
        /\ r \in Budgeted =>
             Counted(k, budget[r]) /\ Concluded(r, k, budget[r]) /\ budget[r] \in Budgets
  BY Seen
<1>2. k.pc = "usable" /\ pc' = [pc EXCEPT ![r] = "served"]
      /\ UNCHANGED <<world, route, local, trail, budget>>
  BY <1>1 DEF Serve, Go
<1>3. PICK c : c = budget[r]
  OBVIOUS
<1>4. Spends(r, c)
  BY <1>1, <1>2, <1>3 DEF Spends, IInv, Typed
<1>5. ASSUME NEW n \in Views, Moves(k, n, "served")
      PROVE  /\ Placed(r, n) /\ Trailed(r, n) /\ Kinded(r, n) /\ Unsent(r, n)
             /\ r \in Budgeted => Counted(n, c) /\ Concluded(r, n, c)
  <2>1. Placed(r, n) /\ Unsent(r, n)
    BY <1>1, <1>2, <1>5 DEF Moves, Placed, Unsent
  <2>2. Trailed(r, n)
    BY <1>1, <1>2, <1>5 DEF Moves, Trailed
  <2>3. Kinded(r, n)
    BY <1>1, <1>2, <1>5 DEF Moves, Kinded, Accepting
  <2>4. r \in Budgeted => Counted(n, c) /\ Concluded(r, n, c)
    BY <1>1, <1>2, <1>3, <1>5 DEF Moves, Counted, Concluded, Open
  <2> QED
    BY <2>1, <2>2, <2>3, <2>4
<1>6. "served" \in Stations
  BY DEF Stations
<1> QED
  BY <1>1, <1>2, <1>4, <1>5, <1>6, Told

\* The routes are exhausted, or the budget has stopped the request.
LEMMA Raised ==
  ASSUME IInv, NEW r \in Requests, Raise(r)
  PROVE  IInv'
<1>1. PICK k \in Views :
        /\ k = View(r) /\ Placed(r, k) /\ Trailed(r, k) /\ Kinded(r, k) /\ Unsent(r, k)
        /\ k.pc = pc[r] /\ k.route = route[r] /\ k.trail = trail[r]
        /\ k.route \in Nat /\ k.sent \in Nat /\ k.trail \in Seq(TrailRows)
        /\ chain[r] \in Seq(Providers) /\ Len(chain[r]) \in Nat
        /\ r \in Budgeted =>
             Counted(k, budget[r]) /\ Concluded(r, k, budget[r]) /\ budget[r] \in Budgets
  BY Seen
<1>2. k.pc = "head" /\ pc' = [pc EXCEPT ![r] = "raised"]
      /\ UNCHANGED <<world, route, local, trail>>
  BY <1>1 DEF Raise, Go
<1>3. k.route = Len(chain[r]) + 1 \/ (r \in Budgeted /\ budget[r].terminal # Open)
  <2>1. k.route > Len(chain[r]) \/ (r \in Budgeted /\ budget[r].terminal # Open)
    BY <1>1 DEF Raise, Stopped
  <2> QED
    BY <1>1, <2>1 DEF Placed
<1>4. k.route = Len(chain[r]) + 1 /\ k.sent = 0 => EligibleRoutes(r) = {}
  <2> SUFFICES ASSUME k.route = Len(chain[r]) + 1, k.sent = 0, NEW i \in EligibleRoutes(r)
               PROVE  FALSE
    OBVIOUS
  <2>1. EligibleRoutes(r) \subseteq 1..Len(chain[r])
    BY <1>1 DEF EligibleRoutes
  <2>2. i < k.route
    BY <1>1, <2>1
  <2>3. PICK j \in EligibleRoutes(r) : j >= k.route
    BY <1>1, <2>2 DEF Unsent
  <2> QED
    BY <1>1, <2>1, <2>3
<1>5. PICK c :
        /\ Spends(r, c)
        /\ r \in Budgeted =>
             /\ c.reserved = budget[r].reserved
             /\ \/ budget[r].terminal # Open /\ c.terminal = budget[r].terminal
                \/ /\ budget[r].terminal = Open
                   /\ c.terminal = ClosedReason(k.trail, budget[r].reserved)
  <2>1. CASE r \in Budgeted
    <3> DEFINE reason == ClosedReason(k.trail, budget[r].reserved)
    <3>1. reason \in TERMINAL_REASONS
      BY DEF ClosedReason, TERMINAL_REASONS
    <3>2. budget' = [budget EXCEPT ![r] = Settle(budget[r], reason)]
      BY <1>1, <2>1 DEF Raise, Close
    <3> HIDE DEF reason
    <3>3. /\ Settle(budget[r], reason) \in Budgets
          /\ Settle(budget[r], reason).reserved = budget[r].reserved
          /\ Settle(budget[r], reason).terminal =
               IF budget[r].terminal = Open THEN reason ELSE budget[r].terminal
      BY <1>1, <2>1, <3>1, Settling
    <3> QED
      BY <2>1, <3>2, <3>3 DEF Spends, reason
  <2>2. CASE r \notin Budgeted
    BY <2>2 DEF Raise, Spends
  <2> QED
    BY <2>1, <2>2
<1>6. ASSUME NEW n \in Views, Moves(k, n, "raised")
      PROVE  /\ Placed(r, n) /\ Trailed(r, n) /\ Kinded(r, n) /\ Unsent(r, n)
             /\ r \in Budgeted => Counted(n, c) /\ Concluded(r, n, c)
  <2>1. Placed(r, n)
    BY <1>1, <1>2, <1>3, <1>6 DEF Moves, Placed
  <2>2. Trailed(r, n)
    BY <1>1, <1>2, <1>6 DEF Moves, Trailed
  <2>3. Kinded(r, n)
    BY <1>1, <1>2, <1>6 DEF Moves, Kinded, Accepting
  <2>4. Unsent(r, n)
    BY <1>1, <1>2, <1>6 DEF Moves, Unsent
  <2>5. r \in Budgeted => Counted(n, c)
    BY <1>1, <1>2, <1>5, <1>6 DEF Moves, Counted
  <2>6. ASSUME r \in Budgeted
        PROVE  Concluded(r, n, c)
    <3>1. CASE budget[r].terminal # Open
      <4>1. c.terminal = budget[r].terminal
        BY <1>5, <2>6, <3>1
      <4>2. c.terminal \notin {"provider_unavailable", "success", "policy_blocked", Open}
        BY <1>1, <1>2, <2>6, <3>1, <4>1 DEF Concluded
      <4> QED
        BY <1>6, <4>2 DEF Moves, Concluded
    <3>2. CASE budget[r].terminal = Open
      <4>1. /\ c.terminal = ClosedReason(k.trail, budget[r].reserved)
            /\ k.sent = budget[r].reserved /\ k.route = Len(chain[r]) + 1
        BY <1>1, <1>3, <1>5, <2>6, <3>2 DEF Counted
      <4>2. CASE c.terminal = "policy_blocked"
        <5>1. k.sent = 0 /\ \A i \in DOMAIN k.trail : k.trail[i].kind = "pricing"
          BY <4>1, <4>2 DEF ClosedReason
        <5>2. Len(k.trail) = Len(chain[r])
          BY <1>1, <4>1, <5>1 DEF Unsent
        <5> QED
          BY <1>6, <4>2, <5>1, <5>2 DEF Moves, Concluded, Open
      <4>3. CASE c.terminal = "provider_unavailable"
        <5>1. EligibleRoutes(r) = {} \/ k.sent > 0
          BY <1>1, <1>4, <4>1
        <5> QED
          BY <1>6, <4>3, <5>1 DEF Moves, Concluded, Open
      <4> QED
        BY <4>1, <4>2, <4>3 DEF ClosedReason
    <3> QED
      BY <3>1, <3>2
  <2> QED
    BY <2>1, <2>2, <2>3, <2>4, <2>5, <2>6
<1>7. "raised" \in Stations
  BY DEF Stations
<1> QED
  BY <1>1, <1>2, <1>5, <1>6, <1>7, Told

-----------------------------------------------------------------------------
\* However the request looks after one more row, its own invariants hold.
Grows(r, k, to, kind, c) ==
  \A n \in Views :
    (/\ n.pc = to /\ n.route = k.route /\ n.tries = k.tries /\ n.sent = k.sent
     /\ Extended(k, n.trail, kind)
     /\ Follows(n.trail) /\ Covers(n.trail, k.route) /\ Ends(n.trail, k.route)) =>
    /\ Placed(r, n) /\ Trailed(r, n) /\ Kinded(r, n) /\ Unsent(r, n)
    /\ r \in Budgeted => Counted(n, c) /\ Concluded(r, n, c)

\* A step that moves a request, adds one row to its trail and tells its budget.
LEMMA Written ==
  ASSUME IInv, NEW r \in Requests, NEW k \in Views, k = View(r),
         NEW to \in Stations, pc' = [pc EXCEPT ![r] = to],
         NEW kind \in RowKinds, Record(r, kind),
         UNCHANGED <<world, route, local>>, NEW c, Spends(r, c), Grows(r, k, to, kind, c)
  PROVE  IInv'
<1>1. Typed /\ Good(r, k)
  BY DEF IInv
<1>2. /\ k.route = route[r] /\ k.later = later[r] /\ k.tries = tries[r]
      /\ k.resent = resent[r] /\ k.trail = trail[r] /\ k.sent = sent[r]
  BY <1>1, ViewOf
<1>3. PICK rows \in Seq(TrailRows) :
        /\ rows = Append(k.trail, [route |-> k.route, kind |-> kind]) /\ Extended(k, rows, kind)
  BY NewRow
<1>4. PICK n \in Views :
        /\ n.pc = to /\ n.route = k.route /\ n.later = k.later /\ n.tries = k.tries
        /\ n.resent = k.resent /\ n.trail = rows /\ n.sent = k.sent
  <2> DEFINE n == [pc |-> to, route |-> k.route, later |-> k.later, tries |-> k.tries,
                   resent |-> k.resent, trail |-> rows, sent |-> k.sent]
  <2>1. n \in Views
    BY DEF Views
  <2> QED
    BY <2>1
<1>5. Becomes(r, n)
  <2>1. trail' = [trail EXCEPT ![r] = n.trail]
    BY <1>2, <1>3, <1>4 DEF Record, Row
  <2> QED
    BY <1>1, <1>2, <1>4, <2>1, Unmoved DEF Becomes, local
<1>6. /\ budget' \in [Budgeted -> Budgets] /\ \A d \in Budgeted \ {r} : budget'[d] = budget[d]
      /\ r \in Budgeted => budget'[r] = c
  BY <1>1 DEF Typed, Spends
<1>7. Follows(rows) /\ Covers(rows, k.route) /\ Ends(rows, k.route)
  BY <1>1, <1>3, ExtendedInStep
<1>8. Good(r, n) /\ (r \in Budgeted => Kept(r, n, budget'[r]))
  BY <1>3, <1>4, <1>6, <1>7 DEF Good, Kept, Grows
<1> QED
  BY <1>1, <1>4, <1>5, <1>6, <1>8, Framed DEF Typed, world

\* What a dispatch row adds to a request's own invariants.
LEMMA RowAdded ==
  ASSUME NEW r \in Requests, NEW k \in Views, NEW n \in Views,
         Placed(r, k), Trailed(r, k), Kinded(r, k), Unsent(r, k), chain[r] \in Seq(Providers),
         k.pc \in {"wire", "answered"}, ~Accepting(r, k),
         n.pc \in {"again", "failed", "answered", "usable"},
         n.route = k.route, n.tries = k.tries, n.sent = k.sent,
         NEW kind \in Dispatched, Accepting(r, n) <=> kind = "ok",
         Extended(k, n.trail, kind), Follows(n.trail), Covers(n.trail, k.route),
         Ends(n.trail, k.route)
  PROVE  Placed(r, n) /\ Trailed(r, n) /\ Kinded(r, n) /\ Unsent(r, n)
<1>1. k.route \in Nat /\ k.sent \in Nat
  BY DEF Views
<1>2. Placed(r, n)
  BY DEF Placed
<1>3. Trailed(r, n)
  <2>1. Covers(n.trail, n.route - 1)
    <3>1. 1..n.route - 1 \subseteq 1..k.route
      BY <1>1
    <3> QED
      BY <3>1 DEF Covers
  <2> QED
    BY <2>1 DEF Trailed, Ends
<1>4. Kinded(r, n)
  <2>1. k.route \in DOMAIN chain[r] /\ Eligible(Provider(r, k.route))
    BY <1>1 DEF Placed
  <2>2. n.trail[Len(n.trail)].kind = kind /\ Len(n.trail) = Len(k.trail) + 1
        /\ Len(k.trail) \in Nat
    BY DEF Extended
  <2>3. ASSUME NEW i \in DOMAIN n.trail, i # Len(n.trail)
        PROVE  i \in DOMAIN k.trail /\ n.trail[i] = k.trail[i]
    BY <2>3 DEF Extended
  <2>4. \A i \in DOMAIN n.trail : n.trail[i].kind \in Dispatched =>
          n.trail[i].route \in DOMAIN chain[r] /\ Eligible(Provider(r, n.trail[i].route))
    <3>1. n.trail[Len(n.trail)].route = k.route
      BY DEF Extended
    <3> QED
      BY <2>1, <2>3, <3>1 DEF Kinded
  <2>5. \A i \in DOMAIN n.trail : n.trail[i].kind = "ok" => i = Len(n.trail) /\ Accepting(r, n)
    BY <2>2, <2>3 DEF Kinded
  <2> QED
    BY <2>2, <2>4, <2>5 DEF Kinded
<1>5. Unsent(r, n)
  BY DEF Unsent
<1> QED
  BY <1>2, <1>3, <1>4, <1>5

\* A dispatch without a budget ends: no row yet.
LEMMA ObservedAlone ==
  ASSUME IInv, NEW r \in Requests \ Budgeted,
         NEW to \in {"answered", "post", "failed"}, NEW outcome, NEW kind,
         Observe(r, to, outcome, kind)
  PROVE  IInv'
<1>1. PICK k \in Views :
        /\ k = View(r) /\ Placed(r, k) /\ Trailed(r, k) /\ Kinded(r, k) /\ Unsent(r, k)
        /\ k.pc = pc[r]
  BY Seen
<1>2. k.pc = "wire" /\ pc' = [pc EXCEPT ![r] = to]
      /\ UNCHANGED <<world, route, local, trail, budget>>
  BY <1>1 DEF Observe, Go
<1>3. PICK c : Spends(r, c)
  BY <1>2 DEF Spends
<1>4. ASSUME NEW n \in Views, Moves(k, n, to)
      PROVE  /\ Placed(r, n) /\ Trailed(r, n) /\ Kinded(r, n) /\ Unsent(r, n)
             /\ r \in Budgeted => Counted(n, c) /\ Concluded(r, n, c)
  <2>1. Placed(r, n) /\ Unsent(r, n)
    BY <1>1, <1>2, <1>4 DEF Moves, Placed, Unsent
  <2>2. Trailed(r, n)
    BY <1>1, <1>2, <1>4 DEF Moves, Trailed
  <2>3. Kinded(r, n)
    BY <1>1, <1>2, <1>4 DEF Moves, Kinded, Accepting
  <2> QED
    BY <2>1, <2>2, <2>3
<1>5. to \in Stations
  BY DEF Stations
<1> QED
  BY <1>1, <1>2, <1>3, <1>4, <1>5, Told

\* A dispatch with a budget ends: its outcome is noted and its row written.
LEMMA ObservedBudgeted ==
  ASSUME IInv, NEW r \in Budgeted,
         NEW to \in {"answered", "again", "failed"}, NEW outcome \in Outcomes,
         NEW kind \in Dispatched, kind = "ok" <=> to = "answered",
         Observe(r, to, outcome, kind)
  PROVE  IInv'
<1>1. r \in Requests
  BY RouteAssumption
<1>2. PICK k \in Views :
        /\ k = View(r) /\ Placed(r, k) /\ Trailed(r, k) /\ Kinded(r, k) /\ Unsent(r, k)
        /\ k.pc = pc[r] /\ chain[r] \in Seq(Providers) /\ k.sent \in Nat
        /\ Counted(k, budget[r]) /\ Concluded(r, k, budget[r]) /\ budget[r] \in Budgets
  BY <1>1, Seen
<1>3. /\ k.pc = "wire" /\ pc' = [pc EXCEPT ![r] = to] /\ Record(r, kind)
      /\ UNCHANGED <<world, route, local>>
      /\ budget' = [budget EXCEPT ![r] = NoteOutcome(budget[r], budget[r].reserved, outcome)]
  BY <1>2 DEF Observe, Go
<1>4. PICK c \in Budgets :
        /\ c = NoteOutcome(budget[r], budget[r].reserved, outcome)
        /\ c.reserved = budget[r].reserved /\ c.terminal = budget[r].terminal
        /\ c.in_flight # "none"
  BY <1>2, Noted
<1>5. Spends(r, c)
  BY <1>3, <1>4 DEF Spends
<1>6. ASSUME NEW n \in Views, n.pc = to, n.route = k.route, n.tries = k.tries, n.sent = k.sent,
             Extended(k, n.trail, kind), Follows(n.trail), Covers(n.trail, k.route),
             Ends(n.trail, k.route)
      PROVE  /\ Placed(r, n) /\ Trailed(r, n) /\ Kinded(r, n) /\ Unsent(r, n)
             /\ r \in Budgeted => Counted(n, c) /\ Concluded(r, n, c)
  <2>1. ~Accepting(r, k) /\ (Accepting(r, n) <=> kind = "ok")
    BY <1>3, <1>6 DEF Accepting
  <2>2. Placed(r, n) /\ Trailed(r, n) /\ Kinded(r, n) /\ Unsent(r, n)
    BY <1>1, <1>2, <1>3, <1>6, <2>1, RowAdded
  <2>3. Counted(n, c)
    <3>1. /\ IsFiniteSet(DispatchRows(n.trail)) /\ Cardinality(DispatchRows(k.trail)) \in Nat
          /\ Cardinality(DispatchRows(n.trail)) = Cardinality(DispatchRows(k.trail)) + 1
      BY <1>2, <1>6, OneRowMore DEF Counted
    <3>2. Cardinality(DispatchRows(k.trail)) = k.sent - 1 /\ k.sent = budget[r].reserved
          /\ budget[r].reserved <= MaxAttempts
      BY <1>2, <1>3 DEF Counted
    <3>3. Cardinality(DispatchRows(n.trail)) = n.sent /\ n.pc # "wire"
      BY <1>2, <1>6, <3>1, <3>2
    <3>4. n.sent - 0 = n.sent
      BY <1>2, <1>6
    <3> QED
      BY <1>4, <1>6, <3>1, <3>2, <3>3, <3>4 DEF Counted
  <2>4. Concluded(r, n, c)
    BY <1>2, <1>3, <1>4, <1>6 DEF Concluded
  <2> QED
    BY <2>2, <2>3, <2>4
<1>7. to \in Stations /\ kind \in RowKinds
  BY DEF Stations, RowKinds
<1>8. Grows(r, k, to, kind, c)
  BY <1>6 DEF Grows
<1> QED
  BY <1>1, <1>2, <1>3, <1>5, <1>7, <1>8, Written

\* Every way a dispatch may end.
LEMMA Observed ==
  ASSUME IInv, NEW r \in Requests,
         Answer(r) \/ Blip(r) \/ Permanent(r) \/ Garbled(r) \/ Lost(r)
  PROVE  IInv'
<1>1. /\ r \in Budgeted => Retrying(r) = "again"
      /\ r \notin Budgeted => Retrying(r) \in {"post", "failed"}
  BY DEF Retrying
<1>2. PICK to \in {"answered", "failed", Retrying(r)}, outcome \in Outcomes,
           kind \in Dispatched :
        Observe(r, to, outcome, kind) /\ (kind = "ok" <=> to = "answered")
  <2>1. Retrying(r) # "answered" /\ \A w \in {"known", "unknown"} : w \in Outcomes
    BY <1>1 DEF Outcomes
  <2> QED
    BY <2>1 DEF Answer, Blip, Permanent, Garbled, Lost, Dispatched
<1>3. CASE r \in Budgeted
  BY <1>1, <1>2, <1>3, ObservedBudgeted
<1>4. CASE r \notin Budgeted
  BY <1>1, <1>2, <1>4, ObservedAlone
<1> QED
  BY <1>3, <1>4

\* The answer is accepted: the budget is told, or the call gets its row.
LEMMA Accepted ==
  ASSUME IInv, NEW r \in Requests, AcceptAnswer(r)
  PROVE  IInv'
<1>1. PICK k \in Views :
        /\ k = View(r) /\ Placed(r, k) /\ Trailed(r, k) /\ Kinded(r, k) /\ Unsent(r, k)
        /\ k.pc = pc[r] /\ chain[r] \in Seq(Providers)
        /\ r \in Budgeted =>
             Counted(k, budget[r]) /\ Concluded(r, k, budget[r]) /\ budget[r] \in Budgets
  BY Seen
<1>2. k.pc = "answered" /\ pc' = [pc EXCEPT ![r] = "usable"] /\ UNCHANGED <<world, route, local>>
  BY <1>1 DEF AcceptAnswer, Go
<1>3. "usable" \in Stations /\ "ok" \in RowKinds /\ "ok" \in Dispatched
      /\ "success" \in TERMINAL_REASONS
  BY DEF Stations, RowKinds, Dispatched, TERMINAL_REASONS
<1>4. CASE r \in Budgeted
  <2>1. budget' = [budget EXCEPT ![r] = Settle(budget[r], "success")] /\ UNCHANGED trail
    BY <1>4 DEF AcceptAnswer, MarkSuccess
  <2>2. PICK c \in Budgets :
          /\ c = Settle(budget[r], "success") /\ c.reserved = budget[r].reserved
          /\ c.terminal = IF budget[r].terminal = Open THEN "success" ELSE budget[r].terminal
    BY <1>1, <1>3, <1>4, Settling
  <2>3. Spends(r, c)
    BY <1>4, <2>1, <2>2 DEF Spends
  <2>4. ASSUME NEW n \in Views, Moves(k, n, "usable")
        PROVE  /\ Placed(r, n) /\ Trailed(r, n) /\ Kinded(r, n) /\ Unsent(r, n)
               /\ r \in Budgeted => Counted(n, c) /\ Concluded(r, n, c)
    <3>1. Placed(r, n) /\ Unsent(r, n)
      BY <1>1, <1>2, <2>4 DEF Moves, Placed, Unsent
    <3>2. Trailed(r, n)
      BY <1>1, <1>2, <2>4 DEF Moves, Trailed
    <3>3. Kinded(r, n)
      BY <1>1, <1>2, <1>4, <2>4 DEF Moves, Kinded, Accepting
    <3>4. Counted(n, c)
      BY <1>1, <1>2, <1>4, <2>2, <2>4 DEF Moves, Counted
    <3>5. CloseReasons \subseteq {"tests_failed", "cost_unknown"}
      BY RouteAssumption
    <3>6. Concluded(r, n, c)
      BY <1>1, <1>2, <1>4, <2>2, <2>4, <3>5 DEF Moves, Concluded, Open
    <3> QED
      BY <3>1, <3>2, <3>3, <3>4, <3>6
  <2> QED
    BY <1>1, <1>2, <1>3, <2>1, <2>3, <2>4, Told
<1>5. CASE r \notin Budgeted
  <2>1. Record(r, "ok") /\ UNCHANGED budget
    BY <1>5 DEF AcceptAnswer
  <2>2. PICK c \in Views : Spends(r, c)  \* no budget: any value will do
    BY <1>5, <2>1 DEF Spends
  <2>3. ASSUME NEW n \in Views, n.pc = "usable", n.route = k.route, n.tries = k.tries,
               n.sent = k.sent, Extended(k, n.trail, "ok"), Follows(n.trail),
               Covers(n.trail, k.route), Ends(n.trail, k.route)
        PROVE  /\ Placed(r, n) /\ Trailed(r, n) /\ Kinded(r, n) /\ Unsent(r, n)
               /\ r \in Budgeted => Counted(n, c) /\ Concluded(r, n, c)
    <3>1. ~Accepting(r, k) /\ Accepting(r, n)
      BY <1>2, <1>5, <2>3 DEF Accepting
    <3> QED
      BY <1>1, <1>2, <1>3, <1>5, <2>3, <3>1, RowAdded
  <2>4. Grows(r, k, "usable", "ok", c)
    BY <2>3 DEF Grows
  <2>5. /\ k = View(r) /\ pc' = [pc EXCEPT ![r] = "usable"] /\ Record(r, "ok")
        /\ UNCHANGED <<world, route, local>>
    BY <1>1, <1>2, <2>1
  <2> QED
    BY <1>3, <2>2, <2>4, <2>5, Written
<1> QED
  BY <1>4, <1>5

-----------------------------------------------------------------------------
\* Whose provider failed, or whose answer is rejected, goes on.
LEMMA WentOn ==
  ASSUME IInv, NEW r \in Requests, FailRoute(r) \/ RejectAnswer(r)
  PROVE  IInv'
<1>1. PICK k \in Views :
        /\ k = View(r) /\ Placed(r, k) /\ Trailed(r, k) /\ Kinded(r, k) /\ Unsent(r, k)
        /\ k.pc = pc[r] /\ k.route = route[r] /\ k.later = later[r]
        /\ k.tries = tries[r] /\ k.resent = resent[r] /\ k.trail = trail[r]
        /\ k.sent = sent[r]
        /\ k.route \in Nat /\ k.sent \in Nat /\ k.trail \in Seq(TrailRows)
        /\ chain[r] \in Seq(Providers)
        /\ r \in Budgeted =>
             Counted(k, budget[r]) /\ Concluded(r, k, budget[r]) /\ budget[r] \in Budgets
  BY Seen
<1>2. Typed
  BY DEF IInv
<1>3. /\ k.pc \in {"failed", "answered"} /\ pc' = [pc EXCEPT ![r] = "head"]
      /\ NextRoute(r) /\ UNCHANGED <<world, budget>>
  BY <1>1 DEF FailRoute, RejectAnswer, Go
<1>4. k.route <= Len(chain[r]) /\ k.route \in DOMAIN chain[r] /\ Eligible(Provider(r, k.route))
      /\ k.sent > 0 /\ DOMAIN k.trail = 1..Len(k.trail) /\ Len(k.trail) \in Nat
  <2>1. k.route <= Len(chain[r]) /\ k.route >= 1 /\ Eligible(Provider(r, k.route)) /\ k.sent > 0
    BY <1>1, <1>3 DEF Placed, Unsent
  <2> QED
    BY <1>1, <2>1
<1>5. PICK rows \in Seq(TrailRows) :
        /\ trail' = [trail EXCEPT ![r] = rows]
        /\ Follows(rows) /\ Covers(rows, k.route) /\ Ends(rows, k.route)
        /\ \A i \in DOMAIN rows : rows[i].kind \in Dispatched =>
             rows[i].route \in DOMAIN chain[r] /\ Eligible(Provider(r, rows[i].route))
        /\ \A i \in DOMAIN rows : rows[i].kind # "ok"
        /\ r \in Budgeted => DispatchRows(rows) = DispatchRows(k.trail)
  <2>1. CASE r \in Budgeted
    <3>1. Ends(k.trail, k.route)
      BY <1>1, <1>3, <2>1 DEF Trailed
    <3>2. Follows(k.trail) /\ Covers(k.trail, k.route)
      <4>1. Len(k.trail) \in DOMAIN k.trail
        BY <1>4, <3>1 DEF Ends
      <4>2. \A i \in 1..k.route : i = k.route \/ i \in 1..k.route - 1
        BY <1>1
      <4> QED
        BY <1>1, <3>1, <4>1, <4>2 DEF Trailed, Covers, Ends
    <3>3. CASE FailRoute(r)
      <4>1. trail' = [trail EXCEPT ![r] = k.trail]
        BY <1>1, <1>2, <2>1, <3>3, Unmoved DEF FailRoute
      <4>2. \A i \in DOMAIN k.trail : k.trail[i].kind # "ok"
        BY <1>1, <3>3 DEF FailRoute, Go, Kinded, Accepting
      <4>3. \A i \in DOMAIN k.trail : k.trail[i].kind \in Dispatched =>
              k.trail[i].route \in DOMAIN chain[r] /\ Eligible(Provider(r, k.trail[i].route))
        BY <1>1 DEF Kinded
      <4> QED
        BY <1>1, <3>1, <3>2, <4>1, <4>2, <4>3
    <3>4. CASE RejectAnswer(r)
      <4> DEFINE last == Len(k.trail)
                 row == [k.trail[last] EXCEPT !.kind = "failed"]
                 rows == [k.trail EXCEPT ![last] = row]
      <4>1. trail' = [trail EXCEPT ![r] = rows]
        BY <1>1, <2>1, <3>4 DEF RejectAnswer
      <4>2. last \in DOMAIN k.trail /\ k.trail[last] \in TrailRows
        BY <1>1, <1>4, <3>1 DEF Ends
      <4>3. row \in TrailRows /\ row.route = k.trail[last].route /\ row.kind = "failed"
        BY <4>2 DEF TrailRows, RowKinds, Dispatched
      <4>4. k.pc = "answered" /\ k.trail[last].kind = "ok"
        BY <1>1, <2>1, <3>4 DEF RejectAnswer, Go, Kinded, Accepting
      <4> HIDE DEF row
      <4>5. /\ rows \in Seq(TrailRows) /\ Len(rows) = last /\ DOMAIN rows = DOMAIN k.trail
            /\ rows[last] = row /\ \A i \in DOMAIN k.trail \ {last} : rows[i] = k.trail[i]
        <5>1. rows \in Seq(TrailRows) /\ Len(rows) = last
          BY <1>1, <4>3, Replaced
        <5> QED
          BY <1>1, <4>2, <5>1
      <4> HIDE DEF rows
      <4>6. \A i \in DOMAIN rows : rows[i].route = k.trail[i].route
        BY <4>3, <4>5
      <4>7. \A i \in DOMAIN rows : rows[i].kind # "ok"
        BY <1>1, <4>3, <4>5 DEF Kinded
      <4>8. Covers(rows, k.route) /\ Ends(rows, k.route)
        <5>1. rows # << >>
          BY <4>2, <4>5
        <5> QED
          BY <3>1, <3>2, <4>2, <4>5, <4>6, <5>1 DEF Covers, Ends
      <4>9. Follows(rows)
        <5>1. \A i \in 1..last - 1 : i \in DOMAIN rows /\ i + 1 \in DOMAIN rows
          BY <1>4, <4>5
        <5> QED
          BY <3>2, <4>5, <4>6, <5>1 DEF Follows
      <4>10. DispatchRows(rows) = DispatchRows(k.trail)
        BY <4>2, <4>3, <4>4, <4>5 DEF DispatchRows, Dispatched
      <4>11. \A i \in DOMAIN rows : rows[i].kind \in Dispatched =>
               rows[i].route \in DOMAIN chain[r] /\ Eligible(Provider(r, rows[i].route))
        BY <1>1, <4>4, <4>5, <4>6, <4>10 DEF Kinded, DispatchRows
      <4> QED
        BY <4>1, <4>5, <4>7, <4>8, <4>9, <4>10, <4>11
    <3> QED
      BY <3>3, <3>4
  <2>2. CASE r \notin Budgeted
    <3>1. "failed" \in RowKinds /\ "failed" # "ok"
      BY DEF RowKinds, Dispatched
    <3>2. PICK rows \in Seq(TrailRows) :
            /\ rows = Append(k.trail, [route |-> k.route, kind |-> "failed"])
            /\ Extended(k, rows, "failed")
      BY <3>1, NewRow
    <3>3. trail' = [trail EXCEPT ![r] = rows]
      BY <1>1, <2>2, <3>2 DEF FailRoute, RejectAnswer, Record, Row
    <3>4. Follows(rows) /\ Covers(rows, k.route) /\ Ends(rows, k.route)
      BY <1>1, <3>2, ExtendedInStep DEF Good
    <3>5. \A i \in DOMAIN rows : i = Len(k.trail) + 1 \/ (i \in DOMAIN k.trail /\ rows[i] = k.trail[i])
      BY <3>2 DEF Extended
    <3>6. rows[Len(k.trail) + 1].route = k.route /\ rows[Len(k.trail) + 1].kind = "failed"
      BY <3>2 DEF Extended
    <3>7. \A i \in DOMAIN rows : rows[i].kind # "ok"
      BY <1>1, <1>3, <2>2, <3>5, <3>6 DEF Kinded, Accepting
    <3>8. \A i \in DOMAIN rows : rows[i].kind \in Dispatched =>
            rows[i].route \in DOMAIN chain[r] /\ Eligible(Provider(r, rows[i].route))
      BY <1>1, <1>4, <3>5, <3>6 DEF Kinded
    <3> QED
      BY <2>2, <3>3, <3>4, <3>7, <3>8
  <2> QED
    BY <2>1, <2>2
<1>6. PICK n \in Views :
        /\ n.pc = "head" /\ n.route = k.route + 1 /\ n.later = 0 /\ n.tries = 0
        /\ n.resent = FALSE /\ n.trail = rows /\ n.sent = k.sent
  <2> DEFINE n == [pc |-> "head", route |-> k.route + 1, later |-> 0, tries |-> 0,
                   resent |-> FALSE, trail |-> rows, sent |-> k.sent]
  <2>1. n \in Views
    BY <1>1 DEF Views, Stations
  <2> QED
    BY <2>1
<1>7. Becomes(r, n)
  <2>1. /\ route' = [route EXCEPT ![r] = n.route] /\ later' = [later EXCEPT ![r] = n.later]
        /\ tries' = [tries EXCEPT ![r] = n.tries] /\ resent' = [resent EXCEPT ![r] = n.resent]
        /\ sent' = sent
    BY <1>1, <1>2, <1>3, <1>6 DEF NextRoute, Typed
  <2> QED
    BY <1>1, <1>2, <1>3, <1>5, <1>6, <2>1, Unmoved DEF Becomes
<1>8. Good(r, n)
  <2>1. k.sent # 0
    BY <1>1, <1>4
  <2>2. Good(r, k)
    BY <1>1 DEF Good
  <2> QED
    BY <1>1, <1>4, <1>5, <1>6, <2>1, <2>2, GoesOn
<1>9. r \in Budgeted => Kept(r, n, budget[r])
  <2> SUFFICES ASSUME r \in Budgeted
               PROVE  Counted(n, budget[r]) /\ Concluded(r, n, budget[r])
    BY DEF Kept
  <2>1. Counted(n, budget[r])
    BY <1>1, <1>3, <1>5, <1>6 DEF Counted
  <2>2. CloseReasons \subseteq {"tests_failed", "cost_unknown"}
    BY RouteAssumption
  <2>3. budget[r].terminal \notin {"provider_unavailable", "success", "policy_blocked"}
    BY <1>1, <1>3, <2>2 DEF Concluded, Open
  <2>4. Concluded(r, n, budget[r])
    BY <1>6, <2>3 DEF Concluded
  <2> QED
    BY <2>1, <2>4
<1> QED
  BY <1>2, <1>3, <1>6, <1>7, <1>8, <1>9, Framed DEF Typed, world

\* Cooldowns lapse and time passes without any request noticing.
LEMMA Elapsed ==
  ASSUME IInv, CooldownLapse \/ Tick \/ UNCHANGED vars
  PROVE  IInv'
<1>1. UNCHANGED <<chain, armed, budget, pc, route, later, tries, resent, trail, sent>> /\ now' \in Nat
  BY DEF IInv, Typed, CooldownLapse, Tick, vars, world, local
<1>2. Typed'
  BY <1>1 DEF IInv, Typed
<1>3. /\ \A d, i : Provider(d, i)' = Provider(d, i)
      /\ \A p : Eligible(p)' <=> Eligible(p)
  BY <1>1 DEF Provider, Eligible
<1>4. \A d : EligibleRoutes(d)' = EligibleRoutes(d)
  BY <1>1, <1>3 DEF EligibleRoutes
<1>5. ASSUME NEW r \in Requests
      PROVE  Good(r, View(r))' /\ (r \in Budgeted => Kept(r, View(r), budget[r])')
  <2>1. View(r)' = View(r)
    BY <1>1 DEF View
  <2>2. PICK w : w = View(r) /\ Good(r, w) /\ (r \in Budgeted => Kept(r, w, budget[r]))
    BY DEF IInv
  <2>3. Good(r, w)'
    <3>1. Placed(r, w)'
      BY <1>1, <1>3, <2>2 DEF Good, Placed
    <3>2. Trailed(r, w)'
      BY <2>2 DEF Good, Trailed, Ends, Follows, Covers
    <3>3. Kinded(r, w)'
      BY <1>1, <1>3, <2>2 DEF Good, Kinded, Accepting, Ends
    <3>4. Unsent(r, w)'
      BY <1>4, <2>2 DEF Good, Unsent
    <3> QED
      BY <3>1, <3>2, <3>3, <3>4 DEF Good
  <2>4. r \in Budgeted => \A b : b = budget[r] => Kept(r, w, b)'
    BY <1>1, <1>4, <2>2 DEF Kept, Counted, Concluded, DispatchRows
  <2> QED
    BY <1>1, <2>1, <2>2, <2>3, <2>4
<1> QED
  BY <1>2, <1>5 DEF IInv

-----------------------------------------------------------------------------
LEMMA Started ==
  ASSUME Init
  PROVE  IInv
<1>1. chain \in [Requests -> Seq(Providers)]
  <2>1. \A r \in Requests : chain[r] \in Seq(Providers)
    BY RouteAssumption DEF Init
  <2>2. chain = [r \in Requests |-> chain[r]]
    BY DEF Init
  <2> QED
    BY <2>1, <2>2
<1>2. \A r \in Budgeted : budget[r] \in Budgets
  <2>1. NewBudget(MaxAttempts, Deadline) \in Budgets
    BY DEF NewBudget, Budgets, BudgetStates, Open, Outcomes
  <2> QED
    BY <2>1 DEF Init
<1>3. Typed
  BY <1>1, <1>2 DEF Init, Typed, Stations
<1>4. ASSUME NEW r \in Requests
      PROVE  Good(r, View(r)) /\ (r \in Budgeted => Kept(r, View(r), budget[r]))
  <2>1. PICK v \in Views :
          /\ v = View(r) /\ v.pc = "head" /\ v.route = 1 /\ v.tries = 0 /\ v.trail = << >>
          /\ v.sent = 0
    BY <1>3, ViewOf DEF Init
  <2>2. chain[r] \in Seq(Providers) /\ Len(chain[r]) \in Nat
    BY <1>1
  <2>3. Placed(r, v)
    BY <2>1, <2>2 DEF Placed
  <2>4. Trailed(r, v)
    BY <2>1 DEF Trailed, Follows, Covers
  <2>5. Kinded(r, v)
    BY <2>1 DEF Kinded, Accepting
  <2>6. Unsent(r, v)
    <3>1. \A i \in EligibleRoutes(r) : i \in Nat /\ i >= 1
      BY <2>2 DEF EligibleRoutes
    <3> QED
      BY <2>1, <3>1 DEF Unsent
  <2>7. r \in Budgeted => Kept(r, v, budget[r])
    <3> SUFFICES ASSUME r \in Budgeted
                 PROVE  Kept(r, v, budget[r])
      OBVIOUS
    <3>1. /\ budget[r].reserved = 0 /\ budget[r].terminal = Open
          /\ budget[r].in_flight = "none"
      BY DEF Init, NewBudget
    <3>2. DispatchRows(v.trail) = {} /\ IsFiniteSet({}) /\ Cardinality({}) = 0
      BY <2>1, FS_EmptySet DEF DispatchRows
    <3>3. Counted(v, budget[r])
      <4>1. /\ IsFiniteSet(DispatchRows(v.trail)) /\ Cardinality(DispatchRows(v.trail)) = 0
            /\ 0 <= MaxAttempts /\ 0 - 0 = 0
        BY <3>2, RouteAssumption
      <4> QED
        BY <2>1, <3>1, <4>1 DEF Counted
    <3>4. Concluded(r, v, budget[r])
      BY <2>1, <3>1 DEF Concluded, Open
    <3> QED
      BY <3>3, <3>4 DEF Kept
  <2> QED
    BY <2>1, <2>3, <2>4, <2>5, <2>6, <2>7 DEF Good
<1> QED
  BY <1>3, <1>4 DEF IInv

LEMMA Stepped ==
  ASSUME IInv, [Next]_vars
  PROVE  IInv'
<1>1. ASSUME NEW r \in Requests, RequestStep(r)
      PROVE  IInv'
  <2>1. CASE PassOver(r) \/ SkipCooled(r)
    BY <2>1, Passed
  <2>2. CASE TakeWarm(r) \/ FindCooled(r) \/ LookFurther(r) \/ TakeCooled(r)
    BY <2>2, Looked
  <2>3. CASE Post(r) \/ PostBudgeted(r) \/ HiddenResend(r)
    BY <2>3, Sent
  <2>4. CASE ReserveRefused(r) \/ Retry(r)
    BY <2>4, Decided
  <2>5. CASE Answer(r) \/ Blip(r) \/ Permanent(r) \/ Garbled(r) \/ Lost(r)
    BY <2>5, Observed
  <2>6. CASE FailRoute(r) \/ RejectAnswer(r)
    BY <2>6, WentOn
  <2>7. CASE AcceptAnswer(r)
    BY <2>7, Accepted
  <2>8. CASE Serve(r)
    BY <2>8, Served
  <2>9. CASE Raise(r)
    BY <2>9, Raised
  <2> QED
    BY <1>1, <2>1, <2>2, <2>3, <2>4, <2>5, <2>6, <2>7, <2>8, <2>9 DEF RequestStep
<1>2. ASSUME NEW r \in Budgeted, Controller(r)
      PROVE  IInv'
  BY <1>2, Steered
<1>3. CASE CooldownLapse \/ Tick \/ UNCHANGED vars
  BY <1>3, Elapsed
<1> QED
  BY <1>1, <1>2, <1>3 DEF Next

-----------------------------------------------------------------------------
\* chat() always stays within the invariant: every request keeps its place in
\* its chain, its trail and its budget in agreement.
THEOREM Invariance == Spec => []IInv
<1>1. Init => IInv
  BY Started
<1>2. IInv /\ [Next]_vars => IInv'
  BY Stepped
<1> QED
  BY <1>1, <1>2, PTL DEF Spec

\* The trail of a budgeted request lists exactly what it sent, and the budget
\* counts it: retries, refusals, corrected rows and cancellations never make
\* them drift apart.
THEOREM TrailCounted == Spec => []TrailMatchesSends
<1>1. IInv => TrailMatchesSends
  <2> SUFFICES ASSUME IInv, NEW r \in Budgeted
               PROVE  /\ sent[r] = budget[r].reserved
                      /\ Cardinality(Rows(r, Dispatched)) =
                           sent[r] - (IF pc[r] = "wire" THEN 1 ELSE 0)
    BY DEF TrailMatchesSends
  <2>1. PICK k \in Views :
          /\ k.pc = pc[r] /\ k.trail = trail[r] /\ k.sent = sent[r] /\ Counted(k, budget[r])
    BY Seen, RouteAssumption
  <2>2. Rows(r, Dispatched) = DispatchRows(k.trail)
    BY <2>1 DEF Rows, DispatchRows
  <2> QED
    BY <2>1, <2>2 DEF Counted
<1> QED
  BY <1>1, Invariance, PTL

\* The rows follow the chain, none of the routes left behind is missing, and an
\* unbudgeted request that raises accounts for every route.
THEOREM NoRouteMissing == Spec => []TrailComplete
<1>1. IInv => TrailComplete
  <2> SUFFICES ASSUME IInv, NEW r \in Requests
               PROVE  /\ \A k \in 1..Len(trail[r]) - 1 :
                           trail[r][k + 1].route \in {trail[r][k].route, trail[r][k].route + 1}
                      /\ \A i \in 1..route[r] - 1 :
                           \E k \in DOMAIN trail[r] : trail[r][k].route = i
                      /\ pc[r] = "raised" /\ r \notin Budgeted => route[r] = Len(chain[r]) + 1
    BY DEF TrailComplete
  <2>1. PICK k \in Views :
          /\ k.pc = pc[r] /\ k.trail = trail[r] /\ k.route = route[r]
          /\ Placed(r, k) /\ Trailed(r, k)
    BY Seen
  <2> QED
    BY <2>1 DEF Placed, Trailed, Follows, Covers
<1> QED
  BY <1>1, Invariance, PTL

\* Only armed sovereign providers are ever dispatched to, and a served answer
\* is the last row of the trail and the only one marked ok.
THEOREM HonestlyServed == Spec => []ServedHonestly
<1>1. IInv => ServedHonestly
  <2> SUFFICES ASSUME IInv, NEW r \in Requests
               PROVE  /\ \A k \in Rows(r, Dispatched) :
                           Eligible(Provider(r, trail[r][k].route))
                      /\ pc[r] = "served" =>
                           /\ Rows(r, {"ok"}) = {Len(trail[r])}
                           /\ trail[r][Len(trail[r])].route = route[r]
                      /\ pc[r] = "raised" => Rows(r, {"ok"}) = {}
    BY DEF ServedHonestly, Eligible
  <2>1. PICK k \in Views :
          /\ k.pc = pc[r] /\ k.trail = trail[r] /\ k.route = route[r] /\ Kinded(r, k)
          /\ k.trail \in Seq(TrailRows)
    BY Seen
  <2>2. \A i \in Rows(r, Dispatched) : Eligible(Provider(r, trail[r][i].route))
    BY <2>1 DEF Rows, Kinded
  <2>3. ASSUME pc[r] = "served"
        PROVE  /\ Rows(r, {"ok"}) = {Len(trail[r])}
               /\ trail[r][Len(trail[r])].route = route[r]
    <3>1. Ends(k.trail, k.route) /\ k.trail[Len(k.trail)].kind = "ok"
      BY <2>1, <2>3 DEF Kinded, Accepting
    <3>2. Len(k.trail) \in DOMAIN k.trail
      BY <2>1, <3>1 DEF Ends
    <3> QED
      BY <2>1, <3>1, <3>2 DEF Rows, Kinded, Ends
  <2>4. pc[r] = "raised" => Rows(r, {"ok"}) = {}
    BY <2>1 DEF Rows, Kinded, Accepting
  <2> QED
    BY <2>2, <2>3, <2>4
<1> QED
  BY <1>1, Invariance, PTL

\* With an eligible route in its chain a request never raises before it has
\* dispatched to one, unless its budget stopped it, however the cooldowns move.
THEOREM TriesBeforeRefusing == Spec => []NeverRefusesSilently
<1>1. IInv => NeverRefusesSilently
  <2> SUFFICES ASSUME IInv, NEW r \in Requests, pc[r] = "raised", EligibleRoutes(r) # {},
                      r \in Budgeted => budget[r].terminal = "provider_unavailable"
               PROVE  sent[r] > 0
    BY DEF NeverRefusesSilently
  <2>1. PICK k \in Views :
          /\ k.pc = pc[r] /\ k.route = route[r] /\ k.sent = sent[r]
          /\ Placed(r, k) /\ Unsent(r, k) /\ k.sent \in Nat
          /\ chain[r] \in Seq(Providers) /\ Len(chain[r]) \in Nat
          /\ r \in Budgeted => Concluded(r, k, budget[r])
    BY Seen
  <2>2. CASE r \in Budgeted
    BY <2>1, <2>2 DEF Concluded
  <2>3. CASE r \notin Budgeted
    <3>1. k.route = Len(chain[r]) + 1
      BY <2>1, <2>3 DEF Placed
    <3>2. EligibleRoutes(r) \subseteq 1..Len(chain[r])
      BY <2>1 DEF EligibleRoutes
    <3>3. SUFFICES ASSUME k.sent = 0
                   PROVE  FALSE
      BY <2>1
    <3>4. PICK i \in EligibleRoutes(r) : i < k.route
      BY <2>1, <3>1, <3>2
    <3>5. PICK j \in EligibleRoutes(r) : j >= k.route
      BY <2>1, <3>3, <3>4 DEF Unsent
    <3> QED
      BY <2>1, <3>1, <3>2, <3>5
  <2> QED
    BY <2>2, <2>3
<1> QED
  BY <1>1, Invariance, PTL

\* However a controller, the retries and the request interleave, the terminal
\* reason of a budget tells how its request ended.
THEOREM BudgetTellsTheEnd == Spec => []EndAgreesWithBudget
<1>1. IInv => EndAgreesWithBudget
  <2> SUFFICES ASSUME IInv, NEW r \in Budgeted
               PROVE  /\ pc[r] = "raised" => budget[r].terminal \notin {Open, "success"}
                      /\ pc[r] = "served" => budget[r].terminal \in {"success"} \cup CloseReasons
                      /\ budget[r].terminal = "policy_blocked" =>
                           /\ sent[r] = 0 /\ Len(trail[r]) = Len(chain[r])
                           /\ Rows(r, {"pricing"}) = DOMAIN trail[r]
    BY DEF EndAgreesWithBudget
  <2>1. PICK k \in Views :
          /\ k.pc = pc[r] /\ k.trail = trail[r] /\ k.sent = sent[r]
          /\ Concluded(r, k, budget[r])
    BY Seen, RouteAssumption
  <2> QED
    BY <2>1 DEF Concluded, Rows
<1> QED
  BY <1>1, Invariance, PTL

-----------------------------------------------------------------------------
(* How much an unbudgeted request sends: RetryMax dispatches on each       *)
(* eligible route behind it, and its tries on this one, each doubled at    *)
(* most once.                                                              *)

Tried(r, n) == {i \in EligibleRoutes(r) : i < n}
Room(n) == 2 * RetryMax * n
Owed(r) == IF pc[r] = "wire" /\ ~resent[r] THEN 1 ELSE 0

Paced(r) ==
  /\ tries[r] <= RetryMax /\ pc[r] # "again"
  /\ pc[r] = "post" => tries[r] < RetryMax
  /\ pc[r] = "raised" => tries[r] = 0
  /\ sent[r] + Owed(r) <= Room(Cardinality(Tried(r, route[r]))) + 2 * tries[r]

LEMMA MoreRoom ==
  ASSUME NEW n \in Nat, NEW m \in Nat
  PROVE  /\ Room(n) \in Nat /\ Room(n + 1) = Room(n) + 2 * RetryMax
         /\ n <= m => Room(n) <= Room(m)
<1>1. PICK w \in Nat : w = 2 * RetryMax
  BY RouteAssumption
<1>2. Room(n) = w * n /\ Room(n + 1) = w * (n + 1) /\ Room(m) = w * m
  BY <1>1 DEF Room
<1>3. w * (n + 1) = w * n + w /\ w * n \in Nat
  BY <1>1
<1>4. ASSUME n <= m
      PROVE  w * n <= w * m
  <2>1. PICK e \in Nat : m = n + e
    <3>1. m - n \in Nat /\ m = n + (m - n)
      BY <1>4
    <3> QED
      BY <3>1
  <2>2. w * m = w * n + w * e /\ w * e \in Nat /\ w * n \in Nat
    BY <2>1
  <2> QED
    BY <2>2
<1> QED
  BY <1>1, <1>2, <1>3, <1>4

LEMMA TriedFinite ==
  ASSUME NEW r \in Requests, chain[r] \in Seq(Providers), NEW n \in Nat
  PROVE  /\ IsFiniteSet(EligibleRoutes(r)) /\ Cardinality(EligibleRoutes(r)) \in Nat
         /\ Cardinality(Tried(r, n)) \in Nat /\ Cardinality(Tried(r, n + 1)) \in Nat
         /\ Cardinality(Tried(r, n)) <= Cardinality(Tried(r, n + 1))
         /\ Cardinality(Tried(r, n)) <= Cardinality(EligibleRoutes(r))
         /\ n \in EligibleRoutes(r) =>
              /\ Cardinality(Tried(r, n + 1)) = Cardinality(Tried(r, n)) + 1
              /\ Cardinality(Tried(r, n + 1)) <= Cardinality(EligibleRoutes(r))
<1>1. DOMAIN chain[r] = 1..Len(chain[r]) /\ Len(chain[r]) \in Nat
  OBVIOUS
<1>2. IsFiniteSet(1..Len(chain[r])) /\ EligibleRoutes(r) \subseteq 1..Len(chain[r])
  BY <1>1, FS_Interval DEF EligibleRoutes
<1>3. IsFiniteSet(EligibleRoutes(r))
  BY <1>2, FS_Subset
<1>4. /\ Tried(r, n) \subseteq Tried(r, n + 1) /\ Tried(r, n + 1) \subseteq EligibleRoutes(r)
      /\ n \notin Tried(r, n)
  BY <1>2 DEF Tried
<1>5. IsFiniteSet(Tried(r, n + 1)) /\ IsFiniteSet(Tried(r, n))
  BY <1>3, <1>4, FS_Subset
<1>6. /\ Cardinality(Tried(r, n + 1)) <= Cardinality(EligibleRoutes(r))
      /\ Cardinality(Tried(r, n)) <= Cardinality(Tried(r, n + 1))
  BY <1>3, <1>4, <1>5, FS_Subset
<1>7. /\ Cardinality(EligibleRoutes(r)) \in Nat /\ Cardinality(Tried(r, n)) \in Nat
      /\ Cardinality(Tried(r, n + 1)) \in Nat
  BY <1>3, <1>5, FS_CardinalityType
<1>8. n \in EligibleRoutes(r) => Cardinality(Tried(r, n + 1)) = Cardinality(Tried(r, n)) + 1
  <2> SUFFICES ASSUME n \in EligibleRoutes(r)
               PROVE  Cardinality(Tried(r, n + 1)) = Cardinality(Tried(r, n)) + 1
    OBVIOUS
  <2>1. Tried(r, n + 1) = Tried(r, n) \cup {n}
    BY <1>2 DEF Tried
  <2> QED
    BY <1>4, <1>5, <2>1, FS_AddElement
<1> QED
  BY <1>3, <1>6, <1>7, <1>8

\* A step of r is r's alone.
LEMMA OwnStep ==
  ASSUME Typed, NEW r \in Requests, RequestStep(r), NEW d \in Requests \ {r}
  PROVE  /\ pc'[d] = pc[d] /\ route'[d] = route[d] /\ tries'[d] = tries[d]
         /\ resent'[d] = resent[d] /\ sent'[d] = sent[d]
<1> USE DEF Typed, Go, local
<1>1. CASE PassOver(r) \/ SkipCooled(r) \/ FailRoute(r) \/ RejectAnswer(r)
  BY <1>1 DEF PassOver, SkipCooled, FailRoute, RejectAnswer, NextRoute
<1>2. CASE TakeWarm(r) \/ FindCooled(r) \/ LookFurther(r) \/ TakeCooled(r)
  BY <1>2 DEF TakeWarm, FindCooled, LookFurther, TakeCooled
<1>3. CASE Post(r) \/ PostBudgeted(r) \/ HiddenResend(r) \/ ReserveRefused(r) \/ Retry(r)
  BY <1>3 DEF Post, PostBudgeted, HiddenResend, Put, ReserveRefused, Retry
<1>4. CASE Answer(r) \/ Blip(r) \/ Permanent(r) \/ Garbled(r) \/ Lost(r)
  BY <1>4 DEF Answer, Blip, Permanent, Garbled, Lost, Observe
<1>5. CASE AcceptAnswer(r) \/ Serve(r) \/ Raise(r)
  BY <1>5 DEF AcceptAnswer, Serve, Raise
<1> QED
  BY <1>1, <1>2, <1>3, <1>4, <1>5 DEF RequestStep

\* Nobody changes what is armed, or a chain.
LEMMA SameWorld ==
  ASSUME [Next]_vars
  PROVE  chain' = chain /\ armed' = armed
<1>1. ASSUME NEW r \in Requests, RequestStep(r)
      PROVE  chain' = chain /\ armed' = armed
  BY <1>1 DEF RequestStep, PassOver, SkipCooled, FailRoute, RejectAnswer, TakeWarm, FindCooled,
     LookFurther, TakeCooled, Post, PostBudgeted, HiddenResend, ReserveRefused, Retry, Answer,
     Blip, Permanent, Garbled, Lost, Observe, AcceptAnswer, Serve, Raise, world
<1>2. ASSUME NEW r \in Budgeted, Controller(r)
      PROVE  chain' = chain /\ armed' = armed
  BY <1>2 DEF Controller, world
<1>3. CASE CooldownLapse \/ Tick \/ UNCHANGED vars
  BY <1>3 DEF CooldownLapse, Tick, vars, world
<1> QED
  BY <1>1, <1>2, <1>3 DEF Next

\* An unbudgeted request stays within its room.
LEMMA KeepsPace ==
  ASSUME IInv, NEW r \in Requests \ Budgeted, Paced(r), RequestStep(r),
         chain' = chain, armed' = armed
  PROVE  Paced(r)'
<1>1. PICK k \in Views :
        /\ Placed(r, k) /\ k.pc = pc[r] /\ k.route = route[r] /\ k.tries = tries[r]
        /\ k.sent = sent[r] /\ k.route \in Nat /\ k.tries \in Nat /\ k.sent \in Nat
        /\ chain[r] \in Seq(Providers) /\ Len(chain[r]) \in Nat
  BY Seen
<1>2. Typed /\ RetryMax \in Nat /\ RetryMax > 0 /\ resent[r] \in BOOLEAN
  BY RouteAssumption DEF IInv, Typed
<1>3. \A n : Tried(r, n)' = Tried(r, n)
  BY DEF Tried, EligibleRoutes, Eligible, Provider
<1>4. PICK room \in Nat : room = Room(Cardinality(Tried(r, k.route)))
  BY <1>1, TriedFinite, MoreRoom
<1>5. /\ k.tries <= RetryMax /\ k.pc # "again" /\ (k.pc = "post" => k.tries < RetryMax)
      /\ k.sent + Owed(r) <= room + 2 * k.tries
  BY <1>1, <1>4 DEF Paced
<1>6. Owed(r) \in {0, 1} /\ (Owed(r) = 1 <=> k.pc = "wire" /\ ~resent[r])
  BY <1>1 DEF Owed
<1>7. Owed(r)' = IF pc'[r] = "wire" /\ ~resent'[r] THEN 1 ELSE 0
  BY DEF Owed
<1>8. CASE PassOver(r) \/ SkipCooled(r) \/ FailRoute(r) \/ RejectAnswer(r)
  <2>1. /\ pc'[r] = "head" /\ route'[r] = k.route + 1 /\ tries'[r] = 0 /\ sent'[r] = k.sent
        /\ k.pc \in {"head", "cooled", "failed", "answered"}
    BY <1>1, <1>2, <1>8 DEF PassOver, SkipCooled, FailRoute, RejectAnswer, NextRoute, Go,
       AtRoute, Typed
  <2>2. k.tries = 0 \/ k.route \in EligibleRoutes(r)
    BY <1>1, <2>1 DEF Placed, EligibleRoutes
  <2>3. PICK more \in Nat :
          /\ more = Room(Cardinality(Tried(r, k.route + 1))) /\ room <= more
          /\ k.route \in EligibleRoutes(r) => more = room + 2 * RetryMax
    <3>1. /\ Cardinality(Tried(r, k.route)) \in Nat /\ Cardinality(Tried(r, k.route + 1)) \in Nat
          /\ Cardinality(Tried(r, k.route)) <= Cardinality(Tried(r, k.route + 1))
          /\ k.route \in EligibleRoutes(r) =>
               Cardinality(Tried(r, k.route + 1)) = Cardinality(Tried(r, k.route)) + 1
      BY <1>1, TriedFinite
    <3> QED
      BY <1>4, <3>1, MoreRoom
  <2>4. k.sent <= more
    <3>1. k.sent <= room + 2 * k.tries /\ k.tries <= RetryMax
      BY <1>1, <1>5, <1>6, <2>1
    <3>2. CASE k.tries = 0
      BY <1>1, <2>3, <3>1, <3>2
    <3>3. CASE k.route \in EligibleRoutes(r)
      BY <1>1, <1>2, <2>3, <3>1, <3>3
    <3> QED
      BY <2>2, <3>2, <3>3
  <2>5. Owed(r)' = 0
    BY <1>7, <2>1
  <2> QED
    BY <1>1, <1>2, <1>3, <2>1, <2>3, <2>4, <2>5 DEF Paced, Room
<1>9. CASE Post(r) \/ HiddenResend(r)
  <2>1. /\ pc'[r] = "wire" /\ route'[r] = k.route /\ sent'[r] = k.sent + 1
        /\ \/ k.pc = "post" /\ tries'[r] = k.tries + 1 /\ resent'[r] = FALSE
           \/ k.pc = "wire" /\ ~resent[r] /\ tries'[r] = k.tries /\ resent'[r] = TRUE
    BY <1>1, <1>2, <1>9 DEF Post, HiddenResend, Put, Go, Typed
  <2>2. sent'[r] + Owed(r)' <= room + 2 * tries'[r] /\ tries'[r] <= RetryMax
    <3>1. CASE k.pc = "post"
      BY <1>1, <1>2, <1>5, <1>6, <1>7, <2>1, <3>1
    <3>2. CASE k.pc = "wire"
      BY <1>1, <1>2, <1>5, <1>6, <1>7, <2>1, <3>2
    <3> QED
      BY <2>1, <3>1, <3>2
  <2> QED
    BY <1>3, <1>4, <2>1, <2>2 DEF Paced, Room
<1>10. ASSUME NEW to, pc'[r] = to, route'[r] = k.route, tries'[r] = k.tries, sent'[r] = k.sent,
              to # "wire", to # "again", to = "post" => k.tries < RetryMax,
              to = "raised" => k.tries = 0
       PROVE  Paced(r)'
  <2>1. Owed(r)' = 0 /\ k.sent <= room + 2 * k.tries
    BY <1>1, <1>5, <1>6, <1>7, <1>10
  <2> QED
    BY <1>1, <1>3, <1>4, <1>5, <1>10, <2>1 DEF Paced, Room
<1>11. CASE TakeWarm(r) \/ FindCooled(r) \/ LookFurther(r) \/ TakeCooled(r)
  <2>1. /\ route'[r] = k.route /\ tries'[r] = k.tries /\ sent'[r] = k.sent
        /\ pc'[r] \in {"post", "cooled"} /\ k.pc \in {"head", "cooled"}
    BY <1>1, <1>2, <1>11 DEF TakeWarm, FindCooled, LookFurther, TakeCooled, AtRoute, Go, local,
       Typed
  <2>2. k.tries < RetryMax
    BY <1>1, <1>2, <2>1 DEF Placed
  <2> QED
    BY <1>10, <2>1, <2>2
<1>12. CASE Answer(r) \/ Blip(r) \/ Permanent(r) \/ Garbled(r) \/ Lost(r)
  <2>1. /\ route'[r] = k.route /\ tries'[r] = k.tries /\ sent'[r] = k.sent
        /\ pc'[r] \in {"answered", "failed", Retrying(r)}
    BY <1>1, <1>2, <1>12 DEF Answer, Blip, Permanent, Garbled, Lost, Observe, Go, local, Typed
  <2>2. Retrying(r) \in {"post", "failed"} /\ (Retrying(r) = "post" => k.tries < RetryMax)
    BY <1>1 DEF Retrying
  <2> QED
    BY <1>10, <2>1, <2>2
<1>13. CASE AcceptAnswer(r) \/ Serve(r) \/ Raise(r)
  <2>1. /\ route'[r] = k.route /\ tries'[r] = k.tries /\ sent'[r] = k.sent
        /\ pc'[r] \in {"usable", "served", "raised"} /\ (pc'[r] = "raised" => k.pc = "head")
    BY <1>1, <1>2, <1>13 DEF AcceptAnswer, Serve, Raise, Go, local, Typed
  <2>2. k.pc = "head" => k.tries = 0
    BY <1>1 DEF Placed
  <2> QED
    BY <1>10, <2>1, <2>2
<1>14. ~PostBudgeted(r) /\ ~ReserveRefused(r) /\ ~Retry(r)
  <2>1. ~Retry(r)
    BY <1>1, <1>5 DEF Retry, Go
  <2> QED
    BY <2>1 DEF PostBudgeted, ReserveRefused
<1> QED
  BY <1>8, <1>9, <1>11, <1>12, <1>13, <1>14 DEF RequestStep

\* A request sends at most RetryMax times to each eligible route, each doubled
\* at most once by the pool's own resend; with a budget, at most its ceiling.
THEOREM SendingBounded == Spec => []SendsBounded
<1> DEFINE Pace == \A r \in Requests \ Budgeted : Paced(r)
<1>1. Init => Pace
  <2> SUFFICES ASSUME Init, NEW r \in Requests \ Budgeted
               PROVE  Paced(r)
    OBVIOUS
  <2>1. IInv
    BY Started
  <2>2. PICK n \in Nat : n = Room(Cardinality(Tried(r, route[r])))
    <3>1. chain[r] \in Seq(Providers) /\ route[r] \in Nat
      BY <2>1 DEF IInv, Typed
    <3> QED
      BY <3>1, TriedFinite, MoreRoom
  <2> QED
    BY <2>2, RouteAssumption DEF Init, Paced, Owed
<1>2. IInv /\ Pace /\ [Next]_vars => Pace'
  <2> SUFFICES ASSUME IInv, Pace, [Next]_vars, NEW d \in Requests \ Budgeted
               PROVE  Paced(d)'
    OBVIOUS
  <2>1. chain' = chain /\ armed' = armed
    BY SameWorld
  <2>2. ASSUME pc'[d] = pc[d], route'[d] = route[d], tries'[d] = tries[d],
               resent'[d] = resent[d], sent'[d] = sent[d]
        PROVE  Paced(d)'
    <3>1. \A n : Tried(d, n)' = Tried(d, n)
      BY <2>1 DEF Tried, EligibleRoutes, Eligible, Provider
    <3>2. Paced(d)
      OBVIOUS
    <3> QED
      BY <2>2, <3>1, <3>2 DEF Paced, Owed, Room
  <2>3. CASE \E r \in Requests : RequestStep(r)
    <3>1. PICK r \in Requests : RequestStep(r)
      BY <2>3
    <3>2. CASE r = d
      BY <2>1, <3>1, <3>2, KeepsPace
    <3>3. CASE r # d
      BY <2>2, <3>1, <3>3, OwnStep DEF IInv
    <3> QED
      BY <3>2, <3>3
  <2>4. CASE (\E r \in Budgeted : Controller(r)) \/ CooldownLapse \/ Tick \/ UNCHANGED vars
    BY <2>2, <2>4 DEF Controller, CooldownLapse, Tick, vars, local
  <2> QED
    BY <2>3, <2>4 DEF Next
<1>3. IInv /\ Pace => SendsBounded
  <2> SUFFICES ASSUME IInv, Pace, NEW r \in Requests
               PROVE  sent[r] <= IF r \in Budgeted THEN MaxAttempts
                                 ELSE 2 * RetryMax * Cardinality(EligibleRoutes(r))
    BY DEF SendsBounded
  <2>1. PICK k \in Views :
          /\ Placed(r, k) /\ k.pc = pc[r] /\ k.route = route[r] /\ k.tries = tries[r]
          /\ k.sent = sent[r] /\ k.route \in Nat /\ k.tries \in Nat /\ k.sent \in Nat
          /\ chain[r] \in Seq(Providers) /\ Len(chain[r]) \in Nat
          /\ r \in Budgeted => Counted(k, budget[r])
    BY Seen
  <2>2. CASE r \in Budgeted
    BY <2>1, <2>2 DEF Counted
  <2>3. CASE r \notin Budgeted
    <3> DEFINE all == Cardinality(EligibleRoutes(r))
               some == Cardinality(Tried(r, k.route))
    <3>1. /\ all \in Nat /\ some \in Nat /\ some <= all
          /\ k.route \in EligibleRoutes(r) => some + 1 <= all
      BY <2>1, TriedFinite
    <3>2. /\ k.tries <= RetryMax /\ k.sent <= Room(some) + 2 * k.tries
          /\ (k.pc = "raised" => k.tries = 0)
      <4>1. Paced(r)
        BY <2>3
      <4>2. Owed(r) \in Nat /\ Room(some) \in Nat
        BY <3>1, MoreRoom DEF Owed
      <4> HIDE DEF some
      <4> QED
        BY <2>1, <4>1, <4>2 DEF Paced, some
    <3> HIDE DEF all, some
    <3>3. k.tries = 0 \/ k.route \in EligibleRoutes(r)
      BY <2>1, <3>2 DEF Placed, EligibleRoutes
    <3>4. Room(some) \in Nat /\ Room(all) \in Nat /\ Room(some) <= Room(all)
      BY <3>1, MoreRoom
    <3>5. k.sent <= Room(all)
      <4>1. CASE k.tries = 0
        BY <2>1, <3>2, <3>4, <4>1
      <4>2. CASE k.route \in EligibleRoutes(r)
        <5>1. Room(some + 1) = Room(some) + 2 * RetryMax /\ Room(some + 1) <= Room(all)
          BY <3>1, <4>2, MoreRoom
        <5>2. RetryMax \in Nat
          BY RouteAssumption
        <5> QED
          BY <2>1, <3>2, <3>4, <5>1, <5>2
      <4> QED
        BY <3>3, <4>1, <4>2
    <3> QED
      BY <2>1, <2>3, <3>5 DEF Room, all
  <2> QED
    BY <2>2, <2>3
<1> QED
  BY <1>1, <1>2, <1>3, Invariance, PTL DEF Spec

-----------------------------------------------------------------------------
(***************************************************************************)
(* Each budgeted request keeps the promise of the attempt ledger.          *)
(***************************************************************************)

Unresolved(r) == {i \in 1..budget[r].reserved : budget[r].dispatches[i] = "unknown"}

\* What is known of a budget when its request is at place.
Ledgered(place, b) ==
  /\ Len(b.dispatches) = b.reserved
  /\ b.in_flight = IF b.reserved = 0 THEN "none"
                   ELSE IF \E i \in 1..b.reserved : b.dispatches[i] = "unknown"
                        THEN "unknown" ELSE "known"
  /\ place \in {"wire", "answered"} => b.reserved > 0
  /\ place = "wire" => b.dispatches[b.reserved] = "unknown"
  /\ place = "answered" => b.dispatches[b.reserved] = "known"

AllLedgered == \A r \in Budgeted : Ledgered(pc[r], budget[r])

\* r stays where it is, or goes where nothing is in flight.
Leaves(r) == pc'[r] = pc[r] \/ pc'[r] \notin {"wire", "answered"}

\* A reason that is true of r's ledger.
Truthful(r, reason) ==
  /\ reason \in TERMINAL_REASONS
  /\ reason = "success" => pc[r] = "answered"
  /\ reason = "attempt_exhausted" => budget[r].reserved = MaxAttempts
  /\ reason = "cancellation" => budget[r].cancelled

\* All that a step may do to the budget of r.
Idles(r) == Leaves(r) /\ budget'[r] = budget[r] /\ now' \in Nat /\ now' >= now
Settles(r) ==
  /\ Leaves(r) /\ now' = now
  /\ \E reason : Truthful(r, reason) /\ budget'[r] = Settle(budget[r], reason)
Grants(r) ==
  /\ pc'[r] = "wire" /\ now' = now
  /\ ReserveStop(budget[r], now) = Open /\ budget'[r] = Reserve(budget[r], now)
Notes(r) ==
  /\ pc[r] = "wire" /\ pc'[r] # "wire" /\ now' = now
  /\ \E outcome \in Outcomes :
       /\ pc'[r] = "answered" => outcome = "known"
       /\ budget'[r] = NoteOutcome(budget[r], budget[r].reserved, outcome)
Cancels(r) == Leaves(r) /\ now' = now /\ budget'[r] = Cancel(budget[r])

\* A refusal leaves the budget alone or settles a reason that is true.
LEMMA RefusalTrue ==
  ASSUME IInv, NEW r \in Budgeted, NEW delay \in Nat,
         NEW next, \/ ReserveStop(budget[r], now) # Open /\ next = Reserve(budget[r], now)
                   \/ next = AllowBackoff(budget[r], now, delay)
  PROVE  \/ next = budget[r]
         \/ \E reason : Truthful(r, reason) /\ next = Settle(budget[r], reason)
<1> DEFINE b == budget[r]
<1>1. /\ b \in Budgets /\ b.terminal \in TERMINAL_REASONS \cup {Open} /\ b.reserved \in Nat
      /\ b.max_attempts = MaxAttempts /\ MaxAttempts \in Nat
  BY RouteAssumption DEF IInv, Typed, Budgets, BudgetStates
<1>2. b.reserved <= MaxAttempts
  BY RouteAssumption DEF IInv, Kept, Counted
<1>3. ASSUME NEW reason, reason # Open, next = Settle(b, reason),
             \/ reason = b.terminal
             \/ reason = "cancellation" /\ b.cancelled
             \/ reason = "deadline_exhausted"
             \/ reason = "attempt_exhausted" /\ b.reserved >= b.max_attempts
      PROVE  next = b \/ Truthful(r, reason)
  <2>1. CASE b.terminal # Open
    BY <1>3, <2>1 DEF Settle
  <2>2. CASE b.terminal = Open
    BY <1>1, <1>2, <1>3, <2>2 DEF Truthful, TERMINAL_REASONS
  <2> QED
    BY <2>1, <2>2
<1>4. CASE ReserveStop(b, now) # Open /\ next = Reserve(b, now)
  <2>1. next = Settle(b, ReserveStop(b, now))
    BY <1>4 DEF Reserve
  <2>2. \/ ReserveStop(b, now) = b.terminal
        \/ ReserveStop(b, now) = "cancellation" /\ b.cancelled
        \/ ReserveStop(b, now) = "deadline_exhausted"
        \/ ReserveStop(b, now) = "attempt_exhausted" /\ b.reserved >= b.max_attempts
    BY <1>4, Zenon DEF ReserveStop
  <2> QED
    BY <1>3, <1>4, <2>1, <2>2, Zenon
<1>5. CASE next = AllowBackoff(b, now, delay)
  <2>1. CASE BackoffStop(b, now, delay) = Open
    BY <1>5, <2>1, Zenon DEF AllowBackoff
  <2>2. CASE BackoffStop(b, now, delay) # Open
    <3>1. next = Settle(b, BackoffStop(b, now, delay))
      BY <1>5, <2>2, Zenon DEF AllowBackoff
    <3>2. \/ BackoffStop(b, now, delay) = b.terminal
          \/ BackoffStop(b, now, delay) = "cancellation" /\ b.cancelled
          \/ BackoffStop(b, now, delay) = "deadline_exhausted"
          \/ BackoffStop(b, now, delay) = "attempt_exhausted" /\ b.reserved >= b.max_attempts
      BY <2>2, Zenon DEF BackoffStop
    <3> QED
      BY <1>3, <2>2, <3>1, <3>2, Zenon
  <2> QED
    BY <2>1, <2>2
<1> QED
  BY <1>4, <1>5

\* A step of the request itself.
LEMMA OwnLedgerStep ==
  ASSUME IInv, NEW r \in Budgeted, RequestStep(r)
  PROVE  Idles(r) \/ Settles(r) \/ Grants(r) \/ Notes(r)
<1> DEFINE b == budget[r]
<1>1. /\ r \in Requests /\ pc \in [Requests -> Stations] /\ budget \in [Budgeted -> Budgets]
      /\ now \in Nat /\ Delays \subseteq Nat
  BY RouteAssumption DEF IInv, Typed
<1>2. ASSUME NEW to, pc' = [pc EXCEPT ![r] = to] PROVE pc'[r] = to
  BY <1>1, <1>2
<1>3. ASSUME NEW next, budget' = [budget EXCEPT ![r] = next] PROVE budget'[r] = next
  BY <1>1, <1>3
<1>4. now >= now
  BY <1>1
<1>5. CASE PassOver(r) \/ LookFurther(r)
  BY <1>1, <1>4, <1>5, Zenon DEF PassOver, LookFurther, world, Idles, Leaves
<1>6. ASSUME NEW from, NEW to, Go(r, from, to), to \notin {"wire", "answered"},
             budget' = budget, now' = now
      PROVE  Idles(r)
  BY <1>1, <1>2, <1>4, <1>6, Zenon DEF Go, Idles, Leaves
<1>7. CASE TakeWarm(r) \/ FindCooled(r) \/ SkipCooled(r) \/ TakeCooled(r) \/ FailRoute(r)
           \/ RejectAnswer(r) \/ Serve(r)
  <2>1. /\ budget' = budget /\ now' = now
        /\ \E from : \E to \in {"head", "cooled", "post", "served"} : Go(r, from, to)
    BY <1>7 DEF TakeWarm, FindCooled, SkipCooled, TakeCooled, FailRoute, RejectAnswer, Serve,
       world
  <2> QED
    BY <1>6, <2>1
<1>8. ~ Post(r) /\ ~ HiddenResend(r)
  BY DEF Post, HiddenResend
<1>9. CASE PostBudgeted(r)
  BY <1>1, <1>2, <1>3, <1>9, Zenon DEF PostBudgeted, Go, world, Grants
<1>10. ASSUME NEW from, NEW to, Go(r, from, to), to \notin {"wire", "answered"}, now' = now,
              NEW next, budget' = [budget EXCEPT ![r] = next],
              next = b \/ \E reason : Truthful(r, reason) /\ next = Settle(b, reason)
       PROVE  Idles(r) \/ Settles(r)
  <2>1. budget'[r] = next /\ Leaves(r)
    BY <1>2, <1>3, <1>10, Zenon DEF Go, Leaves
  <2> QED
    BY <1>1, <1>4, <1>10, <2>1, Zenon DEF Idles, Settles
<1>11. CASE ReserveRefused(r)
  <2>1. /\ ReserveStop(b, now) # Open /\ now' = now
        /\ budget' = [budget EXCEPT ![r] = Reserve(b, now)]
        /\ \E to \in {"failed", "head"} : Go(r, "post", to)
    BY <1>1, <1>11 DEF ReserveRefused, world
  <2>2. Reserve(b, now) = b
          \/ \E reason : Truthful(r, reason) /\ Reserve(b, now) = Settle(b, reason)
    <3>1. 0 \in Nat
      OBVIOUS
    <3> QED
      BY <2>1, <3>1, RefusalTrue, Zenon
  <2> QED
    BY <1>10, <2>1, <2>2
<1>12. CASE Retry(r)
  <2>1. PICK delay \in Delays :
          /\ \E to \in {"post", "failed"} : Go(r, "again", to)
          /\ budget' = [budget EXCEPT ![r] = AllowBackoff(b, now, delay)] /\ now' = now
    BY <1>1, <1>12 DEF Retry, world
  <2>2. AllowBackoff(b, now, delay) = b
          \/ \E reason : Truthful(r, reason) /\ AllowBackoff(b, now, delay) = Settle(b, reason)
    <3>1. delay \in Nat
      BY <1>1
    <3>2. PICK next : next = AllowBackoff(b, now, delay)
      OBVIOUS
    <3>3. next = b \/ \E reason : Truthful(r, reason) /\ next = Settle(b, reason)
      BY <3>1, <3>2, RefusalTrue
    <3> QED
      BY <3>2, <3>3, Zenon
  <2> QED
    BY <1>10, <2>1, <2>2
<1>13. CASE Answer(r) \/ Blip(r) \/ Permanent(r) \/ Garbled(r) \/ Lost(r)
  <2>1. PICK to, outcome, kind :
          /\ Observe(r, to, outcome, kind) /\ outcome \in Outcomes
          /\ to \in {"answered", "again", "failed"} /\ (to = "answered" => outcome = "known")
    BY <1>13 DEF Answer, Blip, Permanent, Garbled, Lost, Retrying, Outcomes
  <2>2. /\ pc[r] = "wire" /\ pc'[r] = to /\ now' = now
        /\ budget'[r] = NoteOutcome(b, b.reserved, outcome)
    BY <1>1, <1>2, <1>3, <2>1, Zenon DEF Observe, Go, world
  <2> QED
    BY <2>1, <2>2 DEF Notes
<1>14. CASE AcceptAnswer(r)
  <2>1. /\ Go(r, "answered", "usable") /\ now' = now
        /\ budget' = [budget EXCEPT ![r] = Settle(b, "success")]
    BY <1>1, <1>14 DEF AcceptAnswer, MarkSuccess, world
  <2>2. Truthful(r, "success")
    BY <2>1 DEF Truthful, TERMINAL_REASONS, Go
  <2> QED
    BY <1>10, <2>1, <2>2
<1>15. CASE Raise(r)
  <2>1. /\ Go(r, "head", "raised") /\ now' = now
        /\ budget' = [budget EXCEPT ![r] = Settle(b, ClosedReason(trail[r], b.reserved))]
    BY <1>1, <1>15 DEF Raise, Close, world
  <2>2. Truthful(r, ClosedReason(trail[r], b.reserved))
    BY DEF Truthful, TERMINAL_REASONS, ClosedReason
  <2> QED
    BY <1>10, <2>1, <2>2
<1> QED
  BY <1>5, <1>7, <1>8, <1>9, <1>11, <1>12, <1>13, <1>14, <1>15 DEF RequestStep

\* A step of anybody, seen from one request.
LEMMA LedgerStep ==
  ASSUME IInv, [Next]_vars, NEW r \in Budgeted
  PROVE  Idles(r) \/ Settles(r) \/ Grants(r) \/ Notes(r) \/ Cancels(r)
<1>1. /\ Budgeted \subseteq Requests /\ Typed /\ now \in Nat /\ now >= now /\ r \in Requests
      /\ pc \in [Requests -> Stations] /\ budget \in [Budgeted -> Budgets]
  BY RouteAssumption DEF IInv, Typed
<1>2. ASSUME NEW d \in Requests \ {r}, RequestStep(d)
      PROVE  Idles(r)
  <2>1. pc'[r] = pc[r]
    BY <1>1, <1>2, OwnStep
  <2>2. now' = now
    BY <1>2 DEF RequestStep, PassOver, SkipCooled, FailRoute, RejectAnswer, TakeWarm, FindCooled,
       LookFurther, TakeCooled, Post, PostBudgeted, HiddenResend, ReserveRefused, Retry, Answer,
       Blip, Permanent, Garbled, Lost, Observe, AcceptAnswer, Serve, Raise, world
  <2>3. \/ budget' = budget
        \/ \E next : budget' = [budget EXCEPT ![d] = next]
    <3>1. CASE PassOver(d) \/ SkipCooled(d) \/ FailRoute(d) \/ RejectAnswer(d) \/ TakeWarm(d)
               \/ FindCooled(d) \/ LookFurther(d) \/ TakeCooled(d) \/ Post(d)
               \/ HiddenResend(d) \/ Serve(d)
      BY <3>1 DEF PassOver, SkipCooled, FailRoute, RejectAnswer, TakeWarm, FindCooled,
         LookFurther, TakeCooled, Post, HiddenResend, Serve
    <3>2. CASE PostBudgeted(d) \/ ReserveRefused(d)
      BY <3>2, Zenon DEF PostBudgeted, ReserveRefused
    <3>3. CASE Retry(d)
      BY <3>3, Zenon DEF Retry
    <3>4. CASE Answer(d) \/ Blip(d) \/ Permanent(d) \/ Garbled(d) \/ Lost(d)
      BY <3>4, Zenon DEF Answer, Blip, Permanent, Garbled, Lost, Observe
    <3>5. CASE AcceptAnswer(d) \/ Raise(d)
      BY <3>5, Zenon DEF AcceptAnswer, Raise
    <3> QED
      BY <1>2, <3>1, <3>2, <3>3, <3>4, <3>5 DEF RequestStep
  <2>4. budget'[r] = budget[r]
    BY <1>1, <1>2, <2>3
  <2> QED
    BY <1>1, <2>1, <2>2, <2>4 DEF Idles, Leaves
<1>3. ASSUME NEW d \in Budgeted, Controller(d)
      PROVE  Idles(r) \/ Settles(r) \/ Cancels(r)
  <2>1. pc' = pc /\ now' = now
    BY <1>3 DEF Controller, world
  <2>2. CASE d # r
    <3>1. budget'[r] = budget[r]
      BY <1>1, <1>3, <2>2 DEF Controller
    <3> QED
      BY <1>1, <2>1, <3>1 DEF Idles, Leaves
  <2>3. CASE d = r
    <3>1. \/ budget'[r] = Cancel(budget[r])
          \/ \E reason \in CloseReasons : budget'[r] = Settle(budget[r], reason)
      BY <1>1, <1>3, <2>3 DEF Controller, Close
    <3>2. \A reason \in CloseReasons : Truthful(r, reason)
      BY RouteAssumption DEF Truthful, TERMINAL_REASONS
    <3> QED
      BY <2>1, <3>1, <3>2, Zenon DEF Cancels, Settles, Leaves
  <2> QED
    BY <2>2, <2>3
<1>4. CASE CooldownLapse \/ UNCHANGED vars
  <2>1. pc' = pc /\ now' = now /\ budget' = budget
    BY <1>4 DEF CooldownLapse, vars, world
  <2> QED
    BY <1>1, <2>1 DEF Idles, Leaves
<1>5. CASE Tick
  <2>1. pc' = pc /\ now' = now + 1 /\ budget' = budget
    BY <1>5 DEF Tick
  <2> QED
    BY <1>1, <2>1 DEF Idles, Leaves
<1> QED
  BY <1>2, <1>3, <1>4, <1>5, OwnLedgerStep DEF Next

\* A conclusion touches nothing but the verdict.
LEMMA Settled ==
  ASSUME NEW b \in Budgets, NEW reason \in TERMINAL_REASONS, NEW next, next = Settle(b, reason)
  PROVE  /\ next.reserved = b.reserved /\ next.dispatches = b.dispatches
         /\ next.in_flight = b.in_flight /\ next.cancelled = b.cancelled
         /\ next.terminal = IF b.terminal = Open THEN reason ELSE b.terminal
  BY DEF Settle, Budgets, BudgetStates

\* A cancellation touches nothing but the wish, and the verdict of a request that
\* has dispatched nothing.
LEMMA Wished ==
  ASSUME NEW b \in Budgets, NEW next, next = Cancel(b)
  PROVE  /\ next.reserved = b.reserved /\ next.dispatches = b.dispatches
         /\ next.in_flight = b.in_flight /\ next.cancelled = TRUE
         /\ next.terminal = IF b.terminal = Open /\ b.in_flight = "none"
                            THEN "cancellation" ELSE b.terminal
<1>1. PICK asked \in Budgets :
        /\ asked = [b EXCEPT !.cancelled = TRUE] /\ asked.reserved = b.reserved
        /\ asked.in_flight = b.in_flight /\ asked.terminal = b.terminal
        /\ asked.dispatches = b.dispatches /\ asked.cancelled = TRUE
  <2>1. [b EXCEPT !.cancelled = TRUE] \in Budgets
    BY DEF Budgets, BudgetStates
  <2> QED
    BY <2>1 DEF Budgets, BudgetStates
<1>2. next = IF b.in_flight = "none" THEN Settle(asked, "cancellation") ELSE asked
  BY <1>1 DEF Cancel
<1>3. "cancellation" \in TERMINAL_REASONS
  BY DEF TERMINAL_REASONS
<1>4. CASE b.in_flight = "none"
  <2>1. next = Settle(asked, "cancellation")
    BY <1>2, <1>4
  <2> QED
    BY <1>1, <1>3, <1>4, <2>1, Settled
<1>5. CASE b.in_flight # "none"
  BY <1>1, <1>2, <1>5
<1> QED
  BY <1>4, <1>5

\* A grant adds one unresolved dispatch to a request nothing has stopped.
LEMMA Dispatching ==
  ASSUME NEW b \in Budgets, Len(b.dispatches) = b.reserved, ReserveStop(b, now) = Open,
         now \in Nat, NEW next, next = Reserve(b, now)
  PROVE  /\ next.reserved = b.reserved + 1 /\ next.cancelled = b.cancelled
         /\ next.in_flight = "unknown" /\ next.terminal = Open
         /\ Len(next.dispatches) = b.reserved + 1
         /\ next.dispatches[b.reserved + 1] = "unknown"
         /\ \A i \in 1..b.reserved : next.dispatches[i] = b.dispatches[i]
         /\ b.terminal = Open /\ ~ b.cancelled /\ ~ now >= Deadline /\ b.reserved < MaxAttempts
<1>1. /\ b.reserved \in Nat /\ b.dispatches \in Seq(Outcomes) /\ "unknown" \in Outcomes
      /\ b.max_attempts = MaxAttempts /\ b.deadline = Deadline /\ MaxAttempts \in Nat
      /\ b.cancelled \in BOOLEAN
  BY RouteAssumption DEF Budgets, BudgetStates, Outcomes
<1>2. b.terminal = Open /\ ~ b.cancelled /\ ~ now >= b.deadline /\ ~ b.reserved >= b.max_attempts
  BY DEF ReserveStop, Open
<1>3. b.reserved < MaxAttempts
  BY <1>1, <1>2
<1>4. PICK rows : rows = Append(b.dispatches, "unknown")
  OBVIOUS
<1>5. /\ Len(rows) = b.reserved + 1 /\ rows[b.reserved + 1] = "unknown"
      /\ \A i \in 1..b.reserved : rows[i] = b.dispatches[i]
  BY <1>1, <1>4, AppendOne
<1>6. PICK n : n = b.reserved + 1
  OBVIOUS
<1>7. next = [b EXCEPT !.reserved = n, !.in_flight = "unknown", !.dispatches = rows]
  BY <1>4, <1>6 DEF Reserve
<1>8. /\ next.reserved = n /\ next.in_flight = "unknown" /\ next.dispatches = rows
      /\ next.cancelled = b.cancelled /\ next.terminal = b.terminal
  BY <1>7 DEF Budgets, BudgetStates
<1> QED
  BY <1>1, <1>2, <1>3, <1>5, <1>6, <1>8

\* An outcome is noted for the last dispatch and no other.
LEMMA Noting ==
  ASSUME NEW b \in Budgets, Len(b.dispatches) = b.reserved, b.reserved > 0,
         NEW outcome \in Outcomes, NEW next, next = NoteOutcome(b, b.reserved, outcome)
  PROVE  /\ next.reserved = b.reserved /\ next.cancelled = b.cancelled
         /\ next.terminal = b.terminal /\ Len(next.dispatches) = b.reserved
         /\ next.dispatches[b.reserved] = outcome
         /\ \A i \in 1..b.reserved - 1 : next.dispatches[i] = b.dispatches[i]
         /\ next.in_flight = IF \E i \in 1..b.reserved : next.dispatches[i] = "unknown"
                             THEN "unknown" ELSE "known"
<1>1. b.reserved \in Nat /\ b.reserved \in 1..b.reserved /\ b.dispatches \in Seq(Outcomes)
  BY DEF Budgets, BudgetStates
<1>2. PICK rows : rows = [b.dispatches EXCEPT ![b.reserved] = outcome]
  OBVIOUS
<1>3. /\ DOMAIN rows = 1..b.reserved /\ Len(rows) = b.reserved /\ rows[b.reserved] = outcome
      /\ \A i \in 1..b.reserved - 1 : rows[i] = b.dispatches[i]
  BY <1>1, <1>2
<1>4. PICK flight : flight = IF \E i \in DOMAIN rows : rows[i] = "unknown"
                             THEN "unknown" ELSE "known"
  OBVIOUS
<1>5. next = [b EXCEPT !.dispatches = rows, !.in_flight = flight]
  BY <1>2, <1>4 DEF NoteOutcome
<1>6. /\ next.dispatches = rows /\ next.in_flight = flight /\ next.reserved = b.reserved
      /\ next.cancelled = b.cancelled /\ next.terminal = b.terminal
  BY <1>5 DEF Budgets, BudgetStates
<1> QED
  BY <1>3, <1>4, <1>6

\* AllLedgered is inductive, given the invariant.
LEMMA LedgeredKept ==
  ASSUME IInv, AllLedgered, [Next]_vars
  PROVE  AllLedgered'
<1> SUFFICES ASSUME NEW r \in Budgeted
             PROVE  Ledgered(pc[r], budget[r])'
  BY DEF AllLedgered
<1>1. PICK b \in Budgets : b = budget[r] /\ Ledgered(pc[r], b) /\ b.reserved \in Nat
  BY DEF IInv, Typed, AllLedgered, Budgets, BudgetStates
<1>2. now \in Nat
  BY DEF IInv, Typed
<1>3. ASSUME NEW next, next = budget'[r], Leaves(r), next.reserved = b.reserved,
             next.dispatches = b.dispatches, next.in_flight = b.in_flight
      PROVE  Ledgered(pc[r], budget[r])'
  BY <1>1, <1>3 DEF Ledgered, Leaves
<1>4. CASE Idles(r)
  BY <1>1, <1>3, <1>4 DEF Idles
<1>5. CASE Settles(r)
  <2>1. PICK reason \in TERMINAL_REASONS : budget'[r] = Settle(b, reason)
    BY <1>1, <1>5 DEF Settles, Truthful
  <2> QED
    BY <1>3, <1>5, <2>1, Settled DEF Settles
<1>6. CASE Cancels(r)
  <2>1. budget'[r] = Cancel(b) /\ Leaves(r)
    BY <1>1, <1>6, Zenon DEF Cancels
  <2>2. PICK next :
          /\ next = budget'[r] /\ next.reserved = b.reserved
          /\ next.dispatches = b.dispatches /\ next.in_flight = b.in_flight
    <3>1. PICK next : next = Cancel(b)
      OBVIOUS
    <3>2. /\ next.reserved = b.reserved /\ next.dispatches = b.dispatches
          /\ next.in_flight = b.in_flight
      BY <3>1, Wished
    <3> QED
      BY <2>1, <3>1, <3>2
  <2> QED
    BY <1>3, <2>1, <2>2
<1>7. CASE Grants(r)
  <2>1. PICK next :
          /\ next = budget'[r] /\ pc'[r] = "wire"
          /\ next.reserved = b.reserved + 1 /\ next.in_flight = "unknown"
          /\ Len(next.dispatches) = b.reserved + 1
          /\ next.dispatches[b.reserved + 1] = "unknown"
    BY <1>1, <1>2, <1>7, Dispatching DEF Grants, Ledgered
  <2>2. b.reserved + 1 \in 1..next.reserved /\ next.reserved > 0 /\ next.reserved # 0
    BY <1>1, <2>1
  <2> QED
    BY <2>1, <2>2 DEF Ledgered
<1>8. CASE Notes(r)
  <2>1. PICK outcome \in Outcomes :
          /\ pc'[r] # "wire" /\ (pc'[r] = "answered" => outcome = "known")
          /\ budget'[r] = NoteOutcome(b, b.reserved, outcome)
    BY <1>1, <1>8 DEF Notes
  <2>2. Len(b.dispatches) = b.reserved /\ b.reserved > 0
    BY <1>1, <1>8 DEF Ledgered, Notes
  <2>3. PICK next :
          /\ next = budget'[r] /\ next.reserved = b.reserved
          /\ Len(next.dispatches) = b.reserved /\ next.dispatches[b.reserved] = outcome
          /\ next.in_flight = IF \E i \in 1..b.reserved : next.dispatches[i] = "unknown"
                              THEN "unknown" ELSE "known"
    BY <2>1, <2>2, Noting
  <2> QED
    BY <1>1, <2>1, <2>2, <2>3 DEF Ledgered
<1> QED
  BY <1>4, <1>5, <1>6, <1>7, <1>8, LedgerStep

\* Each step of chat() is a step of each request's ledger, or none.
LEMMA LedgerAdvances ==
  ASSUME IInv, AllLedgered, [Next]_vars, NEW r \in Budgeted
  PROVE  [Ledger(r)!Next]_(Ledger(r)!vars)
<1>1. PICK b \in Budgets :
        /\ b = budget[r] /\ Ledgered(pc[r], b) /\ b.reserved \in Nat
        /\ b.terminal \in TERMINAL_REASONS \cup {Open} /\ b.cancelled \in BOOLEAN
  BY DEF IInv, Typed, AllLedgered, Budgets, BudgetStates
<1>2. now \in Nat /\ Deadline \in Nat /\ Open \notin TERMINAL_REASONS
  BY RouteAssumption DEF IInv, Typed, Open, TERMINAL_REASONS
<1>3. b.in_flight = Ledger(r)!Summary(b.reserved, Unresolved(r))
  BY <1>1 DEF Ledgered, Unresolved, Ledger!Summary
<1>4. CASE Idles(r)
  <2>1. budget'[r] = budget[r] /\ now' \in Nat /\ now' >= now /\ Unresolved(r)' = Unresolved(r)
    BY <1>4 DEF Idles, Unresolved
  <2>2. CASE (now' >= Deadline) = (now >= Deadline)
    BY <2>1, <2>2 DEF Ledger!vars, Unresolved
  <2>3. CASE (now' >= Deadline) # (now >= Deadline)
    <3>1. ~(now >= Deadline) /\ now' >= Deadline
      BY <1>2, <2>1, <2>3
    <3>2. Ledger(r)!Expire
      BY <2>1, <3>1 DEF Ledger!Expire, Unresolved
    <3> QED
      BY <3>2 DEF Ledger!Next
  <2> QED
    BY <2>2, <2>3
<1>5. ASSUME NEW next, next = budget'[r], now' = now, next.reserved = b.reserved,
             next.dispatches = b.dispatches, next.in_flight = b.in_flight
      PROVE  /\ Unresolved(r)' = Unresolved(r) /\ budget'[r].reserved = budget[r].reserved
             /\ budget'[r].in_flight = budget[r].in_flight
             /\ (now' >= Deadline) = (now >= Deadline)
  BY <1>1, <1>5 DEF Unresolved
<1>6. CASE Settles(r)
  <2>1. PICK reason : Truthful(r, reason) /\ budget'[r] = Settle(b, reason) /\ now' = now
    BY <1>1, <1>6 DEF Settles
  <2>2. PICK next :
          /\ next = budget'[r] /\ next.reserved = b.reserved /\ next.dispatches = b.dispatches
          /\ next.in_flight = b.in_flight /\ next.cancelled = b.cancelled
          /\ next.terminal = IF b.terminal = Open THEN reason ELSE b.terminal
    BY <2>1, Settled DEF Truthful
  <2>3. /\ Unresolved(r)' = Unresolved(r) /\ budget'[r].reserved = budget[r].reserved
        /\ budget'[r].in_flight = budget[r].in_flight
        /\ (now' >= Deadline) = (now >= Deadline)
        /\ budget'[r].cancelled = budget[r].cancelled
    BY <1>1, <1>5, <2>1, <2>2
  <2>4. CASE b.terminal # Open
    BY <1>1, <2>2, <2>3, <2>4 DEF Ledger!vars, Unresolved
  <2>5. CASE b.terminal = Open
    <3>1. budget[r].terminal = Open /\ budget'[r].terminal = reason
      BY <1>1, <2>2, <2>5
    <3>2. reason = "success" => budget[r].reserved > 0 /\ Unresolved(r) # 1..budget[r].reserved
      <4> SUFFICES ASSUME reason = "success"
                   PROVE  b.reserved > 0 /\ Unresolved(r) # 1..b.reserved
        BY <1>1
      <4>1. b.reserved > 0 /\ b.dispatches[b.reserved] = "known" /\ b.reserved \in 1..b.reserved
        BY <1>1, <2>1 DEF Truthful, Ledgered
      <4>2. b.reserved \notin Unresolved(r)
        BY <1>1, <4>1 DEF Unresolved
      <4> QED
        BY <4>1, <4>2
    <3>3. Ledger(r)!Conclude
      BY <2>1, <2>3, <3>1, <3>2 DEF Ledger!Conclude, Unresolved, Truthful
    <3> QED
      BY <3>3 DEF Ledger!Next
  <2> QED
    BY <2>4, <2>5
<1>7. CASE Cancels(r)
  <2>1. PICK next :
          /\ next = budget'[r] /\ now' = now
          /\ next.reserved = b.reserved /\ next.dispatches = b.dispatches
          /\ next.in_flight = b.in_flight /\ next.cancelled = TRUE
          /\ next.terminal = IF b.terminal = Open /\ b.in_flight = "none"
                             THEN "cancellation" ELSE b.terminal
    BY <1>1, <1>7, Wished DEF Cancels
  <2>2. /\ Unresolved(r)' = Unresolved(r) /\ budget'[r].reserved = budget[r].reserved
        /\ budget'[r].in_flight = budget[r].in_flight
        /\ (now' >= Deadline) = (now >= Deadline) /\ budget'[r].cancelled = TRUE
    BY <1>1, <1>5, <2>1
  <2>3. \/ budget'[r].terminal = budget[r].terminal
        \/ /\ budget[r].reserved = 0 /\ budget[r].terminal = Open
           /\ budget'[r].terminal = "cancellation"
    BY <1>1, <2>1 DEF Ledgered
  <2>4. Ledger(r)!Withdraw
    BY <2>2, <2>3 DEF Ledger!Withdraw, Unresolved
  <2> QED
    BY <2>4 DEF Ledger!Next
<1>8. CASE Grants(r)
  <2>1. PICK next :
          /\ next = budget'[r] /\ now' = now
          /\ next.reserved = b.reserved + 1 /\ next.cancelled = b.cancelled
          /\ next.in_flight = "unknown" /\ next.terminal = Open
          /\ next.dispatches[b.reserved + 1] = "unknown"
          /\ \A i \in 1..b.reserved : next.dispatches[i] = b.dispatches[i]
          /\ b.terminal = Open /\ ~ b.cancelled /\ ~ now >= Deadline /\ b.reserved < MaxAttempts
    BY <1>1, <1>2, <1>8, Dispatching DEF Grants, Ledgered
  <2>2. Unresolved(r)' = Unresolved(r) \cup {budget[r].reserved + 1}
    <3>1. 1..b.reserved + 1 = 1..b.reserved \cup {b.reserved + 1}
      BY <1>1
    <3> QED
      BY <1>1, <2>1, <3>1 DEF Unresolved
  <2>3. budget'[r].reserved # 0 /\ Unresolved(r)' # {}
    BY <1>1, <2>1, <2>2
  <2>4. budget'[r].in_flight = Ledger(r)!Summary(budget'[r].reserved, Unresolved(r)')
    BY <2>1, <2>3 DEF Ledger!Summary
  <2>5. Ledger(r)!Grant
    BY <1>1, <2>1, <2>2, <2>4 DEF Ledger!Grant, Unresolved, Ledger!Summary
  <2> QED
    BY <2>5 DEF Ledger!Next
<1>9. CASE Notes(r)
  <2>1. PICK outcome \in Outcomes :
          now' = now /\ budget'[r] = NoteOutcome(b, b.reserved, outcome)
    BY <1>1, <1>9 DEF Notes
  <2>2. /\ Len(b.dispatches) = b.reserved /\ b.reserved > 0
        /\ b.dispatches[b.reserved] = "unknown"
    BY <1>1, <1>9 DEF Ledgered, Notes
  <2>3. PICK next :
          /\ next = budget'[r] /\ next.reserved = b.reserved /\ next.cancelled = b.cancelled
          /\ next.terminal = b.terminal /\ next.dispatches[b.reserved] = outcome
          /\ \A i \in 1..b.reserved - 1 : next.dispatches[i] = b.dispatches[i]
          /\ next.in_flight = IF \E i \in 1..b.reserved : next.dispatches[i] = "unknown"
                              THEN "unknown" ELSE "known"
    BY <2>1, <2>2, Noting
  <2>4. b.reserved \in Unresolved(r)
    BY <1>1, <2>2 DEF Unresolved
  <2>5. budget'[r].in_flight = Ledger(r)!Summary(b.reserved, Unresolved(r)')
    <3>1. Unresolved(r)' = {i \in 1..b.reserved : next.dispatches[i] = "unknown"}
      BY <2>3 DEF Unresolved
    <3> QED
      BY <2>2, <2>3, <3>1 DEF Ledger!Summary
  <2>6. \A i \in 1..b.reserved : i = b.reserved \/ next.dispatches[i] = b.dispatches[i]
    BY <1>1, <2>3
  <2>7. CASE outcome = "unknown"
    <3>1. Unresolved(r)' = Unresolved(r)
      BY <1>1, <2>2, <2>3, <2>6, <2>7 DEF Unresolved
    <3>2. budget'[r].in_flight = budget[r].in_flight
      BY <1>1, <1>3, <2>5, <3>1
    <3> QED
      BY <1>1, <2>1, <2>3, <3>1, <3>2 DEF Ledger!vars, Unresolved
  <2>8. CASE outcome = "known"
    <3>1. Unresolved(r)' = Unresolved(r) \ {b.reserved}
      BY <1>1, <2>2, <2>3, <2>6, <2>8 DEF Unresolved
    <3>2. Ledger(r)!Resolve
      BY <1>1, <2>1, <2>3, <2>4, <2>5, <3>1 DEF Ledger!Resolve, Unresolved, Ledger!Summary
    <3> QED
      BY <3>2 DEF Ledger!Next
  <2> QED
    BY <2>7, <2>8 DEF Outcomes
<1> QED
  BY <1>4, <1>6, <1>7, <1>8, <1>9, LedgerStep

\* Every budgeted request implements AttemptLedger under any interleaving with
\* other requests, its controller and the clock.
THEOREM LedgersKept == Spec => KeepsLedgers
<1>1. Init => AllLedgered /\ \A r \in Budgeted : Ledger(r)!Init
  <2> SUFFICES ASSUME Init, NEW r \in Budgeted
               PROVE  Ledgered(pc[r], budget[r]) /\ Ledger(r)!Init
    BY DEF AllLedgered
  <2>1. budget[r] = NewBudget(MaxAttempts, Deadline) /\ pc[r] = "head"
    BY RouteAssumption DEF Init
  <2>2. Unresolved(r) = {}
    BY <2>1 DEF Unresolved, NewBudget
  <2> QED
    BY <2>1, <2>2 DEF Ledgered, NewBudget, Ledger!Init, Unresolved
<1>2. IInv /\ AllLedgered /\ [Next]_vars => AllLedgered'
  BY LedgeredKept
<1>3. IInv /\ AllLedgered /\ [Next]_vars =>
        [\A r \in Budgeted : [Ledger(r)!Next]_(Ledger(r)!vars)]_<<budget, now>>
  BY LedgerAdvances
<1> QED
  BY <1>1, <1>2, <1>3, Invariance, PTL DEF Spec, KeepsLedgers
=============================================================================
