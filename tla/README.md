# A TLA+ verification of szl-router

szl-router sends chat and embedding requests to a sovereign-first chain of
providers, bounds what one logical request may spend in attempts and time, and
reports honestly what happened. This directory holds TLA+ models of its
stateful parts, TLC configurations that check them on small instances, and
proofs checked by TLAPS. Sources are cited relative to the repository root.

## 1. Inventory

| Component | State | Operations | What makes it hard | What makes it correct |
|---|---|---|---|---|
| Request budget, `szl_router/request_budget.py` | attempt counter, dispatch rows, in-flight summary, cancel flag, terminal reason, absolute deadline | `reserve`, `note_outcome`, `allow_backoff`, `sleep`, `cancel`, `close`, `mark_success` | shared by threads; checks before a sleep are stale after it; answers after a cancel or the deadline | attempts numbered once and bounded; first conclusion final and true; nothing dispatched after a stop |
| Chat chain, `szl_router/core.py` 560-751, 1122-1295 | cooldown map shared by all requests; per request: route, retries, attempt trail | route loop, `_post_with_retry`, `_set_cooldown`, `_clear_cooldown`, `_warm_candidate_later` | requests change each other's cooldowns while one decides; a hidden resend; partial failure | complete trail; no silent refusal; bounded dispatches; every request ends |
| Connection pool, `core.py` 393-533 | idle connections per host | `_checkout`, `_release`, `request_json` | connection released before its body is parsed | one user per connection; bounded buckets |
| Embedding cache and `embed()`, `core.py` 1334-1612 | cache of vectors with time stamps, shared by threads | key, get, route loop, put with eviction | end points, keys, switches and namespace change between the steps of a call | a vector is of the configuration its caller captured; the cache keeps its bound |
| Harvest cache, fabric status, `core.py` 1656-1919 | one time stamp, one document | read, refresh | two words written without a lock | freshness claimed only of fresh data |
| Mesh coordinator, `szl_router/mesh_coordinator.py` | per worker: reachable, in-flight count; probe time stamp; round-robin counter | `refresh_reachability`, `pick_order`, `proxy`, HTTP handler | probes outside the lock, counts read before they are raised, replayed POSTs | counts return to zero; only probed workers used; sovereignty never claimed for the failover |
| Spend guard, `szl_router/spend_guard.py` | append-only hash-linked file | `allow`, `record`, `state` | check then act; several processes | the chain stays linked |
| Grid context, `szl_router/grid.py` | one block, time stamp, refresh flag | `current_grid_context`, `_spawn_refresh` | background refresh, a flag that must be taken back | one refresh at a time, refresh not lost for ever |
| Receipts, `szl_router/receipts.py`, `verify.py` | key, loaded once | sign, verify | none (pure after start) | cryptographic, out of scope |
| HTTP endpoint, `szl_router/app.py` | none | request handlers | none | wrapper around `chat` and `embed` |
| Router control gateway, `router_control/app.py`, `verification.py`, `free_tier.py` | environment of the process; per request: candidates, rows, clocks | settings, readiness, admission, route plan, attempt (tags, process list, scan, POST), receipt | requests interleave at every await; a timeout leaves a POST unknown; readiness and admission are separate code | nothing is tried after an unknown outcome; no prompt to a pinned model before its files matched; readiness is honest; every request answered |
| Local store, `router_control/local_store.py` | one-slot scan capacity, the model's files | `verify_store_bytes`, in a worker thread | files written while hashed, stop event, deadline, a caller that has gone | the slot comes back; a match means the files were intact during this scan |
| Forge mesh, `examples/forge-mesh-router.py` | request slots, in-flight counts, three deadlines per client | accept, headers, body, pick, connect, exchange, relay, release | disconnects, partial relays, timers that shut sockets, one fallback | slots and counts come back; nothing is replayed after dispatch; every client leaves |
| Control Space publication, `scripts/router_control_space.py`, `hf_space_bootstrap.py` | receipt file, remote repository | publish, a sequence of remote calls with a checkpoint before each write | killed between any two calls; other commits; a run after a killed one | the receipt claims what was done; no files of others are written over that the code has not admitted |
| Router Space workflows, `scripts/hf_space_deploy.py`, `wait_hf_space_runtime.py`, `hf_space_drift_check.py`, `hf_runtime_contract.py` | the provider's head and runtime, one evidence document over all attempts | deploy, poll, verify with retries | head and runtime move between requests; an old container still answers | accepted evidence is of one revision that was head and running |
| Bundle, image check, release gate | none across steps | comparisons and file assembly | none | out of scope |
| Public Space, `space/server.py` | a snapshot | serve, classify freshness | none | pure |
| Demo, `demo/` | none | drivers | none | out of scope |

How they interact: `app.py` calls `chat()` and `embed()`; both pass every
dispatch through `_post_with_retry`, which applies the caller's budget (if
any), and through the connection pool, which must not resend while a budget is
active (a context variable tells it). Every chat request reads and writes one
process-wide cooldown map. A caller's own thread may share a budget between
several calls, and any thread may cancel or close it. The mesh coordinator, the
control gateway and the forge example are separate programs in front of
providers of their own; the gateway hands the hashing of a model's files to
worker threads that share one capacity slot. The publication scripts are run by
workflows and talk to a remote repository and its runtime, which others change
too.

## 2. Modules

| Module | Models | Kind |
|---|---|---|
| `BudgetObject` | the methods of `RequestBudget`, each a function from state to state | operators |
| `RequestBudget` | one budget, any number of caller threads in the budgeted branch of `_post_with_retry` and the route loop around it, a controller, the clock | state machine |
| `AttemptLedger` | what a budget promises, without fields, lock or callers; `RequestBudget` and each budgeted request of `RouteChain` implement it | abstract specification |
| `RouteChain` | `chat()`: several requests, one cooldown map, a `BudgetObject` per budgeted request | state machine |
| `ConnectionPool` | `_ConnectionPool`: idle buckets, threads in `request_json` | state machine |
| `EmbedCache` | `embed()` and its cache under a changing configuration | state machine |
| `MeshReachability` | `refresh_reachability()`: overlapping sweeps, their flags and time stamp | state machine |
| `MeshCoordinator` | `pick_order()`, `proxy()` and `status()` over flags that may change | state machine |
| `LocalStore` | `verify_store_bytes()` in worker threads, and whoever writes to the files | state machine of its own variables |
| `ControlGateway` | `POST /v1/chat/completions` of the gateway, over `LocalStore` | composition |
| `ForgeMesh` | the loopback example: slots, deadlines, one fallback | state machine |
| `SpaceHub` | a Space: revisions, visibility, runtime, other writers | environment of the next two |
| `SpacePublisher` | `publish()` of the control Space and its receipt, with kills and further runs | state machine over `SpaceHub` |
| `SpaceWatch` | deployment, runtime wait and drift check of the router Space | state machine over `SpaceHub` |
| `Spaces` | `SpacePublisher` and `SpaceWatch` over one `SpaceHub` | composition |
| `MCRequestBudget`, `MCRouteChain`, `MCConnectionPool`, `MCMeshCoordinator`, `MCMeshReachability`, `MCControlGateway`, `MCSpaces` | instances for TLC | model checking |
| `MCMeshFailover` | `MCMeshCoordinator` with a history variable | model checking |
| `MCServiceParts` | `ForgeMesh` or `EmbedCache`, which share nothing | model checking |
| `RequestBudget_proofs`, `RouteChain_proofs`, `ConnectionPool_proofs`, `MeshReachability_proofs`, `MeshCoordinator_proofs`, `ControlGateway_proofs`, `Spaces_proofs` | theorems about the module of that name | proofs |
| `ServiceParts_proofs` | theorems about `ForgeMesh` and about `EmbedCache` | proofs |

**BudgetObject.** The record has the object's fields; a dispatch row
`{"attempt": n, "outcome": o}` is the n-th element of `dispatches`. `Reserve`
and `AllowBackoff` are split into the reason they would refuse for
(`ReserveStop`, `BackoffStop`, in the order of the code's tests, which differs
between the two) and the state they leave. The methods hold the object's one
lock from first to last statement, so each is one step of the module that uses
it. Operators marked *Wrong* are plausible mistakes, unused by any definition;
each shows that some property would notice it.

**RequestBudget.** A caller is `between` routes, `ready` to reserve, `sending`,
about to back off, `drowsy` (the back-off was allowed, the sleep not begun),
`asleep`, `answered`, about to close the budget, or `done`. The clock may
advance and the controller may cancel or close between any two of these, so
every check may be stale when it is acted upon. A post may outlast its socket
timeout, which in the code bounds each blocking read and not the exchange. The
close at the end of an unserved request is a step after the one that chose its
reason, because the code reads `terminal` and `reserved` under the lock and
releases it in between.

**RouteChain.** One action per outcome of a line of `chat()`: a route is passed
over, found cooled, skipped or taken; the look for a later warm candidate reads
one cooldown per step, since each read takes the lock anew; a dispatch, the
pool's resend, its five kinds of outcome, the retry; the failure that cools the
provider, the answer that is no completion, the served answer whose cooldown is
lifted in a step of its own. Cooldowns lapse at any moment, which covers all
values of `SZL_COOLDOWN_SECONDS` above zero and steps of the wall clock the code
uses. `sent` is a history variable: it counts POSTs on the wire.

**ConnectionPool.** A thread is at rest, sending, resending, has the head of a
response (`recv`), or has released or closed its connection and parses the body
(`parse`). Only bucket accesses hold the pool's lock, so each is one step and
everything else interleaves. Connection objects have an identity apart from
their socket: `http.client` opens a new socket when a closed object sends again,
which is why a closed object in a bucket can be used. `limit` is whose timeout
is set on an object; `dropped` is a history variable. The dispatch of
`RouteChain` is this exchange seen from outside: `HiddenResend` there is the
second branch of `SendFails` here.

**MeshReachability.** The test of the cache's age, each probe, and the new time
stamp are steps of their own, as the code holds the lock only for the first and
the last. `probed` is a history variable: when the sweep began that set a flag.
Time passes within a sweep for at most `MaxSweep`, which stands for the probes'
timeouts.

**MeshCoordinator.** A thread refreshes, takes its candidates from the flags,
orders them by load and cursor, and as a request goes through `next` (about to
try the first of its order, or to give up) and `send`. Flags change arbitrarily
while anybody refreshes, which covers whatever `MeshReachability` does. The
flags are read in one step, and so are the cursor and the loads: no property
depends on which of several workers comes first.

**LocalStore.** A scan is queued, opens a file (fingerprint), reads it chunk by
chunk and compares fingerprint and digest at its end; the deadline or the stop
event may end it at any chunk. The caller that gives up sets the stop event; a
thread that has not begun then never begins. A file is two chunks, each the
pinned one or not, and a version, which stands for the fields of the
fingerprint. Writes are in place, one chunk at a time; a write that leaves the
fingerprint as it was is out of the code's sight and of the model. `intact` is a
history variable: the files that were whole at some moment of the scan.

**ControlGateway.** The environment of a process is drawn once, as the code reads
it anew but nothing changes it. A request is admitted or refused, takes its
candidates in the order of `route_candidates`, and spends each attempt in awaits
(`/api/tags`, `/api/ps`, the scan, the POST); between any two awaits every other
request, scan and write may step. A timeout is due at `MaxTimeout` units of the
attempt or at the end of the request's `MaxRoute`. Row and refusal wordings that
have the same effect are collapsed to `REFUSED`, `FAILED` and `UNKNOWN`. The
receipt is the last step (`Seal`). `posted` and `cut` are history variables.

**ForgeMesh.** One action for each place where a handler's thread waits or
branches: accept or turn away, headers, body, pick under the lock, connect,
exchange, relay, release of the count, release of the slot. A deadline is an
action of its own (`Expire`), as the timer thread shuts sockets under the
handler. `sent` is a history variable: the backends that may hold bytes of the
request. All syntax checks are one rejection.

**EmbedCache.** A call detaches its input, captures the routes slot by slot,
makes its key, reads the clock, then the cache, and posts route by route; the
configuration may change between any two of these, two slots included, and get
and put read the clock before they take the lock, as the code does. A caller's
budget that is concluded ends the loop at any turn (`Fail`).

**SpaceHub, SpacePublisher, SpaceWatch.** A Space is the sequence of its
revisions, each of one of six kinds of content, a visibility, and a runtime
that follows at its own pace while the previous container may still answer.
`SpacePublisher` has one step per remote call and one per checkpoint, and a kill
between any two; every call may fail, as a refusal or otherwise (`Fails`), and a
lost answer of a write leaves `UNKNOWN` in the receipt. What may be written over
is decided as the code does (`Admissible`): in a Space that was there, by the
bytes of its files; in the one this run has created, by the names of its files
alone. The content `"bare"` is a revision of others whose names pass there.
`SpaceWatch` has one step per request of the three workflows, and one evidence
document that all attempts of the drift check write to. The waiter takes the
visibility from the repository's answer, not from the runtime's (`hidden`). Any
request of the drift check may fail, for good or until the next attempt
(`NoAnswer`); a mismatch that is none of bytes leaves `bytes` as an earlier
attempt left it; and a container may attest the Hub's head as it knows it in place
of its own revision (`Attests`), so that accepted evidence does not show which
revision the answering container was built from. `space` tells which of
the two Spaces a behaviour is about, since their scripts never touch the other.

## 3. Runs

| Run | Instance | States | Shows |
|---|---|---|---|
| `request_budget` | 2 callers, ceiling 2, deadline 3, timeouts {1, 4}, delays {0, 1, 2}, horizon 6 | 335 thousand | the nine properties of `RequestBudget`, liveness and the refinement included |
| `route_chain` | `szl-large` without and `szl-fast` with a budget, over two sovereign providers in opposite orders and a grid provider; 2 tries, ceiling 2, deadline 1 | 1.0 million | the eight properties of `RouteChain`, liveness and the refinement included |
| `route_chain_last_resort` | the same | | counterexample to `LastResortTried`, see section 6 |
| `connection_pool` | 2 threads, one with a budget; 2 hosts, 4 connections; 1 host tracked, 1 idle connection kept | 337 thousand | the five properties of `ConnectionPool` |
| `connection_pool_dropped` | the same | | counterexample to `DroppedNotReused`, see section 6 |
| `mesh_coordinator` | 2 requests, 1 status poll, again and again; 2 sovereign workers, 1 tailnet worker, the failover | 80 thousand | the four properties of `MeshCoordinator` |
| `mesh_failover` | the same | | counterexample to `AllReachableTried`, see section 6 |
| `mesh_reachability` | 2 requests and 1 status poll, again and again; 2 workers, cache time 2, sweep 1, horizon 4 | 284 thousand | the two properties of `MeshReachability` |
| `control_gateway` | 2 requests; a pinned local model and an HTTPS provider, or three HTTPS providers; eight environments, three stores, 2 writes per file; attempt timeout 1, route limit 2 | 125 thousand | the five properties of `ControlGateway` |
| `spaces` | 3 revisions; 2 runs of the publisher, or 3 attempts of the workflows | 6.4 million | the three properties of `SpacePublisher` and `SpaceWatch` |
| `spaces_evidence` | the same | | counterexample to `EvidenceOneRevision`, see section 6 |
| `service_parts` | 3 clients on 2 slots of the Forge mesh, or 2 calls of `embed()` over 1 cache entry and 2 configurations, time to live 1 | 1.1 million | the four properties of `ForgeMesh` and `EmbedCache` |

Why the bounds are enough. Two callers suffice for every race on the budget:
each property relates at most two callers, and a third adds only another
source of the same lock steps. Ceiling 2 has a first, a last and a refused
attempt, for one caller or shared. Timeout 4 exceeds the deadline and 1 does not;
delays 0, 1 and 2 end before, at and after it. `Horizon` bounds the clock: from
6 on every comparison with the deadline and every pending sleep has the same
answer, so later moments are not told apart and a sleep that would end there ends
at `Horizon`. In `RouteChain` the two requests meet the same two providers in
opposite orders, so that each can cool what the other's decision rests on. The
armed set is either all three providers or one of the two. `szl-fast` may also
name a grid provider directly, which yields `policy_blocked`. Two tries have a
first and a last. `Controller` acts on requests that are not over, since nobody
reads a budget after that.
In `ConnectionPool` both bounds are 1, so that every release meets an empty, a
full or an absent bucket and the second host is the one too many; four
connections are one more than two threads and a bucket hold, so a new one can
always be made. In `MeshReachability` it takes a slow sweep, a later one that
overtakes it and a reader of the cache, which are the three threads; the horizon
is beyond the age at which a flag would be too old (`Ttl + MaxSweep`). The
registry of `MeshCoordinator` is the one `build_workers_from_env` makes when all
are configured; any subset of it is covered by workers that are never up. The
cursor counts modulo 2, the largest number of workers in one tier.

In `ControlGateway` one request may go anywhere and the other insists on the
local model, so that both want the scan's one slot. An attempt's timeout of 1
can fire before and after each of its awaits, and a route limit of 2 ends a
request in the middle of a later attempt. The environments switch off in turn
the store, the keys, the bearer token, egress and the registry; one has a
disabled provider that holds the only key. Files are intact for good, pinned
elsewhere, or begin half right; two writes can make such a file right and wrong
again, in either order with the reads.
In the Spaces, revision 1 is there or created, 2 is the publisher's or another's,
and 3 overtakes it; two runs are a killed one and its repetition, three attempts
a rejected one, a retry and a later task.
In `ForgeMesh` the third client meets full slots; two backends are all there
are. In `EmbedCache` one entry makes every second key evict, and the two
configurations differ in addresses, namespace, switches and in what an override
names; one clock step is the difference between fresh and expired.

Deadlock is checked where the system never stops. `MCRouteChain`,
`MCControlGateway`, `MCSpaces` and `MCServiceParts` say `CHECK_DEADLOCK FALSE`:
when all their requests, runs or attempts are over, and no cooldown, write,
commit or clock step is left within the bounds, nothing more happens.

### Properties

- `OwnAttempt`: concurrent reservations share no number and no row, the ceiling
  bounds them together, and nobody else's note changes the row of a dispatch.
- `InFlightHonest`: the summary says `known` only when every row is.
- `WithinDeadline`: a socket timeout ends by the absolute deadline, whatever
  delay lay between check and reservation.
- `ReasonTruthful`: the terminal reason is true of the request.
- `NoDispatchAfterStop`, `FirstReasonStands`: what a step may never do.
- `KeepsLedger`: `RequestBudget` implements `AttemptLedger`. Attempts map to
  `granted`, rows that are still unknown to `unresolved`, the deadline to `late`,
  the terminal reason to `verdict`.
- `KeepsLedgers`: so does the budget of every request of `RouteChain`, under the
  same mapping, stated for each request as the initial predicate of the ledger and
  its boxed action.
- `EveryCallerReturns`, `EveryRequestEnds`: liveness.
- `TrailMatchesSends`: with a budget, attempts reserved, POSTs sent and rows in
  the trail agree at every moment.
- `TrailComplete`: no route left behind is missing from the trail.
- `ServedHonestly`: one `ok` row, the last, of an armed sovereign provider.
- `NeverRefusesSilently`: whoever has an eligible route dispatches to one,
  although cooldowns are set and lifted by others while it decides.
- `EndAgreesWithBudget`: the way a request ends agrees with its budget.
- `SendsBounded`: with the pool's resend, an unbudgeted request may send twice
  `SZL_RETRY_MAX_ATTEMPTS` per eligible route and no more.
- `OneOwner`: from checkout to release a connection has one user and is in no
  bucket.
- `NoSocketLeak`, `PoolBounded`: every open socket is pooled or in use, and the
  two bounds hold.
- `OwnTimeout`: an exchange on a kept-alive socket runs under its own request's
  timeout; `WithinDeadline` of the budget rests on it.
- `RequestReturns`, `EveryThreadReturns`: liveness.
- `LoadCounts`: a worker's in-flight count is the number of requests at it, on
  every path of `proxy()`.
- `NeverTwice`: a request replayed after a failure goes to other workers only.
- `UnknownStops`: an attempt of unknown outcome is the last of its request, and
  when a timeout has cut off a provider the response says so.
- `ReadinessHonest`: a gateway that reports ready refuses nobody for its
  configuration; one that does not posts nothing.
- `PostedOnMatch`: a weight-pinned model gets a prompt only after each of its
  files was intact at some moment of this request's own scan. That is as much as
  reading can show: a file may be written to once it has been read.
- `CapacityReturns`, `EveryChatAnswered`: liveness of scan and gateway.
- `ReceiptHonest`: whenever the runner is killed, the receipt claims neither more
  nor less than the run did.
- `NothingLost`: no upload of any run comes on top of files of others, but in one
  case: the first upload into a Space the publisher has created itself may come
  on top of a revision of others that has no file but `.gitattributes` and
  `README.md` (section 6).
- `AcceptedCoherent`: accepted evidence is of one revision, which at some moment
  of the attempt was head and running; "converged" is said of what runs.
- `CountsReturned`: every slot and in-flight count of the Forge mesh is held by
  a handler that uses it. `NoReplay`: the bytes of a request reach one backend at
  most. `EveryCallerLeaves`: liveness.
- `VectorsOwn`: every vector comes from the end point and credential its caller
  captured, for its input and namespace, fresh when looked up.
- `FlagsFresh`: whoever reads the flags after its refresh finds none older than
  `probe_ttl` and one sweep; a status finds none older than one sweep. The sweep
  is the price of overlap: an older sweep may end after a newer one.

### Fairness

`RequestBudget` assumes weak fairness of each caller's step and of the clock:
threads are scheduled, a post ends because its reads time out, time passes.
`RouteChain` assumes weak fairness of each request's step and of nothing else:
a request must end even if cooldowns never lapse and the clock stands still. `ConnectionPool` and `MeshCoordinator` assume weak fairness of each thread inside
a request: threads are scheduled, and every send, read and probe has a timeout;
no thread need ever make a request. `ControlGateway` assumes it of what the event
loop does by itself (timeouts and the passing of time included) and of each
scan's thread; the answers of providers are in no fair action, so `EveryChatAnswered`
holds though none ever comes. `ForgeMesh` assumes that a handler which need not
wait for a peer runs, that its timer fires, and that a call on a socket the timer
has shut returns; nothing of peers. The controller is never obliged to act.
`MCSpaces` states no fairness and no liveness: all three workflows are bounded
by counters of attempts and by deadlines outside the model.

## 4. Proofs

`RequestBudget_proofs` proves, for any set of callers, any ceiling from 1 to 16,
any deadline, timeouts and delays (the assumption `BudgetAssumption`, which is
the validation in `RequestBudget.__init__` and `reserve`):

- `TypeCorrect`: `Spec => []TypeOK`.
- `Invariance`: `Spec => []IInv`, with `IInv` the conjunction of `TypeOK`,
  `OwnAttempt`, `InFlightHonest`, `WithinDeadline` and `ReasonTruthful`; each
  part is then a theorem of its own.
- `NothingDispatchedAfterStop` and `FirstReason`: the two action properties.
- `LedgerKept`: `Spec => KeepsLedger`, the refinement.

The argument. `ReasonTruthful` is not inductive alone: a `success` rests on an
answered row, and only `OwnAttempt` excludes that a late note of another caller
turns that row back to unknown. `OwnAttempt` therefore speaks of attempt numbers
of callers that are no longer sending too: numbers above zero are never shared.
The lemmas on the methods say what each does to the fields. Two lemmas classify
the steps, by what they do to the attempts (`AttemptSteps`: nothing, a granted
reservation, or an observed outcome) and to the conclusion (`VerdictSteps`:
nothing, or a conclusion that is true when given), with one case per action. The
invariants and the refinement then need three cases each instead of fifteen.

`MeshReachability_proofs` proves, for any threads, workers, cache time and length
of sweeps (`ReachabilityAssumption`), `TypeOK` and `FlagsFresh`. `FlagsFresh`
alone says nothing of the cache before it is used; the invariant adds that the
stamp is at most one sweep younger than any flag (`CacheHonest`), that the flags
a sweep has passed are no older than one sweep before it (`SweptFresh`: its own,
or those of a sweep that overlaps it), and that no sweep outlasts `MaxSweep`
(`SweepsShort`). That bound is an assumption on the probes' timeouts.

`MeshCoordinator_proofs` proves, for any finite sets of threads and any registry
(`MeshAssumption`), `TypeOK`, `LoadCounts` and `NeverTwice`. A step begins an
exchange, ends one, or touches none, and three lemmas say what that does to the
set of requests at each worker. `NeverTwice` rests on orders that name no worker
twice (`Distinct`), which follows from the comparison being irreflexive.

`RouteChain_proofs` proves, for any requests, chains, tiers, configurations,
budgets, retry limits and delays (`RouteAssumption`), every safety property of
the run. What a request keeps to itself is one record (`View`), and `IInv` is a
conjunction of parts, each about one view: `Placed` (where it is in its chain),
`Trailed` (its rows follow the chain), `Kinded` (what they say was sent and
answered), `Unsent` (until something is sent, a candidate was only ever passed
over for a later eligible one), and, of a view and its budget, `Counted` and
`Concluded`. `Unsent` is what makes `NeverRefusesSilently` inductive: the skip of
a cooled route was decided by a cooldown that may be gone, but the eligible route
it was skipped for is still ahead. A step changes one request (`Framed`), so each
lemma shows the parts for the new view only. `SendsBounded` needs a second
invariant (`Paced`): the room of the eligible routes behind, plus two sends
per try on this one, the second of which is owed until the pool has used it.
`LedgersKept` is the refinement: each budgeted request implements `AttemptLedger`.
Seen from one request every step, its own, another's, the controller's or the
clock's, is of one of five kinds (`Idles`, `Settles`, `Grants`, `Notes`,
`Cancels`), and `LedgerStep` maps each kind to a step of the ledger or a stutter.
The mapping needs `Ledgered`: the summary is true of the rows, a request at the
wire has a last row nobody has answered, and one that got an answer has a last
row that is known, without which it could not be concluded a success.

`ConnectionPool_proofs` proves, for any threads, hosts, connections and bounds,
the type invariant and the four safety invariants of the run. They are
strengthened by `Unique` (no object is in two places of the buckets) and `Apart`
(whoever is between checkout and release has its object for itself). The invariant says nothing of a thread that
parses a body, which does share its object with later users, see section 6.

`ServiceParts_proofs` proves, for any finite set of clients and any number of
slots (`ForgeAssumption`), `CountsReturned` and `NoReplay` of `ForgeSpec`.
`Shape` tells, for each place of a handler, what it may have tried, sent and
answered; the sums over clients change by one when one client changes place
(`Counting`). For any calls, inputs, configurations, time to live and size of
the cache (`EmbedAssumption`) it proves `VectorsOwn` of `EmbedSpec`. `Carried`
says of a call that its vector answers the key of the route its turn is at, was
received before the clock was read for its stamp, and, if replayed, had not
expired when looked up; `CacheHolds` says the same of every entry under its own
key. Both survive any change of the configuration because neither mentions it.
The bound of the cache rests on eviction finding an entry: a set of naturals has
a least member (`Least`), so `Oldest` is one of the entries, and one leaves for
each that is added (`Room`).

`ControlGateway_proofs` proves, for any requests, providers, environments, stores
and number of writes, `UnknownStops`, `ReadinessHonest` and `PostedOnMatch`.
`Honest` is the invariant of a scan: it has seen every file that is whole now and
all it has passed, and as long as the version it opened stands, what it has read
of the file is what the file holds. On it rests `Sealed`: past the scan, a pinned
model's files have all been intact.

`Spaces_proofs` proves, for any number of revisions, of runs and of attempts,
`ReceiptHonest`, `NothingLost` and `AcceptedCoherent`, and the action property
`Grown`. Everything rests on `Grown`, what no step of anybody undoes: revisions
are immutable and only added, and the runtime never goes back. So what a workflow
has read of a revision is still true at its next request. `ReceiptHonest` needs
`Recorded`: the receipt says `UNKNOWN` from before a write is sent until its
answer is known. `NothingLost` needs `Admitted`: from the identity check to the
upload the parent is an existing revision, not of foreign files, and of others
only in a Space the run has created; and the upload names it, so another commit
in between makes the Hub refuse. That this last case comes only before anything
of the publisher is there needs `Fresh`: a created Space starts with the Hub's
commit and holds nothing published until this run uploads. `AcceptedCoherent`
needs `Witnessed`: between the requests of an attempt the revision of the
evidence was running at the tip once (`met`) or is no longer the tip, and then
the second reading of the tip cannot find it there again.

Every safety invariant, every action property and both refinements that a run
checks are thus theorems for all values of the constants. Only model-checked are
the liveness properties, since fairness and ENABLED are out of the prover's reach:
`EveryCallerReturns`, `EveryRequestEnds`, `RequestReturns`, `EveryThreadReturns`,
`CapacityReturns`, `EveryChatAnswered` and `EveryCallerLeaves`.

## 5. Not modelled

Left out of the modelled parts: contents of requests and answers (what decides
is whether an answer is a completion), latencies, cost blocks, argument
validation that raises before any state changes, a clock that returns no finite
number, and a callback (`on_attempt`, `poster`) that raises something other than
an `Exception`. Of the gateway: the read-only pages, the cached report of local
models, the offline verification of a bundle and the free-tier catalogue. Of the
Spaces: what cards, witnesses and bindings say, each of which is one comparison.

Not modelled at all, and why:

- the complexity scorer: text to a number, whose only effect is the choice of a
  chain, and `RouteChain` takes any;
- harvest cache and fabric status: two assignments without a lock before a
  read-only report; a reader in between gets a list one refresh old, and nothing
  is decided from it;
- the spend guard: its check is documented as advisory, and the gap between
  `allow` and `record` is all there is to it; nothing it promises could fail;
- the grid context: one opt-in block with one flag, read by no decision;
- receipts, verification, bundle and image check: functions of bytes and
  cryptographic primitives, with no state between calls;
- `app.py` of the package, the public Space's server, the release gate and the
  demo: wrappers and drivers without state of their own.

Six hazards of these and of modelled parts have no property, because the code
promises nothing the behaviour would break; `PROJECT.json` gives the reason for
each.

## 6. Where code and documentation differ

`LastResortTried` states "Last-resort routes are always tried"
(`szl_router/core.py:1202`) and "a cooled provider is skipped only while a warm
eligible fallback remains — if none remains, the cooled eligible provider is
tried" (`README.md`, Reliability). TLC finds the contrary: `szl-large` finds
`box-gpu` cooled and skips it because `omen-gpu` is warm; `omen-gpu` then fails,
the loop has only passed the skipped route, and the request raises without having
consulted `box-gpu`. The skip is decided once, from what is warm at that time.
The trail does record the skip, and `NeverRefusesSilently` shows that some
eligible provider was always tried.

`DroppedNotReused` states "A connection that errors ... is dropped, not reused"
(`szl_router/core.py:390`). TLC finds the contrary: a 200 comes whose body is no
JSON; the connection is released to its bucket before the body is parsed, and
parsing raises; the connection is closed but stays in the bucket, and the next
request checks it out. If another thread checks it out between release and close,
that thread loses its socket in the middle of an exchange. `OneOwner`, which
holds, speaks of the time before the release only.

`AllReachableTried` states what `proxy()` raises, "all reachable workers failed"
(`szl_router/mesh_coordinator.py:420`), and "502 + attempts when nothing is
reachable" (`docs/MESH_COORDINATOR.md:97`). TLC finds the contrary: the order of
a request holds the workers of one tier. When a worker of that tier goes down
within `probe_ttl` of its probe, the request fails with 502 although the failover
is armed, was probed reachable, and was never tried.

`EvidenceOneRevision` states that the drift check "verifies the complete remote
file set and every byte at one immutable HF revision" (`README.md:329-330`). TLC
finds the contrary: `verify_with_polling()` passes one evidence document to all
its attempts, and `verify_once()` writes the revision anew
(`scripts/hf_space_drift_check.py:1039`) without withdrawing what the attempt
before found about bytes. An attempt compares the bytes at one revision and fails
later for a reason that may pass; the next one sees another revision and ends
before it compares. The rejected evidence then names the new revision and calls
its bytes aligned. `AcceptedCoherent`, which holds, shows that this never happens
to accepted evidence: acceptance needs one attempt that went all the way.

One more difference is not a run of its own, but the exception `NothingLost`
makes. `_new_target_metadata` is to "Freeze the Hub system commit's metadata
before any upload" (`scripts/router_control_space.py:296`), and compares the
names of the files only. When somebody commits a revision with these names
between `create_repo` (375) and the second `repo_info` (379), that revision is
taken for the Hub's: its metadata is frozen, it becomes `parent_commit`, and its
`README.md` is written over. In `SpacePublisher` these are the steps `Create`,
`OtherCommit` of `"bare"`, `Created`, `Admit`, `RequestUpload` and `Upload`. A
revision with any other file is refused there, and so is any commit that comes
after the head was read.
