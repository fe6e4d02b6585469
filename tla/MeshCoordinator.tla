-------------------------- MODULE MeshCoordinator --------------------------
(***************************************************************************)
(* MeshCoordinator of szl_router/mesh_coordinator.py: handler threads that *)
(* proxy requests to workers, and threads that ask for the status.         *)
(*                                                                         *)
(* Both refresh what is known of the workers (MeshReachability; here any   *)
(* flag may change while somebody refreshes), then pick_order() takes the  *)
(* flags, the round-robin cursor and the loads, and a request tries the    *)
(* workers in that order.  Workers answer anything.                        *)
(*                                                                         *)
(* The cursor counts modulo Cycle.  An operator marked "Wrong:" is a       *)
(* plausible mistake in the definition after it, which no other definition *)
(* uses.                                                                   *)
(***************************************************************************)
EXTENDS Naturals, FiniteSets, Sequences

CONSTANTS
  Clients,    \* threads that run proxy()
  Watchers,   \* threads that run status()
  Registry,   \* the workers, in order
  Sovereign,  \* owned metal
  Failover,   \* the cloud tier, not in the registry
  Cycle       \* a multiple of every number of candidates

Listed == {Registry[i] : i \in DOMAIN Registry}
Nodes == Listed \cup {Failover}
Threads == Clients \cup Watchers

\* The first tier that has a worker in S; the failover is a tier of its own.
Candidates(S) ==
  IF S \cap Sovereign # {} THEN S \cap Sovereign
  ELSE IF S \cap Listed # {} THEN S \cap Listed
  ELSE S

ASSUME MeshAssumption ==
  /\ IsFiniteSet(Threads) /\ Clients \cap Watchers = {}
  /\ Registry \in Seq(Listed)
  /\ \A i, j \in DOMAIN Registry : Registry[i] = Registry[j] => i = j
  /\ Sovereign \subseteq Listed
  /\ Failover \notin Listed
  /\ Cycle \in Nat \ {0}
  /\ \A S \in SUBSET Listed : S # {} => Cycle % Cardinality(Candidates(S)) = 0

VARIABLES
  reach,   \* Worker.reachable
  rr,      \* _rr
  load,    \* Worker.inflight
  pc,      \* where each thread is
  live,    \* its candidates, until it has ordered them
  order    \* workers it has yet to try, the one being tried first

vars == <<reach, rr, load, pc, live, order>>

Stations == {"rest", "refresh", "sort", "next", "send"}

Init ==
  /\ reach \in [Nodes -> BOOLEAN]
  /\ rr = 0
  /\ load = [w \in Nodes |-> 0]
  /\ pc = [t \in Threads |-> "rest"]
  /\ live = [t \in Threads |-> {}]
  /\ order = [t \in Threads |-> << >>]

Go(t, from, to) == pc[t] = from /\ pc' = [pc EXCEPT ![t] = to]

\* t is done.
Leave(t, from) ==
  /\ Go(t, from, "rest")
  /\ order' = [order EXCEPT ![t] = << >>]

-----------------------------------------------------------------------------
(* refresh_reachability *)

Arrive(t) == Go(t, "rest", "refresh") /\ UNCHANGED <<reach, rr, load, live, order>>

\* Somebody's probe sets a flag.
Probe ==
  /\ \E t \in Threads : pc[t] = "refresh"
  /\ \E w \in Nodes, up \in BOOLEAN : reach' = [reach EXCEPT ![w] = up]
  /\ UNCHANGED <<rr, load, pc, live, order>>

-----------------------------------------------------------------------------
(* pick_order *)

\* The flags are read in one step: every probe may answer anything, so reading
\* them one by one would leave no other candidates.
Look(t) ==
  /\ Go(t, "refresh", "sort")
  /\ live' = [live EXCEPT ![t] = Candidates({w \in Nodes : reach[w]})]
  /\ UNCHANGED <<reach, rr, load, order>>

\* The cursor moves on when there are workers of the registry to order.
TakeTurn(t) == rr' = IF live[t] \cap Listed = {} THEN rr ELSE (rr + 1) % Cycle

Index(w) == IF w = Failover THEN 0 ELSE (CHOOSE i \in DOMAIN Registry : Registry[i] = w) - 1

\* v goes before w: less in flight, then the cursor, then the registry.
Before(v, w, r, n) ==
  \/ load[v] < load[w]
  \/ load[v] = load[w] /\ (Index(v) + r) % n < (Index(w) + r) % n
  \/ load[v] = load[w] /\ (Index(v) + r) % n = (Index(w) + r) % n /\ Index(v) < Index(w)

\* The one order of the workers in S in which each goes before the next.
Orders(S, r) ==
  LET n == Cardinality(S) IN
  {s \in [1..n -> S] : \A i, j \in 1..n : i < j => Before(s[i], s[j], r, n)}

\* The cursor and the loads are read in one step.
Sort(t) ==
  /\ t \in Clients
  /\ Go(t, "sort", "next")
  /\ TakeTurn(t)
  /\ \E s \in Orders(live[t], rr') : order' = [order EXCEPT ![t] = s]
  /\ live' = [live EXCEPT ![t] = {}]
  /\ UNCHANGED <<reach, load>>

\* status() picks as a request would, and reports.
Report(t) ==
  /\ t \in Watchers
  /\ Leave(t, "sort")
  /\ TakeTurn(t)
  /\ live' = [live EXCEPT ![t] = {}]
  /\ UNCHANGED <<reach, load>>

-----------------------------------------------------------------------------
(* proxy *)

\* Wrong: an exchange is not counted while it lasts.
ForwardUncounted(t) ==
  /\ Go(t, "next", "send") /\ order[t] # << >>
  /\ UNCHANGED <<reach, rr, load, live, order>>

Forward(t) ==
  /\ Go(t, "next", "send") /\ order[t] # << >>
  /\ load' = [load EXCEPT ![Head(order[t])] = @ + 1]
  /\ UNCHANGED <<reach, rr, live, order>>

\* The worker answers below 500.
Answer(t) ==
  /\ Leave(t, "send")
  /\ load' = [load EXCEPT ![Head(order[t])] = @ - 1]
  /\ UNCHANGED <<reach, rr, live>>

\* Wrong: a worker that did not answer keeps its load.
FailureUncounted(t) ==
  /\ Go(t, "send", "next")
  /\ order' = [order EXCEPT ![t] = Tail(@)]
  /\ UNCHANGED <<reach, rr, load, live>>

\* Wrong: tries the same worker again.
FailureAgain(t) ==
  /\ Go(t, "send", "next")
  /\ load' = [load EXCEPT ![Head(order[t])] = @ - 1]
  /\ UNCHANGED <<reach, rr, live, order>>

\* The worker answers 500 or above, or the exchange raises.
Failure(t) ==
  /\ Go(t, "send", "next")
  /\ load' = [load EXCEPT ![Head(order[t])] = @ - 1]
  /\ order' = [order EXCEPT ![t] = Tail(@)]
  /\ UNCHANGED <<reach, rr, live>>

\* Wrong: starts again as long as no worker answers.
GiveUpAgain(t) ==
  order[t] = << >> /\ Go(t, "next", "refresh") /\ UNCHANGED <<reach, rr, load, live, order>>

\* CoordinatorError: no worker to try, or "all reachable workers failed".
GiveUp(t) == order[t] = << >> /\ Leave(t, "next") /\ UNCHANGED <<reach, rr, load, live>>

-----------------------------------------------------------------------------
Progress(t) ==
  \/ Look(t) \/ Sort(t) \/ Report(t)
  \/ Forward(t) \/ Answer(t) \/ Failure(t) \/ GiveUp(t)

Next == Probe \/ \E t \in Threads : Arrive(t) \/ Progress(t)

Spec == Init /\ [][Next]_vars

\* Threads run, and every probe and exchange ends by its timeout.
FairSpec == Spec /\ \A t \in Threads : WF_vars(Progress(t))

-----------------------------------------------------------------------------
TypeOK ==
  /\ reach \in [Nodes -> BOOLEAN]
  /\ rr \in 0..(Cycle - 1)
  /\ load \in [Nodes -> Nat]
  /\ pc \in [Threads -> Stations]
  /\ live \in [Threads -> SUBSET Nodes]
  /\ order \in [Threads -> Seq(Nodes)]

At(w) == {t \in Threads : pc[t] = "send" /\ Head(order[t]) = w}

\* A worker's in-flight count is the number of requests at it: after failures,
\* replays and answers in any order none is lost and none counted twice.
LoadCounts == \A w \in Nodes : load[w] = Cardinality(At(w))

\* A request is replayed at other workers only: none gets it twice.
NeverTwice ==
  [][\A t \in Clients : pc[t] = "send" /\ pc'[t] = "next" =>
       \A i \in DOMAIN order'[t] : order'[t][i] # Head(order[t])]_vars

\* Every request is answered or fails, and every status is reported.
EveryThreadReturns == \A t \in Threads : pc[t] # "rest" ~> pc[t] = "rest"
=============================================================================
