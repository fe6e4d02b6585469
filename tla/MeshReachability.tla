-------------------------- MODULE MeshReachability --------------------------
(***************************************************************************)
(* refresh_reachability() of szl_router/mesh_coordinator.py: what the      *)
(* coordinator knows of its workers, cached for probe_ttl.                 *)
(*                                                                         *)
(* The age of the cache is tested under the lock and the probes are made   *)
(* outside it, so sweeps of several threads overlap, and one may write its *)
(* flags and its time stamp over those of a later one.                     *)
(*                                                                         *)
(* The clock counts whole units up to Horizon, where it stops.  An         *)
(* operator marked "Wrong:" is a plausible mistake in the definition after *)
(* it, which no other definition uses.                                     *)
(***************************************************************************)
EXTENDS Naturals, Sequences

CONSTANTS
  Clients,   \* threads in proxy()
  Watchers,  \* threads in status(), which forces the sweep
  All,       \* the workers in order, the failover last
  Ttl,       \* probe_ttl
  MaxSweep,  \* the longest a sweep lasts, each probe having its timeout
  Horizon    \* where the clock stops

Nodes == {All[i] : i \in DOMAIN All}
Threads == Clients \cup Watchers

ASSUME ReachabilityAssumption ==
  /\ Clients \cap Watchers = {}
  /\ All \in Seq(Nodes)
  /\ Ttl \in Nat \ {0} /\ MaxSweep \in Nat /\ Horizon \in Nat

VARIABLES
  reach,   \* Worker.reachable
  probed,  \* when the sweep began that set the flag (history)
  stamp,   \* _probe_cache_ts
  now,     \* time.monotonic()
  pc,      \* where each thread is
  began,   \* when it looked at the clock
  swept    \* how many workers its sweep has probed

vars == <<reach, probed, stamp, now, pc, began, swept>>

Stations ==
  {"rest", "check", "sweep",
   "read"}  \* the refresh is over, the flags are about to be read

\* serve() sweeps once before it accepts requests.
Init ==
  /\ reach \in [Nodes -> BOOLEAN]
  /\ probed = [w \in Nodes |-> 0]
  /\ stamp = 0 /\ now = 0
  /\ pc = [t \in Threads |-> "rest"]
  /\ began = [t \in Threads |-> 0]
  /\ swept = [t \in Threads |-> 0]

Go(t, from, to) == pc[t] = from /\ pc' = [pc EXCEPT ![t] = to]

-----------------------------------------------------------------------------
Arrive(t) ==
  /\ Go(t, "rest", "check")
  /\ began' = [began EXCEPT ![t] = now]
  /\ UNCHANGED <<reach, probed, stamp, now, swept>>

\* The flags are young enough, and no sweep is forced.
Cached(t) == t \in Clients /\ began[t] < stamp + Ttl

UseCache(t) ==
  /\ Go(t, "check", "read") /\ Cached(t)
  /\ UNCHANGED <<reach, probed, stamp, now, began, swept>>

\* Wrong: takes the time stamp when the sweep begins.
StartSweepStamped(t) ==
  /\ Go(t, "check", "sweep") /\ ~Cached(t)
  /\ stamp' = began[t]
  /\ UNCHANGED <<reach, probed, now, began, swept>>

StartSweep(t) ==
  /\ Go(t, "check", "sweep") /\ ~Cached(t)
  /\ UNCHANGED <<reach, probed, stamp, now, began, swept>>

\* The next probe answers.  What the box's fabric probe says was seen when the
\* sweep began; a TCP probe is younger.
Probe(t) ==
  /\ pc[t] = "sweep" /\ swept[t] < Len(All)
  /\ \E up \in BOOLEAN : reach' = [reach EXCEPT ![All[swept[t] + 1]] = up]
  /\ probed' = [probed EXCEPT ![All[swept[t] + 1]] = began[t]]
  /\ swept' = [swept EXCEPT ![t] = @ + 1]
  /\ UNCHANGED <<stamp, now, pc, began>>

\* Wrong: remembers when the flags expire instead.
EndSweepExpiry(t) ==
  /\ Go(t, "sweep", "read") /\ swept[t] = Len(All)
  /\ stamp' = began[t] + Ttl
  /\ swept' = [swept EXCEPT ![t] = 0]
  /\ UNCHANGED <<reach, probed, now, began>>

EndSweep(t) ==
  /\ Go(t, "sweep", "read") /\ swept[t] = Len(All)
  /\ stamp' = began[t]
  /\ swept' = [swept EXCEPT ![t] = 0]
  /\ UNCHANGED <<reach, probed, now, began>>

\* The thread reads the flags and goes on (MeshCoordinator).
Read(t) ==
  /\ Go(t, "read", "rest")
  /\ UNCHANGED <<reach, probed, stamp, now, began, swept>>

\* No refresh lasts longer than MaxSweep.
Tick ==
  /\ now < Horizon
  /\ \A t \in Threads : pc[t] \in {"check", "sweep"} => now < began[t] + MaxSweep
  /\ now' = now + 1
  /\ UNCHANGED <<reach, probed, stamp, pc, began, swept>>

Progress(t) == UseCache(t) \/ StartSweep(t) \/ Probe(t) \/ EndSweep(t) \/ Read(t)

Next == Tick \/ \E t \in Threads : Arrive(t) \/ Progress(t)

Spec == Init /\ [][Next]_vars

-----------------------------------------------------------------------------
TypeOK ==
  /\ reach \in [Nodes -> BOOLEAN]
  /\ probed \in [Nodes -> 0..Horizon]
  /\ stamp \in 0..Horizon /\ now \in 0..Horizon
  /\ pc \in [Threads -> Stations]
  /\ began \in [Threads -> 0..Horizon]
  /\ swept \in [Threads -> 0..Len(All)]

\* Flags read after a refresh are no older than the cache allows, and those a
\* status reports no older than its own sweep, but for one sweep that overlapped
\* and ended late.
FlagsFresh ==
  \A t \in Threads : pc[t] = "read" =>
    \A w \in Nodes :
      IF t \in Watchers THEN began[t] <= probed[w] + MaxSweep
      ELSE began[t] < probed[w] + Ttl + MaxSweep
=============================================================================
