---------------------- MODULE MeshReachability_proofs ----------------------
(***************************************************************************)
(* Proofs about MeshReachability, for any threads, any workers, any cache  *)
(* time and any length of sweeps.                                          *)
(*                                                                         *)
(* FlagsFresh rests on what the time stamp promises: it is at most one     *)
(* sweep younger than any flag (CacheHonest).  That holds when a sweep     *)
(* ends because the flags it has passed are that young (SweptFresh), its   *)
(* own or those of a sweep which overlaps it; and no sweep that overlaps   *)
(* it began more than MaxSweep ago (SweepsShort).                          *)
(***************************************************************************)
EXTENDS MeshReachability, TLAPS

Sweeping(t) == pc[t] \in {"check", "sweep"}

\* Clocks were read in the past, no sweep has outlasted MaxSweep, and each starts
\* with the first worker.
SweepsShort ==
  /\ stamp <= now
  /\ \A t \in Threads :
       /\ began[t] <= now
       /\ Sweeping(t) => now <= began[t] + MaxSweep
       /\ pc[t] # "sweep" => swept[t] = 0

CacheHonest == \A w \in Nodes : stamp <= probed[w] + MaxSweep

SweptFresh ==
  \A t \in Threads : \A i \in DOMAIN All :
    pc[t] = "sweep" /\ i <= swept[t] => began[t] <= probed[All[i]] + MaxSweep

IInv == TypeOK /\ SweepsShort /\ CacheHonest /\ SweptFresh /\ FlagsFresh

\* serve() sweeps before anybody asks: every part holds at the start.
LEMMA InitIInv == Init => IInv
  BY ReachabilityAssumption
  DEF Init, IInv, TypeOK, SweepsShort, CacheHonest, SweptFresh, FlagsFresh, Sweeping,
      Stations, Nodes

\* Every step of a thread and of the clock leaves the state well typed.
LEMMA TypePreserved == IInv /\ [Next]_vars => TypeOK'
<1> SUFFICES ASSUME IInv, [Next]_vars PROVE TypeOK'
  OBVIOUS
<1> USE ReachabilityAssumption DEF IInv, TypeOK, Stations
<1>1. ASSUME NEW t \in Threads, Arrive(t) PROVE TypeOK'
  BY <1>1 DEF Arrive, Go
<1>2. ASSUME NEW t \in Threads, UseCache(t) PROVE TypeOK'
  BY <1>2 DEF UseCache, Go
<1>3. ASSUME NEW t \in Threads, StartSweep(t) PROVE TypeOK'
  BY <1>3 DEF StartSweep, Go
<1>4. ASSUME NEW t \in Threads, Probe(t) PROVE TypeOK'
  <2>1. PICK up \in BOOLEAN : reach' = [reach EXCEPT ![All[swept[t] + 1]] = up]
    BY <1>4 DEF Probe
  <2>2. swept[t] + 1 \in 0..Len(All)
    BY <1>4 DEF Probe
  <2> QED
    BY <1>4, <2>1, <2>2 DEF Probe
<1>5. ASSUME NEW t \in Threads, EndSweep(t) PROVE TypeOK'
  BY <1>5 DEF EndSweep, Go
<1>6. ASSUME NEW t \in Threads, Read(t) PROVE TypeOK'
  BY <1>6 DEF Read, Go
<1>7. ASSUME Tick PROVE TypeOK'
  BY <1>7 DEF Tick
<1>8. CASE UNCHANGED vars
  BY <1>8 DEF vars
<1> QED
  BY <1>1, <1>2, <1>3, <1>4, <1>5, <1>6, <1>7, <1>8 DEF Next, Progress

\* A thread reads the clock before it sweeps, and the clock waits for sweeps.
LEMMA ShortPreserved == IInv /\ [Next]_vars => SweepsShort'
<1> SUFFICES ASSUME IInv, [Next]_vars PROVE SweepsShort'
  OBVIOUS
<1> USE ReachabilityAssumption DEF IInv, TypeOK, SweepsShort, Sweeping, Stations
<1>1. ASSUME NEW t \in Threads, Arrive(t) PROVE SweepsShort'
  BY <1>1 DEF Arrive, Go
<1>2. ASSUME NEW t \in Threads, UseCache(t) \/ StartSweep(t) \/ Read(t) PROVE SweepsShort'
  BY <1>2 DEF UseCache, StartSweep, Read, Go
<1>3. ASSUME NEW t \in Threads, Probe(t) PROVE SweepsShort'
  BY <1>3 DEF Probe
<1>4. ASSUME NEW t \in Threads, EndSweep(t) PROVE SweepsShort'
  BY <1>4 DEF EndSweep, Go
<1>5. ASSUME Tick PROVE SweepsShort'
  BY <1>5 DEF Tick
<1>6. CASE UNCHANGED vars
  BY <1>6 DEF vars
<1> QED
  BY <1>1, <1>2, <1>3, <1>4, <1>5, <1>6 DEF Next, Progress

\* A probe may put an older sweep's flag in the place of a newer one's, but one
\* no older than MaxSweep before any clock reading of a thread.
LEMMA ProbeEffect ==
  ASSUME IInv, NEW t \in Threads, Probe(t)
  PROVE  \A w \in Nodes :
           \/ probed'[w] = probed[w]
           \/ /\ probed'[w] = began[t]
              /\ stamp <= probed'[w] + MaxSweep
              /\ \A u \in Threads : began[u] <= probed'[w] + MaxSweep
<1> USE ReachabilityAssumption DEF IInv, TypeOK, SweepsShort, Sweeping
<1>1. now <= began[t] + MaxSweep
  BY DEF Probe
<1>2. stamp <= began[t] + MaxSweep /\ \A u \in Threads : began[u] <= began[t] + MaxSweep
  BY <1>1
<1> QED
  BY <1>2 DEF Probe

\* The stamp of a sweep that ends is vouched for by the flags it has passed.
LEMMA HonestPreserved == IInv /\ [Next]_vars => CacheHonest'
<1> SUFFICES ASSUME IInv, [Next]_vars PROVE CacheHonest'
  OBVIOUS
<1> USE ReachabilityAssumption DEF IInv, TypeOK, CacheHonest
<1>1. ASSUME NEW t \in Threads, Probe(t) PROVE CacheHonest'
  BY <1>1, ProbeEffect DEF Probe
<1>2. ASSUME NEW t \in Threads, EndSweep(t) PROVE CacheHonest'
  BY <1>2 DEF EndSweep, Go, SweptFresh, Nodes
<1>3. ASSUME stamp' = stamp, probed' = probed PROVE CacheHonest'
  BY <1>3
<1> QED
  BY <1>1, <1>2, <1>3
  DEF Next, Progress, Arrive, UseCache, StartSweep, Read, Tick, vars

\* A sweep leaves its own flags behind, or has them overwritten by one that
\* overlaps it.
LEMMA SweptPreserved == IInv /\ [Next]_vars => SweptFresh'
<1> SUFFICES ASSUME IInv, [Next]_vars PROVE SweptFresh'
  OBVIOUS
<1> USE ReachabilityAssumption DEF IInv, TypeOK, SweptFresh, Nodes
<1>1. ASSUME NEW t \in Threads, Arrive(t) PROVE SweptFresh'
  BY <1>1 DEF Arrive, Go
<1>2. ASSUME NEW t \in Threads, UseCache(t) \/ Read(t) PROVE SweptFresh'
  BY <1>2 DEF UseCache, Read, Go
<1>3. ASSUME NEW t \in Threads, StartSweep(t) PROVE SweptFresh'
  BY <1>3 DEF StartSweep, Go, SweepsShort
<1>4. ASSUME NEW t \in Threads, Probe(t) PROVE SweptFresh'
  <2> SUFFICES ASSUME NEW u \in Threads, NEW i \in DOMAIN All,
                      pc'[u] = "sweep", i <= swept'[u]
               PROVE  began'[u] <= probed'[All[i]] + MaxSweep
    OBVIOUS
  <2>1. All[i] \in Nodes /\ pc[u] = "sweep" /\ began'[u] = began[u]
    BY <1>4 DEF Probe
  <2>2. CASE u = t /\ i = swept[t] + 1
    <3>1. probed'[All[i]] = began[t] /\ began[t] \in Nat
      BY <1>4, <2>1, <2>2 DEF Probe
    <3> QED
      BY <2>1, <2>2, <3>1
  <2>3. CASE i <= swept[u]
    <3>1. began[u] <= probed[All[i]] + MaxSweep
      BY <2>1, <2>3
    <3> QED
      BY <1>4, <2>1, <3>1, ProbeEffect
  <2>4. swept'[u] = swept[u] \/ (u = t /\ swept'[u] = swept[u] + 1)
    BY <1>4 DEF Probe
  <2> QED
    BY <2>2, <2>3, <2>4
<1>5. ASSUME NEW t \in Threads, EndSweep(t) PROVE SweptFresh'
  <2>1. \A u \in Threads : pc'[u] = "sweep" => pc[u] = "sweep" /\ swept'[u] = swept[u]
    BY <1>5 DEF EndSweep, Go
  <2> QED
    BY <1>5, <2>1 DEF EndSweep
<1>6. ASSUME Tick PROVE SweptFresh'
  BY <1>6 DEF Tick
<1>7. CASE UNCHANGED vars
  BY <1>7 DEF vars
<1> QED
  BY <1>1, <1>2, <1>3, <1>4, <1>5, <1>6, <1>7 DEF Next, Progress

\* Whoever gets to read the flags comes from the cache or from its own sweep.
LEMMA FreshPreserved == IInv /\ [Next]_vars => FlagsFresh'
<1> SUFFICES ASSUME IInv, [Next]_vars PROVE FlagsFresh'
  OBVIOUS
<1> USE ReachabilityAssumption DEF IInv, TypeOK, FlagsFresh, Threads
<1>1. ASSUME NEW t \in Threads, Arrive(t) PROVE FlagsFresh'
  BY <1>1 DEF Arrive, Go
<1>2. ASSUME NEW t \in Threads, UseCache(t) PROVE FlagsFresh'
  BY <1>2 DEF UseCache, Cached, Go, CacheHonest
<1>3. ASSUME NEW t \in Threads, StartSweep(t) \/ Read(t) PROVE FlagsFresh'
  BY <1>3 DEF StartSweep, Read, Go
<1>4. ASSUME NEW t \in Threads, Probe(t) PROVE FlagsFresh'
  <2> SUFFICES ASSUME NEW u \in Threads, pc'[u] = "read", NEW w \in Nodes
               PROVE  IF u \in Watchers THEN began'[u] <= probed'[w] + MaxSweep
                      ELSE began'[u] < probed'[w] + Ttl + MaxSweep
    OBVIOUS
  <2>1. pc'[u] = pc[u] /\ began'[u] = began[u] /\ probed' \in [Nodes -> 0..Horizon]
    BY <1>4, TypePreserved DEF Probe
  <2>2. \/ probed'[w] = probed[w]
        \/ began[u] <= probed'[w] + MaxSweep
    BY <1>4, ProbeEffect
  <2> QED
    BY <2>1, <2>2
<1>5. ASSUME NEW t \in Threads, EndSweep(t) PROVE FlagsFresh'
  <2>1. \A i \in DOMAIN All : began[t] <= probed[All[i]] + MaxSweep
    BY <1>5 DEF EndSweep, Go, SweptFresh
  <2>2. \A w \in Nodes : began[t] <= probed[w] + MaxSweep
    BY <2>1 DEF Nodes
  <2>3. /\ began' = began /\ probed' = probed
        /\ \A u \in Threads : pc'[u] = "read" => u = t \/ pc[u] = "read"
    BY <1>5 DEF EndSweep, Go
  <2> SUFFICES ASSUME NEW u \in Threads, pc'[u] = "read", NEW w \in Nodes
               PROVE  IF u \in Watchers THEN began[u] <= probed[w] + MaxSweep
                      ELSE began[u] < probed[w] + Ttl + MaxSweep
    BY <2>3
  <2>4. CASE u = t
    <3>1. began[t] <= probed[w] + MaxSweep /\ began[t] \in Nat /\ probed[w] \in Nat
      BY <2>2
    <3> QED
      BY <2>4, <3>1
  <2>5. CASE pc[u] = "read"
    BY <2>5
  <2> QED
    BY <2>3, <2>4, <2>5
<1>6. ASSUME Tick PROVE FlagsFresh'
  BY <1>6 DEF Tick
<1>7. CASE UNCHANGED vars
  BY <1>7 DEF vars
<1> QED
  BY <1>1, <1>2, <1>3, <1>4, <1>5, <1>6, <1>7 DEF Next, Progress

\* The inductive invariant: the clocks, the stamp, the flags a sweep has passed
\* and the flags about to be read keep within one sweep of each other.
THEOREM Invariance == Spec => []IInv
<1>1. IInv /\ [Next]_vars => IInv'
  BY TypePreserved, ShortPreserved, HonestPreserved, SweptPreserved, FreshPreserved DEF IInv
<1> QED
  BY InitIInv, <1>1, PTL DEF Spec

\* refresh_reachability() keeps its flags, its stamp and its threads well typed.
THEOREM TypeCorrect == Spec => []TypeOK
<1>1. IInv => TypeOK
  BY DEF IInv
<1> QED
  BY Invariance, <1>1, PTL

\* No request acts on a flag older than probe_ttl and one sweep, and no status
\* reports one older than a sweep, however many sweeps overlap.
THEOREM FlagsStayFresh == Spec => []FlagsFresh
<1>1. IInv => FlagsFresh
  BY DEF IInv
<1> QED
  BY Invariance, <1>1, PTL
=============================================================================
