----------------------- MODULE MeshCoordinator_proofs -----------------------
(***************************************************************************)
(* Proofs about MeshCoordinator, for any threads and any registry.         *)
(*                                                                         *)
(* A step of a thread either begins an exchange, ends one, or leaves every *)
(* worker's exchanges as they are; the three lemmas say what each does to  *)
(* the set of requests At(w), and LoadCounts follows by counting.          *)
(***************************************************************************)
EXTENDS MeshCoordinator, FiniteSetTheorems, TLAPS

\* Who is sending has a worker to send to.
Sending == \A t \in Threads : pc[t] = "send" => order[t] # << >>

\* No order names a worker twice.
Distinct ==
  \A t \in Threads : \A i, j \in DOMAIN order[t] : i # j => order[t][i] # order[t][j]

IInv == TypeOK /\ Sending /\ LoadCounts /\ Distinct

(***************************************************************************)
(* Counting.                                                               *)
(***************************************************************************)

\* The workers are finite in number.
LEMMA NodesFinite == IsFiniteSet(Nodes)
<1>1. IsFiniteSet(1..Len(Registry))
  BY MeshAssumption, FS_Interval
<1>2. Registry \in Surjection(1..Len(Registry), Listed)
  BY MeshAssumption DEF Listed, Surjection
<1>3. IsFiniteSet(Listed)
  BY <1>1, <1>2, FS_Surjection
<1> QED
  BY <1>3, FS_AddElement DEF Nodes

\* The requests at a worker are finite in number.
LEMMA AtFinite == \A w \in Nodes : IsFiniteSet(At(w)) /\ Cardinality(At(w)) \in Nat
<1> SUFFICES ASSUME NEW w \in Nodes PROVE IsFiniteSet(At(w)) /\ Cardinality(At(w)) \in Nat
  OBVIOUS
<1>1. At(w) \in SUBSET Threads
  BY DEF At
<1>2. IsFiniteSet(At(w))
  BY <1>1, MeshAssumption, FS_Subset
<1> QED
  BY <1>2, FS_CardinalityType

\* A thread that is done has the empty order.
LEMMA EmptyOrder == << >> \in Seq(Nodes) /\ DOMAIN << >> = {}
<1>1. << >> \in Seq(Nodes)
  OBVIOUS
<1>2. DOMAIN << >> = {}
  OBVIOUS
<1> QED
  BY <1>1, <1>2

\* An order of the workers in S lists them, each once.
LEMMA OrdersList ==
  ASSUME IInv, NEW S \in SUBSET Nodes, NEW r \in Nat, NEW s \in Orders(S, r)
  PROVE  s \in Seq(Nodes) /\ \A i, j \in DOMAIN s : i # j => s[i] # s[j]
<1> DEFINE n == Cardinality(S)
<1>1. n \in Nat
  BY NodesFinite, FS_Subset, FS_CardinalityType
<1> HIDE DEF n
<1>2. s \in [1..n -> S] /\ \A i, j \in 1..n : i < j => Before(s[i], s[j], r, n)
  BY DEF Orders, n
<1>3. s \in Seq(Nodes)
  BY <1>1, <1>2
<1>4. \A v \in Nodes : ~Before(v, v, r, n)
  <2> SUFFICES ASSUME NEW v \in Nodes PROVE ~Before(v, v, r, n)
    OBVIOUS
  <2>1. Index(v) \in Int
    <3>1. CASE v = Failover
      BY <3>1 DEF Index
    <3>2. CASE v \in Listed
      <4>1. \E i \in DOMAIN Registry : Registry[i] = v
        BY <3>2 DEF Listed
      <4>2. (CHOOSE i \in DOMAIN Registry : Registry[i] = v) \in DOMAIN Registry
        BY <4>1
      <4>3. DOMAIN Registry \subseteq Int
        BY MeshAssumption
      <4> QED
        BY <3>2, <4>2, <4>3, MeshAssumption DEF Index
    <3> QED
      BY <3>1, <3>2 DEF Nodes
  <2>2. load[v] \in Nat
    BY DEF IInv, TypeOK
  <2>3. ~(load[v] < load[v]) /\ ~(Index(v) < Index(v))
    BY <2>1, <2>2
  <2>4. PICK k : k = (Index(v) + r) % n
    OBVIOUS
  <2> QED
    BY <2>3, <2>4 DEF Before
<1> QED
  BY <1>1, <1>2, <1>3, <1>4

(***************************************************************************)
(* Exchanges begin, end, or stay as they are.                              *)
(***************************************************************************)

\* Nobody's exchange begins or ends while t does something else.
LEMMA AtUnchanged ==
  ASSUME TypeOK, NEW t \in Threads, NEW x, x # "send", pc[t] # "send",
         pc' = [pc EXCEPT ![t] = x],
         \A u \in Threads : u # t => order'[u] = order[u]
  PROVE  \A w \in Nodes : At(w)' = At(w)
BY DEF TypeOK, At

\* t begins an exchange with the first worker of its order.
LEMMA AtBegins ==
  ASSUME TypeOK, NEW t \in Threads, pc[t] # "send",
         pc' = [pc EXCEPT ![t] = "send"], order' = order
  PROVE  \A w \in Nodes :
           /\ t \notin At(w)
           /\ At(w)' = IF w = Head(order[t]) THEN At(w) \cup {t} ELSE At(w)
BY DEF TypeOK, At

\* t ends its exchange.
LEMMA AtEnds ==
  ASSUME TypeOK, NEW t \in Threads, NEW x, x # "send", pc[t] = "send",
         pc' = [pc EXCEPT ![t] = x],
         \A u \in Threads : u # t => order'[u] = order[u]
  PROVE  \A w \in Nodes :
           /\ w = Head(order[t]) => t \in At(w)
           /\ At(w)' = IF w = Head(order[t]) THEN At(w) \ {t} ELSE At(w)
BY DEF TypeOK, At

\* proxy() raises the count of the worker it turns to, as an exchange begins.
LEMMA CountBegins ==
  ASSUME IInv, NEW t \in Threads, Forward(t)
  PROVE  LoadCounts' /\ load' \in [Nodes -> Nat]
<1> USE DEF IInv
<1>1. load \in [Nodes -> Nat]
  BY DEF TypeOK
<1>2. \A w \in Nodes :
        /\ t \notin At(w)
        /\ At(w)' = IF w = Head(order[t]) THEN At(w) \cup {t} ELSE At(w)
  BY AtBegins DEF Forward, Go
<1>3. load' = [load EXCEPT ![Head(order[t])] = @ + 1]
  BY DEF Forward
<1>4. \A w \in Nodes : load'[w] = Cardinality(At(w)')
  <2> SUFFICES ASSUME NEW w \in Nodes PROVE load'[w] = Cardinality(At(w)')
    OBVIOUS
  <2>1. load[w] = Cardinality(At(w))
    BY DEF LoadCounts
  <2>2. CASE w = Head(order[t])
    <3>1. Cardinality(At(w)') = Cardinality(At(w)) + 1
      BY <1>2, <2>2, AtFinite, FS_AddElement
    <3> QED
      BY <1>1, <1>3, <2>1, <2>2, <3>1
  <2>3. CASE w # Head(order[t])
    BY <1>1, <1>2, <1>3, <2>1, <2>3
  <2> QED
    BY <2>2, <2>3
<1>5. load' \in [Nodes -> Nat]
  <2>1. order[t] \in Seq(Nodes) /\ order[t] # << >>
    BY DEF Forward, TypeOK
  <2>2. Head(order[t]) \in Nodes
    BY <2>1
  <2> QED
    BY <1>1, <1>3, <2>2
<1> QED
  BY <1>4, <1>5 DEF LoadCounts

\* Either way an exchange ends, its worker's count goes down.
LEMMA CountEnds ==
  ASSUME IInv, NEW t \in Threads, Answer(t) \/ Failure(t)
  PROVE  LoadCounts' /\ load' \in [Nodes -> Nat]
<1> USE DEF IInv
<1>1. load \in [Nodes -> Nat]
  BY DEF TypeOK
<1>2. \A w \in Nodes :
        /\ w = Head(order[t]) => t \in At(w)
        /\ At(w)' = IF w = Head(order[t]) THEN At(w) \ {t} ELSE At(w)
  <2>1. \A u \in Threads : u # t => order'[u] = order[u]
    BY DEF Answer, Failure, Leave, TypeOK
  <2>2. pc[t] = "send" /\ (pc' = [pc EXCEPT ![t] = "rest"] \/ pc' = [pc EXCEPT ![t] = "next"])
    BY DEF Answer, Failure, Leave, Go
  <2>3. PICK x : x # "send" /\ pc' = [pc EXCEPT ![t] = x]
    BY <2>2
  <2> QED
    BY <2>1, <2>2, <2>3, AtEnds
<1>3. load' = [load EXCEPT ![Head(order[t])] = @ - 1]
  BY DEF Answer, Failure
<1>4. \A w \in Nodes : load'[w] = Cardinality(At(w)')
  <2> SUFFICES ASSUME NEW w \in Nodes PROVE load'[w] = Cardinality(At(w)')
    OBVIOUS
  <2>1. load[w] = Cardinality(At(w))
    BY DEF LoadCounts
  <2>2. CASE w = Head(order[t])
    <3>1. Cardinality(At(w)') = Cardinality(At(w)) - 1
      BY <1>2, <2>2, AtFinite, FS_RemoveElement
    <3> QED
      BY <1>1, <1>3, <2>1, <2>2, <3>1
  <2>3. CASE w # Head(order[t])
    BY <1>1, <1>2, <1>3, <2>1, <2>3
  <2> QED
    BY <2>2, <2>3
<1>5. Head(order[t]) \in Nodes /\ load[Head(order[t])] # 0
  <2>1. order[t] \in Seq(Nodes) /\ order[t] # << >>
    BY DEF Answer, Failure, Leave, Go, Sending, TypeOK
  <2>2. Head(order[t]) \in Nodes
    BY <2>1
  <2>3. At(Head(order[t])) # {} /\ IsFiniteSet(At(Head(order[t])))
    BY <1>2, <2>2, AtFinite
  <2>4. Cardinality(At(Head(order[t]))) # 0
    BY <2>3, FS_EmptySet
  <2> QED
    BY <2>2, <2>4 DEF LoadCounts
<1>6. load' \in [Nodes -> Nat]
  BY <1>1, <1>3, <1>5
<1> QED
  BY <1>4, <1>6 DEF LoadCounts

(***************************************************************************)
(* The invariant.                                                          *)
(***************************************************************************)

\* A coordinator that has just started has nothing in flight.
LEMMA InitIInv == Init => IInv
<1> SUFFICES ASSUME Init PROVE IInv
  OBVIOUS
<1>1. TypeOK
  BY MeshAssumption DEF Init, TypeOK, Stations
<1>2. Sending /\ Distinct
  BY DEF Init, Sending, Distinct
<1>3. \A w \in Nodes : At(w) = {}
  BY DEF Init, At
<1>4. LoadCounts
  BY <1>3, FS_EmptySet DEF Init, LoadCounts
<1> QED
  BY <1>1, <1>2, <1>4 DEF IInv

\* The cursor stays within its cycle.
LEMMA CursorType ==
  ASSUME IInv, NEW t \in Threads, TakeTurn(t)
  PROVE  rr' \in 0..(Cycle - 1)
BY MeshAssumption DEF IInv, TypeOK, TakeTurn

\* Steps that neither begin nor end an exchange.
LEMMA OtherSteps ==
  ASSUME IInv, NEW t \in Threads,
         Arrive(t) \/ Look(t) \/ Sort(t) \/ Report(t) \/ GiveUp(t)
  PROVE  IInv'
<1> USE DEF IInv
<1>1. PICK x \in Stations : x # "send" /\ pc' = [pc EXCEPT ![t] = x] /\ pc[t] # "send"
  BY DEF Arrive, Look, Sort, Report, GiveUp, Leave, Go, Stations
<1>2. PICK s \in Seq(Nodes) :
        /\ order' = [order EXCEPT ![t] = s]
        /\ \A i, j \in DOMAIN s : i # j => s[i] # s[j]
  <2>1. CASE Arrive(t) \/ Look(t)
    <3>1. order' = [order EXCEPT ![t] = order[t]] /\ order[t] \in Seq(Nodes)
      BY <2>1 DEF Arrive, Look, TypeOK
    <3> QED
      BY <3>1 DEF Distinct
  <2>2. CASE Report(t) \/ GiveUp(t)
    <3>1. order' = [order EXCEPT ![t] = << >>]
      BY <2>2 DEF Report, GiveUp, Leave
    <3>2. PICK e \in Seq(Nodes) : e = << >> /\ DOMAIN e = {}
      BY EmptyOrder
    <3> QED
      BY <3>1, <3>2
  <2>3. CASE Sort(t)
    <3>1. PICK s \in Orders(live[t], rr') : order' = [order EXCEPT ![t] = s]
      BY <2>3 DEF Sort
    <3>2. rr' \in Nat /\ live[t] \in SUBSET Nodes
      BY <2>3, CursorType, MeshAssumption DEF Sort, TypeOK
    <3> QED
      BY <3>1, <3>2, OrdersList
  <2> QED
    BY <2>1, <2>2, <2>3
<1>3. reach' = reach /\ load' = load /\ live' \in [Threads -> SUBSET Nodes]
  <2>1. Candidates({w \in Nodes : reach[w]}) \in SUBSET Nodes
    BY DEF Candidates
  <2> QED
    BY <2>1 DEF Arrive, Look, Sort, Report, GiveUp, TypeOK
<1>4. rr' \in 0..(Cycle - 1)
  BY CursorType DEF Arrive, Look, Sort, Report, GiveUp, TypeOK
<1>5. pc' \in [Threads -> Stations] /\ order' \in [Threads -> Seq(Nodes)]
  BY <1>1, <1>2 DEF TypeOK
<1>6. TypeOK'
  BY <1>3, <1>4, <1>5 DEF TypeOK
<1>7. Sending'
  BY <1>1, <1>2 DEF Sending, TypeOK
<1>8. Distinct'
  BY <1>2 DEF Distinct, TypeOK
<1>9. LoadCounts'
  <2>1. \A w \in Nodes : At(w)' = At(w)
    BY <1>1, <1>2, AtUnchanged DEF TypeOK
  <2> QED
    BY <1>3, <2>1 DEF LoadCounts
<1> QED
  BY <1>6, <1>7, <1>8, <1>9

\* Beginning an exchange.
LEMMA ForwardStep ==
  ASSUME IInv, NEW t \in Threads, Forward(t)
  PROVE  IInv'
<1> USE DEF IInv
<1>1. LoadCounts' /\ load' \in [Nodes -> Nat]
  BY CountBegins
<1>2. TypeOK'
  BY <1>1 DEF TypeOK, Forward, Go, Stations
<1>3. Sending' /\ Distinct'
  BY DEF Forward, Go, Sending, Distinct, TypeOK
<1> QED
  BY <1>1, <1>2, <1>3

\* Ending one, with or without an answer.
LEMMA EndStep ==
  ASSUME IInv, NEW t \in Threads, Answer(t) \/ Failure(t)
  PROVE  IInv'
<1> USE DEF IInv
<1>1. LoadCounts' /\ load' \in [Nodes -> Nat]
  BY CountEnds
<1>2. PICK x \in Stations : x # "send" /\ pc' = [pc EXCEPT ![t] = x]
  BY DEF Answer, Failure, Leave, Go, Stations
<1>3. order[t] \in Seq(Nodes) /\ order[t] # << >>
  BY DEF Answer, Failure, Leave, Go, Sending, TypeOK
<1>4. PICK s \in Seq(Nodes) :
        /\ order' = [order EXCEPT ![t] = s]
        /\ \A i, j \in DOMAIN s : i # j => s[i] # s[j]
  <2>1. CASE Answer(t)
    <3>1. order' = [order EXCEPT ![t] = << >>]
      BY <2>1 DEF Answer, Leave
    <3>2. PICK e \in Seq(Nodes) : e = << >> /\ DOMAIN e = {}
      BY EmptyOrder
    <3> QED
      BY <3>1, <3>2
  <2>2. CASE Failure(t)
    <3>1. order' = [order EXCEPT ![t] = Tail(order[t])]
      BY <2>2 DEF Failure
    <3>2. Tail(order[t]) \in Seq(Nodes)
      BY <1>3
    <3>3. \A i \in DOMAIN Tail(order[t]) :
            i + 1 \in DOMAIN order[t] /\ Tail(order[t])[i] = order[t][i + 1] /\ i \in Nat
      BY <1>3
    <3>4. \A i, j \in DOMAIN Tail(order[t]) :
            i # j => Tail(order[t])[i] # Tail(order[t])[j]
      BY <3>3 DEF Distinct
    <3> QED
      BY <3>1, <3>2, <3>4
  <2> QED
    BY <2>1, <2>2
<1>5. TypeOK'
  BY <1>1, <1>2, <1>4 DEF TypeOK, Answer, Failure
<1>6. Sending'
  BY <1>2, <1>4 DEF Sending, TypeOK
<1>7. Distinct'
  BY <1>4 DEF Distinct, TypeOK
<1> QED
  BY <1>1, <1>5, <1>6, <1>7

\* Counts, orders and stations hold together in every reachable state.
THEOREM Invariance == Spec => []IInv
<1>1. IInv /\ [Next]_vars => IInv'
  <2> SUFFICES ASSUME IInv, [Next]_vars PROVE IInv'
    OBVIOUS
  <2>1. CASE Probe
    <3>1. TypeOK'
      BY <2>1 DEF Probe, IInv, TypeOK
    <3>2. (Sending /\ Distinct /\ LoadCounts)'
      BY <2>1 DEF Probe, IInv, Sending, Distinct, LoadCounts, At
    <3> QED
      BY <3>1, <3>2 DEF IInv
  <2>2. CASE UNCHANGED vars
    BY <2>2 DEF vars, IInv, TypeOK, Sending, Distinct, LoadCounts, At
  <2> QED
    BY <2>1, <2>2, OtherSteps, ForwardStep, EndStep DEF Next, Progress
<1> QED
  BY InitIInv, <1>1, PTL DEF Spec

\* The coordinator's variables keep their types; no count is ever negative.
THEOREM TypeCorrect == Spec => []TypeOK
<1>1. IInv => TypeOK
  BY DEF IInv
<1> QED
  BY Invariance, <1>1, PTL

\* In-flight counts are exact for any number of concurrent requests.
THEOREM CountsAreExact == Spec => []LoadCounts
<1>1. IInv => LoadCounts
  BY DEF IInv
<1> QED
  BY Invariance, <1>1, PTL

\* A replayed request never returns to a worker that failed it.
THEOREM NeverSentTwice == Spec => NeverTwice
<1> DEFINE Once ==
      \A t \in Clients : pc[t] = "send" /\ pc'[t] = "next" =>
        \A i \in DOMAIN order'[t] : order'[t][i] # Head(order[t])
<1>1. IInv /\ [Next]_vars => [Once]_vars
  <2> SUFFICES ASSUME IInv, Next, NEW t \in Clients, pc[t] = "send", pc'[t] = "next"
               PROVE  \A i \in DOMAIN order'[t] : order'[t][i] # Head(order[t])
    OBVIOUS
  <2>1. t \in Threads
    BY DEF Threads
  <2>2. Failure(t)
    BY <2>1 DEF Next, Progress, Probe, Arrive, Look, Sort, Report, Forward, Answer, Failure,
                GiveUp, Leave, Go, IInv, TypeOK
  <2>3. order[t] \in Seq(Nodes) /\ order[t] # << >> /\ order'[t] = Tail(order[t])
    BY <2>1, <2>2 DEF Failure, IInv, TypeOK, Sending
  <2>4. \A i \in DOMAIN Tail(order[t]) :
          /\ i + 1 \in DOMAIN order[t] /\ Tail(order[t])[i] = order[t][i + 1]
          /\ i \in Nat \ {0} /\ 1 \in DOMAIN order[t]
    BY <2>3
  <2>5. Head(order[t]) = order[t][1]
    BY <2>3
  <2> QED
    BY <2>1, <2>3, <2>4, <2>5 DEF IInv, Distinct
<1> QED
  BY Invariance, <1>1, PTL DEF NeverTwice, Spec
=============================================================================
