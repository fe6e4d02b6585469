----------------------- MODULE ConnectionPool_proofs -----------------------
(***************************************************************************)
(* Proofs about ConnectionPool, for any threads, hosts and connection      *)
(* objects and any two bounds.                                             *)
(*                                                                         *)
(* What the buckets hold changes in two ways only: a connection is popped  *)
(* (Popped) or pushed (Pushed).  All else about a step is who uses which   *)
(* connection, and the invariant speaks of users up to the release only:   *)
(* a thread that parses a body may share its connection with whoever has   *)
(* checked it out since.                                                   *)
(***************************************************************************)
EXTENDS ConnectionPool, FiniteSetTheorems, TLAPS

\* No connection is in two places of the buckets.
Unique ==
  \A g, h \in Hosts : \A i \in DOMAIN idle[g], j \in DOMAIN idle[h] :
    idle[g][i] = idle[h][j] => g = h /\ i = j

\* An exchange has its connection for itself.
Apart ==
  \A t \in Threads : Using(t) =>
    /\ conn[t] \notin Pooled
    /\ \A u \in Threads \ {t} : Using(u) => conn[u] # conn[t]

IInv ==
  /\ TypeOK /\ Unique /\ Apart /\ NoSocketLeak /\ OwnTimeout
  /\ PoolBounded /\ IsFiniteSet(tracked)

\* Membership in the pool, in terms of places.
LEMMA PooledPlaces ==
  \A c : c \in Pooled <=> \E h \in Hosts : \E i \in DOMAIN idle[h] : idle[h][i] = c
<1> TAKE c
<1>1. c \in Pooled <=> \E h \in Hosts : c \in Elements(idle[h])
  BY DEF Pooled
<1>2. \A h \in Hosts : c \in Elements(idle[h]) <=> \E i \in DOMAIN idle[h] : idle[h][i] = c
  BY DEF Elements
<1> QED
  BY <1>1, <1>2, Zenon

LEMMA PooledPlacesNext ==
  \A c : c \in Pooled' <=> \E h \in Hosts : \E i \in DOMAIN idle'[h] : idle'[h][i] = c
<1> TAKE c
<1>1. c \in Pooled' <=> \E h \in Hosts : c \in Elements(idle'[h])
  BY DEF Pooled
<1>2. \A h \in Hosts : c \in Elements(idle'[h]) <=> \E i \in DOMAIN idle'[h] : idle'[h][i] = c
  BY DEF Elements
<1> QED
  BY <1>1, <1>2, Zenon

\* A sequence without its last element.
LEMMA Front ==
  ASSUME NEW S, NEW s \in Seq(S), s # << >>
  PROVE  /\ SubSeq(s, 1, Len(s) - 1) \in Seq(S)
         /\ Len(SubSeq(s, 1, Len(s) - 1)) = Len(s) - 1
         /\ DOMAIN SubSeq(s, 1, Len(s) - 1) = DOMAIN s \ {Len(s)}
         /\ \A i \in DOMAIN s \ {Len(s)} : SubSeq(s, 1, Len(s) - 1)[i] = s[i]
         /\ Len(s) \in DOMAIN s /\ s[Len(s)] \in S
<1>1. Len(s) \in Nat \ {0} /\ DOMAIN s = 1..Len(s)
  OBVIOUS
<1>2. SubSeq(s, 1, Len(s) - 1) \in Seq(S) /\ Len(SubSeq(s, 1, Len(s) - 1)) = Len(s) - 1
  BY <1>1
<1>3. \A i \in 1..Len(s) - 1 : SubSeq(s, 1, Len(s) - 1)[i] = s[i]
  BY <1>1
<1>4. DOMAIN SubSeq(s, 1, Len(s) - 1) = 1..Len(s) - 1
  BY <1>2
<1>5. 1..Len(s) - 1 = DOMAIN s \ {Len(s)}
  BY <1>1
<1> QED
  BY <1>1, <1>2, <1>3, <1>4, <1>5

\* A connection leaves its bucket: it was in one place, and is in none.
LEMMA Popped ==
  ASSUME TypeOK, Unique, NEW h \in Hosts, idle[h] # << >>,
         idle' = [idle EXCEPT ![h] = SubSeq(@, 1, Len(@) - 1)]
  PROVE  /\ idle' \in [Hosts -> Seq(Conns)]
         /\ idle[h][Len(idle[h])] \in Pooled \cap Conns
         /\ Pooled' = Pooled \ {idle[h][Len(idle[h])]}
         /\ Unique'
<1> DEFINE c == idle[h][Len(idle[h])]
<1>1. idle[h] \in Seq(Conns) /\ idle \in [Hosts -> Seq(Conns)]
  BY DEF TypeOK
<1>2. /\ idle'[h] = SubSeq(idle[h], 1, Len(idle[h]) - 1)
      /\ \A g \in Hosts \ {h} : idle'[g] = idle[g]
  BY <1>1
<1>3. /\ idle'[h] \in Seq(Conns)
      /\ DOMAIN idle'[h] = DOMAIN idle[h] \ {Len(idle[h])}
      /\ \A i \in DOMAIN idle'[h] : idle'[h][i] = idle[h][i]
      /\ Len(idle[h]) \in DOMAIN idle[h] /\ c \in Conns
  BY <1>1, <1>2, Front
<1>4. idle' \in [Hosts -> Seq(Conns)]
  BY <1>1, <1>2, <1>3
<1>5. c \in Pooled
  BY <1>3, PooledPlaces, Zenon
<1>6. \A g \in Hosts : /\ DOMAIN idle'[g] \subseteq DOMAIN idle[g]
                       /\ \A i \in DOMAIN idle'[g] : idle'[g][i] = idle[g][i]
  BY <1>2, <1>3
<1>7. Unique'
  BY <1>6 DEF Unique
<1>8. \A g \in Hosts : \A i \in DOMAIN idle[g] :
        (i \in DOMAIN idle'[g] /\ idle'[g][i] = idle[g][i]) \/ (g = h /\ i = Len(idle[h]))
  BY <1>2, <1>3
<1>9. c \notin Pooled'
  <2> SUFFICES ASSUME NEW g \in Hosts, NEW i \in DOMAIN idle'[g], idle'[g][i] = c PROVE FALSE
    BY PooledPlacesNext, Zenon
  <2>1. i \in DOMAIN idle[g] /\ idle[g][i] = idle[h][Len(idle[h])]
    BY <1>6
  <2>2. g = h /\ i = Len(idle[h])
    BY <2>1, <1>3 DEF Unique
  <2> QED
    BY <2>2, <1>3
<1>10. \A d : d \in Pooled' => d \in Pooled
  BY <1>6, PooledPlaces, PooledPlacesNext
<1>11. \A d : d \in Pooled /\ d # c => d \in Pooled'
  BY <1>8, PooledPlaces, PooledPlacesNext, Zenon
<1> QED
  BY <1>3, <1>4, <1>5, <1>7, <1>9, <1>10, <1>11

\* A connection that is in no bucket enters one.
LEMMA Pushed ==
  ASSUME TypeOK, Unique, NEW h \in Hosts, NEW c \in Conns, c \notin Pooled,
         idle' = [idle EXCEPT ![h] = Append(@, c)]
  PROVE  /\ idle' \in [Hosts -> Seq(Conns)]
         /\ Pooled' = Pooled \cup {c}
         /\ Unique'
<1>1. idle[h] \in Seq(Conns) /\ idle \in [Hosts -> Seq(Conns)]
  BY DEF TypeOK
<1>2. idle'[h] = Append(idle[h], c) /\ \A g \in Hosts \ {h} : idle'[g] = idle[g]
  BY <1>1
<1> DEFINE n == Len(idle[h]) + 1
<1>3. /\ Append(idle[h], c) \in Seq(Conns)
      /\ DOMAIN Append(idle[h], c) = DOMAIN idle[h] \cup {n} /\ n \notin DOMAIN idle[h]
      /\ Append(idle[h], c)[n] = c
      /\ \A i \in DOMAIN idle[h] : Append(idle[h], c)[i] = idle[h][i]
  <2>1. Len(idle[h]) \in Nat /\ DOMAIN idle[h] = 1..Len(idle[h])
    BY <1>1
  <2>2. Append(idle[h], c) \in Seq(Conns) /\ Len(Append(idle[h], c)) = n
    BY <1>1
  <2>3. DOMAIN Append(idle[h], c) = 1..n
    BY <2>2
  <2>4. 1..n = 1..Len(idle[h]) \cup {n} /\ n \notin 1..Len(idle[h])
    BY <2>1
  <2>5. Append(idle[h], c)[n] = c
    BY <1>1
  <2>6. \A i \in 1..Len(idle[h]) : Append(idle[h], c)[i] = idle[h][i]
    BY <1>1
  <2> QED
    BY <2>1, <2>2, <2>3, <2>4, <2>5, <2>6
<1> HIDE DEF n
<1>4. idle' \in [Hosts -> Seq(Conns)]
  BY <1>1, <1>2, <1>3
<1>5. \A g \in Hosts : \A i \in DOMAIN idle'[g] :
        (i \in DOMAIN idle[g] /\ idle'[g][i] = idle[g][i])
        \/ (g = h /\ i = n /\ idle'[g][i] = c)
  BY <1>2, <1>3
<1>6. n \in DOMAIN idle'[h] /\ idle'[h][n] = c
  BY <1>2, <1>3
<1>7. \A g \in Hosts : \A i \in DOMAIN idle[g] : i \in DOMAIN idle'[g] /\ idle'[g][i] = idle[g][i]
  BY <1>2, <1>3
<1>8. Pooled' = Pooled \cup {c}
  <2>1. \A d : d \in Pooled' => d \in Pooled \/ d = c
    BY <1>5, PooledPlaces, PooledPlacesNext
  <2>2. \A d : d \in Pooled => d \in Pooled'
    BY <1>7, PooledPlaces, PooledPlacesNext
  <2>3. c \in Pooled'
    BY <1>6, PooledPlacesNext, Zenon
  <2> QED
    BY <2>1, <2>2, <2>3
<1>9. \A g \in Hosts : \A i \in DOMAIN idle[g] : idle[g][i] # c
  BY PooledPlaces, Zenon
<1>10. Unique'
  BY <1>5, <1>9 DEF Unique
<1> QED
  BY <1>4, <1>8, <1>10

\* Nothing is pooled and nobody is on the way.
LEMMA InitIInv == Init => IInv
<1> SUFFICES ASSUME Init PROVE IInv
  OBVIOUS
<1>1. << >> \in Seq(Conns)
  OBVIOUS
<1>2. TypeOK
  BY <1>1, PoolAssumption DEF Init, TypeOK, Stations
<1>3. Unique /\ Apart /\ NoSocketLeak /\ OwnTimeout
  BY DEF Init, Unique, Apart, NoSocketLeak, OwnTimeout, Using
<1>4. PoolBounded /\ IsFiniteSet(tracked)
  BY FS_EmptySet, PoolAssumption DEF Init, PoolBounded
<1> QED
  BY <1>2, <1>3, <1>4 DEF IInv

\* What does not touch the buckets does not disturb what speaks of them alone.
LEMMA BucketsKept ==
  ASSUME IInv, UNCHANGED <<tracked, idle>>
  PROVE  Pooled' = Pooled /\ Unique' /\ PoolBounded' /\ IsFiniteSet(tracked')
BY DEF IInv, Unique, PoolBounded, Pooled

\* A thread that was at rest, or whose first send failed, takes a connection that
\* is neither in a bucket afterwards nor used by anybody else.
LEMMA Taken ==
  ASSUME IInv, NEW t \in Threads, NEW c \in Conns, Take(t, c),
         NEW to \in {"send", "resend"}, pc' = [pc EXCEPT ![t] = to],
         c \notin Pooled', Pooled \ {c} \subseteq Pooled', Pooled' \subseteq Pooled,
         \A u \in Threads \ {t} : Using(u) => conn[u] # c,
         open' \subseteq open, ~Using(t) \/ conn[t] \notin open'
  PROVE  Apart' /\ NoSocketLeak' /\ OwnTimeout'
<1> USE DEF IInv, TypeOK, Take
<1>1. /\ \A u \in Threads \ {t} : pc'[u] = pc[u] /\ conn'[u] = conn[u]
      /\ pc'[t] = to /\ conn'[t] = c /\ limit'[c] = t
      /\ \A d \in Conns \ {c} : limit'[d] = limit[d]
  OBVIOUS
<1>2. (\A u \in Threads \ {t} : Using(u)' <=> Using(u)) /\ Using(t)'
  BY <1>1 DEF Using
<1>3. Apart'
  BY <1>1, <1>2 DEF Apart
<1>4. \A u \in Threads : Using(u) => conn[u] \in Conns
  BY PoolAssumption DEF Using
<1>5. OwnTimeout'
  BY <1>1, <1>2, <1>4 DEF OwnTimeout
<1>6. NoSocketLeak'
  <2> SUFFICES ASSUME NEW d \in open', d \notin Pooled'
               PROVE  \E u \in Threads : Using(u)' /\ conn'[u] = d
    BY DEF NoSocketLeak
  <2>1. d \in Pooled \/ \E u \in Threads : Using(u) /\ conn[u] = d
    BY DEF NoSocketLeak
  <2>2. CASE d \in Pooled
    BY <2>2, <1>1, <1>2
  <2>3. ASSUME NEW u \in Threads, Using(u), conn[u] = d
        PROVE  \E v \in Threads : Using(v)' /\ conn'[v] = d
    <3>1. u # t
      BY <2>3
    <3> QED
      BY <2>3, <3>1, <1>1, <1>2
  <2> QED
    BY <2>1, <2>2, <2>3
<1> QED
  BY <1>3, <1>5, <1>6

\* A thread leaves its exchange, and its connection is closed or in a bucket.
LEMMA Left ==
  ASSUME IInv, NEW t \in Threads, NEW to \in {"parse", "rest"},
         pc' = [pc EXCEPT ![t] = to], \A u \in Threads \ {t} : conn'[u] = conn[u],
         limit' = limit, Pooled \subseteq Pooled', Pooled' \subseteq Pooled \cup {conn[t]},
         Pooled' = Pooled \/ Using(t),
         open' \subseteq open, conn[t] \notin open' \/ conn[t] \in Pooled' \/ ~Using(t)
  PROVE  Apart' /\ NoSocketLeak' /\ OwnTimeout'
<1> USE DEF IInv, TypeOK
<1>1. (\A u \in Threads \ {t} : pc'[u] = pc[u]) /\ pc'[t] = to
  OBVIOUS
<1>2. (\A u \in Threads \ {t} : Using(u)' <=> Using(u)) /\ ~Using(t)'
  BY <1>1 DEF Using
<1>3. Apart'
  BY <1>2 DEF Apart
<1>4. OwnTimeout'
  BY <1>2 DEF OwnTimeout
<1>5. NoSocketLeak'
  <2> SUFFICES ASSUME NEW d \in open', d \notin Pooled'
               PROVE  \E u \in Threads : Using(u)' /\ conn'[u] = d
    BY DEF NoSocketLeak
  <2>1. PICK u \in Threads : Using(u) /\ conn[u] = d
    BY DEF NoSocketLeak
  <2>2. u # t
    BY <2>1
  <2> QED
    BY <2>1, <2>2, <1>2
<1> QED
  BY <1>3, <1>4, <1>5

\* The last connection of the bucket, under the timeout of the new request.
LEMMA IdleTaken ==
  ASSUME IInv, NEW t \in Threads, NEW h \in Hosts, CheckoutIdle(t, h)
  PROVE  IInv'
<1> DEFINE c == idle[h][Len(idle[h])]
<1>1. /\ idle' \in [Hosts -> Seq(Conns)] /\ c \in Pooled \cap Conns
      /\ Pooled' = Pooled \ {c} /\ Unique'
  BY Popped DEF IInv, CheckoutIdle
<1>2. pc[t] = "rest" /\ pc' = [pc EXCEPT ![t] = "send"] /\ Take(t, c) /\ open' = open
  BY DEF CheckoutIdle, Go
<1>3. \A u \in Threads : Using(u) => conn[u] # c
  BY <1>1 DEF IInv, Apart
<1>4. ~Using(t)
  BY <1>2 DEF Using
<1> HIDE DEF c
<1>5. Apart' /\ NoSocketLeak' /\ OwnTimeout'
  BY <1>1, <1>2, <1>3, <1>4, Taken
<1>6. TypeOK'
  <2>1. c # NoConn
    BY <1>1, PoolAssumption
  <2>2. tracked' \subseteq Hosts /\ open' \subseteq Conns /\ dropped' \subseteq Conns
        /\ host' \in [Threads -> Hosts]
    BY DEF IInv, TypeOK, CheckoutIdle
  <2>3. limit' \in [Conns -> Threads] /\ pc' \in [Threads -> Stations]
        /\ conn' \in [Threads -> Conns \cup {NoConn}]
    BY <1>1, <1>2 DEF IInv, TypeOK, Take, Stations
  <2>4. \A u \in Threads : pc'[u] = "rest" <=> conn'[u] = NoConn
    BY <1>1, <1>2, <2>1 DEF IInv, TypeOK, Take
  <2> QED
    BY <1>1, <2>2, <2>3, <2>4 DEF TypeOK
<1>7. PoolBounded' /\ IsFiniteSet(tracked')
  <2>1. tracked' = tracked /\ \A g \in Hosts \ {h} : idle'[g] = idle[g]
    BY DEF CheckoutIdle, IInv, TypeOK
  <2>2. idle[h] \in Seq(Conns) /\ idle[h] # << >>
        /\ idle'[h] = SubSeq(idle[h], 1, Len(idle[h]) - 1)
    BY DEF CheckoutIdle, IInv, TypeOK
  <2>3. Len(idle[h]) \in Nat /\ Len(idle'[h]) = Len(idle[h]) - 1
    BY <2>2, Front
  <2> QED
    BY <2>1, <2>3, PoolAssumption DEF IInv, PoolBounded
<1> QED
  BY <1>1, <1>5, <1>6, <1>7 DEF IInv

\* A new object, which nobody refers to.
LEMMA NewTaken ==
  ASSUME IInv, NEW t \in Threads, NEW c \in Spare, Take(t, c),
         NEW to \in {"send", "resend"}, pc' = [pc EXCEPT ![t] = to],
         UNCHANGED <<tracked, idle>>, host' \in [Threads -> Hosts], dropped' \subseteq Conns,
         open' \subseteq open, ~Using(t) \/ conn[t] \notin open'
  PROVE  IInv'
<1>1. Pooled' = Pooled /\ Unique' /\ PoolBounded' /\ IsFiniteSet(tracked')
  BY BucketsKept
<1>2. c \in Conns /\ c \notin Pooled /\ \A u \in Threads : conn[u] # c
  BY DEF Spare
<1>3. Apart' /\ NoSocketLeak' /\ OwnTimeout'
  BY <1>1, <1>2, Taken
<1>4. TypeOK'
  BY <1>2, PoolAssumption DEF IInv, TypeOK, Take, Stations
<1> QED
  BY <1>1, <1>3, <1>4 DEF IInv

\* A failed exchange, at any point of it or at the body.
LEMMA Abandoned ==
  ASSUME IInv, NEW t \in Threads, NEW from \in {"send", "resend", "recv", "parse"},
         Abandon(t, from)
  PROVE  IInv'
<1>1. Pooled' = Pooled /\ Unique' /\ PoolBounded' /\ IsFiniteSet(tracked')
  BY BucketsKept DEF Abandon
<1>2. /\ pc' = [pc EXCEPT ![t] = "rest"] /\ limit' = limit
      /\ open' \subseteq open /\ conn[t] \notin open'
      /\ \A u \in Threads \ {t} : conn'[u] = conn[u]
  BY DEF Abandon, Go, IInv, TypeOK
<1>3. Apart' /\ NoSocketLeak' /\ OwnTimeout'
  BY <1>1, <1>2, Left
<1>4. TypeOK'
  <2>1. conn[t] \in Conns
    BY DEF Abandon, Go, IInv, TypeOK
  <2> QED
    BY <2>1, PoolAssumption DEF IInv, TypeOK, Abandon, Go, Stations
<1> QED
  BY <1>1, <1>3, <1>4 DEF IInv

\* The send went out, on the connection the thread has.
LEMMA AfterSent ==
  ASSUME IInv, NEW t \in Threads, Sent(t)
  PROVE  IInv'
<1>1. Pooled' = Pooled /\ Unique' /\ PoolBounded' /\ IsFiniteSet(tracked')
  BY BucketsKept DEF Sent
<1>2. /\ pc[t] \in {"send", "resend"} /\ pc' = [pc EXCEPT ![t] = "recv"]
      /\ open' = open \cup {conn[t]} /\ conn' = conn /\ limit' = limit
  BY DEF Sent, Go
<1>3. (\A u \in Threads : Using(u)' <=> Using(u)) /\ Using(t)
  BY <1>2 DEF IInv, TypeOK, Using
<1>4. Apart' /\ OwnTimeout' /\ NoSocketLeak'
  BY <1>1, <1>2, <1>3 DEF IInv, Apart, OwnTimeout, NoSocketLeak
<1>5. TypeOK'
  BY <1>2 DEF IInv, TypeOK, Sent, Stations
<1> QED
  BY <1>1, <1>4, <1>5 DEF IInv

\* The connection is closed after the response, or the caller has its answer.
LEMMA AfterClose ==
  ASSUME IInv, NEW t \in Threads, Close(t) \/ Return(t)
  PROVE  IInv'
<1>1. Pooled' = Pooled /\ Unique' /\ PoolBounded' /\ IsFiniteSet(tracked')
  BY BucketsKept DEF Close, Return
<1>2. CASE Close(t)
  <2>1. pc' = [pc EXCEPT ![t] = "parse"] /\ limit' = limit /\ conn' = conn
        /\ open' \subseteq open /\ conn[t] \notin open'
    BY <1>2 DEF Close, Go
  <2>2. Apart' /\ NoSocketLeak' /\ OwnTimeout'
    BY <1>1, <2>1, Left
  <2>3. TypeOK'
    BY <1>2 DEF IInv, TypeOK, Close, Go, Stations
  <2> QED
    BY <1>1, <2>2, <2>3 DEF IInv
<1>3. CASE Return(t)
  <2>1. /\ pc' = [pc EXCEPT ![t] = "rest"] /\ limit' = limit /\ open' = open /\ ~Using(t)
        /\ \A u \in Threads \ {t} : conn'[u] = conn[u]
    BY <1>3 DEF Return, Go, Using, IInv, TypeOK
  <2>2. Apart' /\ NoSocketLeak' /\ OwnTimeout'
    BY <1>1, <2>1, Left
  <2>3. TypeOK'
    BY <1>3, PoolAssumption DEF IInv, TypeOK, Return, Go, Stations
  <2> QED
    BY <1>1, <2>2, <2>3 DEF IInv
<1> QED
  BY <1>2, <1>3

\* A connection that has read its response is kept within the bounds, or closed.
LEMMA Released ==
  ASSUME IInv, NEW t \in Threads, Release(t)
  PROVE  IInv'
<1> DEFINE h == host[t]
<1>1. /\ pc[t] = "recv" /\ pc' = [pc EXCEPT ![t] = "parse"]
      /\ limit' = limit /\ conn' = conn /\ dropped' = dropped /\ host' = host
  BY DEF Release, Go
<1>2. h \in Hosts /\ conn[t] \in Conns /\ Using(t) /\ conn[t] \notin Pooled
  BY <1>1 DEF IInv, TypeOK, Apart, Using
<1>3. pc' \in [Threads -> Stations] /\ \A u \in Threads : pc'[u] = "rest" <=> conn'[u] = NoConn
  BY <1>1, <1>2, PoolAssumption DEF IInv, TypeOK, Stations
<1>4. CASE Full(h)
  <2>1. open' \subseteq open /\ conn[t] \notin open' /\ UNCHANGED <<tracked, idle>>
    BY <1>4 DEF Release
  <2>2. Pooled' = Pooled /\ Unique' /\ PoolBounded' /\ IsFiniteSet(tracked')
    BY <2>1, BucketsKept
  <2>3. Apart' /\ NoSocketLeak' /\ OwnTimeout'
    BY <1>1, <2>1, <2>2, Left
  <2>4. TypeOK'
    BY <1>1, <1>3, <2>1 DEF IInv, TypeOK
  <2> QED
    BY <2>2, <2>3, <2>4 DEF IInv
<1>5. CASE ~Full(h)
  <2>1. /\ tracked' = tracked \cup {h} /\ open' = open
        /\ idle' = [idle EXCEPT ![h] = Append(@, conn[t])]
    BY <1>5 DEF Release
  <2>2. idle' \in [Hosts -> Seq(Conns)] /\ Pooled' = Pooled \cup {conn[t]} /\ Unique'
    BY <1>2, <2>1, Pushed DEF IInv
  <2>3. Apart' /\ NoSocketLeak' /\ OwnTimeout'
    BY <1>1, <1>2, <2>1, <2>2, Left
  <2>4. TypeOK'
    BY <1>1, <1>2, <1>3, <2>1, <2>2 DEF IInv, TypeOK
  <2>5. /\ IsFiniteSet(tracked')
        /\ Cardinality(tracked') = IF h \in tracked THEN Cardinality(tracked)
                                   ELSE Cardinality(tracked) + 1
    BY <2>1, FS_AddElement DEF IInv
  <2>6. Cardinality(tracked) \in Nat
    BY FS_CardinalityType DEF IInv
  <2>7. Len(idle[h]) \in Nat /\ Len(idle'[h]) = Len(idle[h]) + 1
    <3>1. idle[h] \in Seq(Conns) /\ idle'[h] = Append(idle[h], conn[t])
      BY <1>2, <2>1 DEF IInv, TypeOK
    <3> QED
      BY <3>1, <1>2
  <2>8. \A g \in Hosts \ {h} : idle'[g] = idle[g] /\ (g \in tracked' <=> g \in tracked)
    BY <2>1 DEF IInv, TypeOK
  <2>9. PoolBounded'
    <3> USE PoolAssumption DEF IInv, PoolBounded, Full
    <3>1. Cardinality(tracked') <= MaxHosts
      BY <1>5, <2>5, <2>6
    <3>2. Len(idle'[h]) <= MaxPerHost /\ h \in tracked'
      BY <1>2, <1>5, <2>1, <2>7
    <3> QED
      BY <3>1, <3>2, <2>8
  <2> QED
    BY <2>2, <2>3, <2>4, <2>5, <2>9 DEF IInv
<1> QED
  BY <1>4, <1>5

\* One case per action of a thread.
LEMMA StepIInv == IInv /\ [Next]_vars => IInv'
<1> SUFFICES ASSUME IInv, [Next]_vars PROVE IInv'
  OBVIOUS
<1>rest. CASE vars' = vars
  <2>1. Pooled' = Pooled /\ Unique' /\ PoolBounded' /\ IsFiniteSet(tracked')
    BY <1>rest, BucketsKept DEF vars
  <2> QED
    BY <2>1, <1>rest
    DEF vars, IInv, TypeOK, Apart, NoSocketLeak, OwnTimeout, Using
<1>checkout. ASSUME NEW t \in Threads, NEW h \in Hosts, CheckoutIdle(t, h) \/ CheckoutNew(t, h)
             PROVE  IInv'
  <2>1. CASE CheckoutIdle(t, h)
    BY <2>1, IdleTaken
  <2>2. CASE CheckoutNew(t, h)
    <3>1. PICK c \in Spare : Take(t, c) /\ dropped' = dropped \ {c}
      BY <2>2 DEF CheckoutNew
    <3>2. /\ pc' = [pc EXCEPT ![t] = "send"] /\ ~Using(t) /\ open' = open
          /\ UNCHANGED <<tracked, idle>>
          /\ host' \in [Threads -> Hosts] /\ dropped' \subseteq Conns
      BY <2>2, <3>1 DEF CheckoutNew, Go, Using, IInv, TypeOK
    <3> QED
      BY <3>1, <3>2, NewTaken
  <2> QED
    BY <1>checkout, <2>1, <2>2
<1>fail. ASSUME NEW t \in Threads, SendFails(t) PROVE IInv'
  <2>1. CASE Abandon(t, "send")
    BY <2>1, Abandoned
  <2>2. CASE ~Abandon(t, "send")
    <3>1. PICK c \in Spare : Take(t, c) /\ dropped' = (dropped \cup {conn[t]}) \ {c}
      BY <1>fail, <2>2 DEF SendFails
    <3>2. /\ pc[t] = "send" /\ pc' = [pc EXCEPT ![t] = "resend"]
          /\ open' \subseteq open /\ conn[t] \notin open'
          /\ UNCHANGED <<tracked, idle>> /\ host' = host
      BY <1>fail, <2>2 DEF SendFails, Go
    <3>3. host' \in [Threads -> Hosts] /\ dropped' \subseteq Conns
      BY <3>1, <3>2 DEF IInv, TypeOK
    <3> QED
      BY <3>1, <3>2, <3>3, NewTaken
  <2> QED
    BY <2>1, <2>2
<1>over. ASSUME NEW t \in Threads, ExchangeFails(t) \/ Garbled(t) PROVE IInv'
  BY <1>over, Abandoned DEF ExchangeFails, Garbled
<1>end. ASSUME NEW t \in Threads, Sent(t) \/ Close(t) \/ Release(t) \/ Return(t) PROVE IInv'
  BY <1>end, AfterSent, AfterClose, Released
<1> QED
  BY <1>rest, <1>checkout, <1>fail, <1>over, <1>end DEF Next, Progress

\* The inductive invariant of the pool holds in every reachable state.
THEOREM Invariance == Spec => []IInv
  BY InitIInv, StepIInv, PTL DEF Spec

\* Buckets, sockets, timeouts and threads are well typed, and a thread has a
\* connection exactly while it is in request_json.
THEOREM TypeCorrect == Spec => []TypeOK
<1>1. IInv => TypeOK
  BY DEF IInv
<1> QED
  BY <1>1, Invariance, PTL

\* From _checkout to _release a connection belongs to one thread.
THEOREM OwnersApart == Spec => []OneOwner
<1>1. IInv => OneOwner
  BY DEF IInv, Unique, Apart, OneOwner
<1> QED
  BY <1>1, Invariance, PTL

\* Every socket request_json opens is closed, pooled or in an exchange.
THEOREM SocketsKept == Spec => []NoSocketLeak
<1>1. IInv => NoSocketLeak
  BY DEF IInv
<1> QED
  BY <1>1, Invariance, PTL

\* _POOL_MAX_HOSTS and _POOL_MAX_PER_HOST bound the pool.
THEOREM BoundsKept == Spec => []PoolBounded
<1>1. IInv => PoolBounded
  BY DEF IInv
<1> QED
  BY <1>1, Invariance, PTL

\* A kept-alive socket never runs under the timeout of an earlier request.
THEOREM TimeoutsOwn == Spec => []OwnTimeout
<1>1. IInv => OwnTimeout
  BY DEF IInv
<1> QED
  BY <1>1, Invariance, PTL
=============================================================================
