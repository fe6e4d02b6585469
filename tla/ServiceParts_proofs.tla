------------------------- MODULE ServiceParts_proofs -------------------------
(***************************************************************************)
(* Proofs about the two parts MCServiceParts checks.                       *)
(*                                                                         *)
(* ForgeMesh, for any finite set of clients and any number of slots:       *)
(* NoReplay rests on how far a request has got (Shape): bytes of it leave  *)
(* only on the last pick, rows are one behind the picks while an attempt   *)
(* is under way, and the loop goes on only from a first failed connection. *)
(*                                                                         *)
(* EmbedCache, for any calls, inputs, configurations, time to live and     *)
(* size: VectorsOwn rests on what a call carries to the cache (Carried):   *)
(* a vector of the very route its turn is at, received before the time the *)
(* entry will be stamped with; and on a cache whose entries are all such.  *)
(***************************************************************************)
EXTENDS ForgeMesh, EmbedCache, FiniteSetTheorems, WellFoundedInduction, TLAPS

Labels == {"CONNECT_FAILED", "OUTCOME_UNKNOWN"}
Kinds == {"none", "error", "lost", "partial", "complete"}
Attempting == {"connect", "request", "relay", "release"}
Untried == {"new", "headers", "body", "closed"}
Stations == Attempting \cup Untried \cup {"pick", "end"}

Handlers ==
  [pc : Stations, ask : Asks, expired : BOOLEAN, held : Backends \cup {NoBackend},
   tried : Seq(Backends), attempts : Seq(Labels), sent : Seq(Backends), answer : Kinds]

\* What is known of a request at each place of the handler.
Shape(k) ==
  /\ k.held # NoBackend <=> k.pc \in Attempting
  /\ k.held # NoBackend => k.tried # << >> /\ k.held = Last(k.tried)
  /\ Len(k.tried) <= 2
  /\ Len(k.tried) = 2 => k.tried[1] # k.tried[2]
  /\ k.sent # << >> => k.tried # << >> /\ k.sent = <<Last(k.tried)>>
  /\ k.pc \in Untried => k.tried = << >> /\ k.attempts = << >> /\ k.answer = "none"
  /\ k.pc \in {"pick", "connect"} => k.sent = << >> /\ k.answer = "none"
  /\ k.pc = "request" => k.answer = "none"
  /\ k.pc = "relay" => k.answer # "none"
  /\ k.pc = "pick" => Len(k.tried) <= 1 /\ Len(k.attempts) = Len(k.tried)
  /\ k.pc \in {"connect", "request", "relay"} => Len(k.attempts) = Len(k.tried) - 1
  /\ k.pc \in {"request", "relay"} => k.sent # << >>
  /\ k.pc = "release" /\ k.answer = "none" =>
       k.sent = << >> /\ Len(k.tried) = 1 /\ Len(k.attempts) = 1
  /\ Len(k.attempts) <= Len(k.tried)
  /\ \A i \in DOMAIN k.attempts :
       k.attempts[i] = "CONNECT_FAILED" /\ k.sent # << >> => i < Len(k.tried)
  /\ k.answer \in {"partial", "complete"} /\ k.ask # "status" => k.sent # << >>

Typed ==
  /\ slots \in Int /\ inflight \in [Backends -> Int]
  /\ client \in [Clients -> Handlers]

IInv == Typed /\ (\A c \in Clients : Shape(client[c])) /\ CountsReturned

\* Appending one element.
LEMMA AppendOne ==
  ASSUME NEW S, NEW s \in Seq(S), NEW e \in S
  PROVE  /\ Append(s, e) \in Seq(S) /\ Len(Append(s, e)) = Len(s) + 1
         /\ Append(s, e) # << >> /\ Append(s, e)[Len(s) + 1] = e
         /\ \A i \in 1..Len(s) : Append(s, e)[i] = s[i]
         /\ DOMAIN Append(s, e) = 1..Len(s) + 1
<1>1. Append(s, e) \in Seq(S) /\ Len(Append(s, e)) = Len(s) + 1 /\ Len(s) \in Nat
  OBVIOUS
<1>2. Append(s, e)[Len(s) + 1] = e /\ \A i \in 1..Len(s) : Append(s, e)[i] = s[i]
  OBVIOUS
<1>3. DOMAIN Append(s, e) = 1..Len(s) + 1
  BY <1>1
<1> QED
  BY <1>1, <1>2, <1>3

\* The cardinality of a set of which one element has come, gone or stayed.
LEMMA OneMember ==
  ASSUME NEW S, NEW T, NEW x, IsFiniteSet(S), S \ {x} = T \ {x}
  PROVE  /\ IsFiniteSet(T) /\ Cardinality(T) \in Nat
         /\ Cardinality(T) = Cardinality(S) - (IF x \in S THEN 1 ELSE 0)
                                            + (IF x \in T THEN 1 ELSE 0)
<1> DEFINE R == S \ {x}
<1>1. IsFiniteSet(R) /\ Cardinality(R) \in Nat
  BY FS_RemoveElement, FS_CardinalityType
<1>2. x \notin R
  OBVIOUS
<1>3. IsFiniteSet(R \cup {x}) /\ Cardinality(R \cup {x}) = Cardinality(R) + 1
  BY <1>1, <1>2, FS_AddElement
<1>4. (S = R \/ S = R \cup {x}) /\ (x \in S <=> S # R)
  OBVIOUS
<1>5. (T = R \/ T = R \cup {x}) /\ (x \in T <=> T # R)
  OBVIOUS
<1>6. /\ Cardinality(S) = Cardinality(R) + (IF x \in S THEN 1 ELSE 0)
      /\ IsFiniteSet(T) /\ Cardinality(T) = Cardinality(R) + (IF x \in T THEN 1 ELSE 0)
  <2> HIDE DEF R
  <2>1. CASE x \in S /\ x \in T
    BY <2>1, <1>1, <1>3, <1>4, <1>5
  <2>2. CASE x \in S /\ x \notin T
    BY <2>2, <1>1, <1>3, <1>4, <1>5
  <2>3. CASE x \notin S
    BY <2>3, <1>1, <1>3, <1>4, <1>5
  <2> QED
    BY <2>1, <2>2, <2>3
<1> HIDE DEF R
<1> QED
  BY <1>1, <1>6

\* A step of one client moves the permits and the counts by what it takes and
\* gives back.
LEMMA Counting ==
  ASSUME IInv, NEW c \in Clients, \A d \in Clients \ {c} : client'[d] = client[d],
         slots' = slots + (IF Live(c) THEN 1 ELSE 0) - (IF Live(c)' THEN 1 ELSE 0),
         \A b \in Backends :
           inflight'[b] = inflight[b] - (IF client[c].held = b THEN 1 ELSE 0)
                                      + (IF client'[c].held = b THEN 1 ELSE 0)
  PROVE  CountsReturned'
<1> DEFINE L == {d \in Clients : Live(d)}
           M == {d \in Clients : Live(d)'}
           H(b) == {d \in Clients : client[d].held = b}
<1>1. \A d \in Clients \ {c} : Live(d)' <=> Live(d)
  BY DEF Live
<1>2. IsFiniteSet(L) /\ \A b : IsFiniteSet(H(b))
  BY FS_Subset, ForgeAssumption
<1>3. L \ {c} = M \ {c} /\ (c \in L <=> Live(c)) /\ (c \in M <=> Live(c)')
  BY <1>1
<1>4. slots + Cardinality(L) = MaxClients /\ Cardinality(L) \in Nat /\ slots \in Int
  BY <1>2, FS_CardinalityType DEF IInv, CountsReturned, Typed
<1>5. Cardinality(M) = Cardinality(L) - (IF c \in L THEN 1 ELSE 0) + (IF c \in M THEN 1 ELSE 0)
      /\ Cardinality(M) \in Nat
  <2> HIDE DEF L, M
  <2> QED
    BY <1>2, <1>3, OneMember
<1>6. slots' + Cardinality(M) = MaxClients
  <2> HIDE DEF L, M
  <2> QED
    BY <1>3, <1>4, <1>5, ForgeAssumption DEF Live
<1>7. ASSUME NEW b \in Backends
      PROVE  inflight'[b] = Cardinality({d \in Clients : client'[d].held = b})
  <2> DEFINE K == {d \in Clients : client'[d].held = b}
  <2>1. H(b) \ {c} = K \ {c}
    OBVIOUS
  <2>2. (c \in H(b) <=> client[c].held = b) /\ (c \in K <=> client'[c].held = b)
    OBVIOUS
  <2>3. IsFiniteSet(H(b)) /\ Cardinality(H(b)) \in Nat
    BY <1>2, FS_CardinalityType
  <2>4. Cardinality(K) = Cardinality(H(b)) - (IF c \in H(b) THEN 1 ELSE 0)
                                           + (IF c \in K THEN 1 ELSE 0)
    <3> HIDE DEF H, K
    <3> QED
      BY <2>1, <2>3, OneMember
  <2>5. inflight[b] = Cardinality(H(b))
    BY DEF IInv, CountsReturned
  <2> HIDE DEF H
  <2>6. inflight'[b] = Cardinality(K)
    <3> HIDE DEF K
    <3> QED
      BY <2>2, <2>3, <2>4, <2>5
  <2> QED
    BY <2>6
<1> QED
  BY <1>6, <1>7 DEF CountsReturned

\* c's handler has changed, and nobody else's.
Only(c) ==
  /\ client' \in [Clients -> Handlers]
  /\ \A d \in Clients \ {c} : client'[d] = client[d]

\* Putting the two together.
LEMMA Stepped ==
  ASSUME IInv, NEW c \in Clients, Only(c), Shape(client'[c]),
         slots' \in Int, inflight' \in [Backends -> Int],
         slots' = slots + (IF Live(c) THEN 1 ELSE 0) - (IF Live(c)' THEN 1 ELSE 0),
         \A b \in Backends :
           inflight'[b] = inflight[b] - (IF client[c].held = b THEN 1 ELSE 0)
                                      + (IF client'[c].held = b THEN 1 ELSE 0)
  PROVE  IInv'
<1>1. CountsReturned'
  BY Counting DEF Only
<1> QED
  BY <1>1 DEF IInv, Typed, Only

\* A step that keeps what is held.
LEMMA Stayed ==
  ASSUME IInv, NEW c \in Clients, Only(c), Shape(client'[c]), UNCHANGED <<slots, inflight>>,
         client'[c].held = client[c].held, client'[c].pc \notin {"new", "closed"}, Live(c)
  PROVE  IInv'
<1>1. slots \in Int /\ inflight \in [Backends -> Int]
  BY DEF IInv, Typed
<1>2. slots' = slots + (IF Live(c) THEN 1 ELSE 0) - (IF Live(c)' THEN 1 ELSE 0)
  <2>1. (IF Live(c) THEN 1 ELSE 0) = 1 /\ (IF Live(c)' THEN 1 ELSE 0) = 1
    BY DEF Live, At
  <2> QED
    BY <1>1, <2>1
<1>3. \A b \in Backends :
        inflight'[b] = inflight[b] - (IF client[c].held = b THEN 1 ELSE 0)
                                   + (IF client'[c].held = b THEN 1 ELSE 0)
  BY <1>1
<1>4. slots' \in Int /\ inflight' \in [Backends -> Int]
  BY <1>1
<1> QED
  BY <1>2, <1>3, <1>4, Stepped

\* Reply, Goto and Expire change where the handler is and what it answers, and
\* not what it picked, held, noted and sent.
Keeps(k, n) ==
  n.held = k.held /\ n.tried = k.tried /\ n.attempts = k.attempts /\ n.sent = k.sent

LEMMA Walked ==
  ASSUME IInv, NEW c \in Clients, Live(c), Only(c), Keeps(client[c], client'[c]),
         UNCHANGED <<slots, inflight>>,
         NEW pc, pc = client'[c].pc, NEW answer, answer = client'[c].answer,
         pc \notin {"new", "closed"},
         pc \in Attempting <=> client[c].pc \in Attempting,
         pc \in Untried => client[c].pc \in Untried /\ answer = "none",
         pc = "pick" => client[c].pc \in {"body", "pick"} /\ answer = "none",
         pc = "connect" => client[c].pc = "connect" /\ answer = "none",
         pc = "request" => client[c].pc = "request" /\ answer = "none",
         pc = "relay" => client[c].pc \in {"request", "relay"} /\ answer # "none",
         pc = "release" /\ answer = "none" => client[c].pc = "release" /\ client[c].answer = "none",
         answer \in {"partial", "complete"} /\ client'[c].ask # "status" => client[c].sent # << >>
  PROVE  IInv'
<1>1. PICK k \in Handlers : k = client[c] /\ Shape(k)
  BY DEF IInv, Typed
<1>2. PICK n \in Handlers : n = client'[c]
  BY DEF Only
<1>3. k.tried \in Seq(Backends) /\ k.attempts \in Seq(Labels) /\ k.sent \in Seq(Backends)
  BY <1>1 DEF Handlers
<1>4. k.pc \in {"body", "pick"} => Len(k.tried) <= 1 /\ Len(k.attempts) = Len(k.tried)
                                   /\ k.sent = << >>
  BY <1>1, <1>3 DEF Shape, Untried
<1>5. Shape(n)
  BY <1>1, <1>2, <1>3, <1>4 DEF Keeps, Shape, Attempting, Untried
<1> QED
  BY <1>1, <1>2, <1>5, Stayed DEF Keeps

\* A connection is taken in or turned away.
LEMMA Accepted ==
  ASSUME IInv, NEW c \in Clients, Accept(c)
  PROVE  IInv'
<1> DEFINE k == client[c]
<1>1. k \in Handlers /\ Shape(k) /\ k.pc = "new"
  BY DEF IInv, Typed, Accept, At
<1>2. PICK pc \in {"headers", "closed"} :
        /\ client' = [client EXCEPT ![c].pc = pc]
        /\ slots' = IF pc = "headers" THEN slots - 1 ELSE slots
        /\ inflight' = inflight
  BY DEF Accept
<1>3. Only(c) /\ client'[c].pc = pc /\ client'[c].answer = k.answer /\ Keeps(k, client'[c])
  BY <1>1, <1>2 DEF IInv, Typed, Only, Handlers, Keeps, Stations, Untried
<1>4. PICK n \in Handlers : n = client'[c]
  BY <1>3 DEF Only
<1>5. Shape(n)
  BY <1>1, <1>3, <1>4 DEF Shape, Keeps, Untried, Attempting
<1>6. slots \in Int /\ inflight \in [Backends -> Int]
  BY DEF IInv, Typed
<1>7. slots' = slots + (IF Live(c) THEN 1 ELSE 0) - (IF Live(c)' THEN 1 ELSE 0)
  BY <1>1, <1>2, <1>3, <1>6 DEF Live
<1>8. \A b \in Backends :
        inflight'[b] = inflight[b] - (IF client[c].held = b THEN 1 ELSE 0)
                                   + (IF client'[c].held = b THEN 1 ELSE 0)
  BY <1>2, <1>3, <1>6 DEF Keeps
<1>9. slots' \in Int /\ inflight' \in [Backends -> Int]
  BY <1>2, <1>6
<1> QED
  BY <1>3, <1>4, <1>5, <1>7, <1>8, <1>9, Stepped

\* The thread ends, and its permit is free.
LEMMA Gone ==
  ASSUME IInv, NEW c \in Clients, Leave(c)
  PROVE  IInv'
<1> DEFINE n == [NewClient EXCEPT !.pc = "closed"]
<1>1. client[c] \in Handlers /\ Shape(client[c]) /\ client[c].pc = "end"
  BY DEF IInv, Typed, Leave, At
<1>2. << >> \in Seq(Backends) /\ << >> \in Seq(Labels) /\ Len(<< >>) = 0
  OBVIOUS
<1>3. /\ n.pc = "closed" /\ n.held = NoBackend /\ n.tried = << >> /\ n.attempts = << >>
      /\ n.sent = << >> /\ n.answer = "none"
  BY DEF NewClient
<1>4. n \in Handlers
  BY <1>2 DEF Handlers, NewClient, Stations, Untried, Kinds, Asks
<1>5. client' = [client EXCEPT ![c] = n] /\ slots' = slots + 1 /\ inflight' = inflight
  BY DEF Leave
<1>6. client'[c] = n /\ Only(c)
  BY <1>4, <1>5 DEF IInv, Typed, Only
<1> HIDE DEF n
<1>7. Shape(n)
  BY <1>2, <1>3 DEF Shape, Untried, Attempting
<1>8. slots \in Int /\ inflight \in [Backends -> Int]
  BY DEF IInv, Typed
<1>9. slots' = slots + (IF Live(c) THEN 1 ELSE 0) - (IF Live(c)' THEN 1 ELSE 0)
  BY <1>1, <1>3, <1>5, <1>6, <1>8 DEF Live
<1>10. client[c].held = NoBackend
  BY <1>1 DEF Shape, Attempting
<1>11. \A b \in Backends :
        inflight'[b] = inflight[b] - (IF client[c].held = b THEN 1 ELSE 0)
                                   + (IF client'[c].held = b THEN 1 ELSE 0)
  BY <1>3, <1>5, <1>6, <1>8, <1>10, ForgeAssumption
<1>12. slots' \in Int /\ inflight' \in [Backends -> Int]
  BY <1>5, <1>8
<1> QED
  BY <1>6, <1>7, <1>9, <1>11, <1>12, Stepped

\* Whatever _send_json does with an answer, it is not "none" afterwards, and a
\* whole answer is a new one only when it was asked for.
LEMMA AnswerKinds ==
  ASSUME IInv, NEW c \in Clients, NEW kind \in {"error", "partial", "complete"}
  PROVE  /\ Answered(c, kind) \in Kinds \ {"none"}
         /\ Answered(c, kind) \in {"partial", "complete"} =>
              Answered(c, kind) = kind \/ Answered(c, kind) = client[c].answer
BY DEF IInv, Typed, Handlers, Kinds, Answered

\* A deadline fires.
LEMMA Expired ==
  ASSUME IInv, NEW c \in Clients, Expire(c)
  PROVE  IInv'
<1>1. client[c] \in Handlers /\ Shape(client[c]) /\ client \in [Clients -> Handlers]
  BY DEF IInv, Typed
<1>2. /\ Only(c) /\ Keeps(client[c], client'[c]) /\ UNCHANGED <<slots, inflight>>
      /\ client'[c].pc = client[c].pc /\ client'[c].answer = client[c].answer
      /\ client'[c].ask = client[c].ask
  BY <1>1 DEF Expire, Only, Keeps, Handlers
<1>3. client[c].pc \notin {"new", "closed"} /\ Live(c)
  BY DEF Expire, Timed, At, Live
<1> QED
  BY <1>1, <1>2, <1>3, Walked DEF Shape

\* The handler goes on without an answer, before any backend is picked.
LEMMA Advanced ==
  ASSUME IInv, NEW c \in Clients, Only(c), Keeps(client[c], client'[c]),
         UNCHANGED <<slots, inflight>>, client'[c].answer = client[c].answer,
         \/ client[c].pc = "headers" /\ client'[c].pc \in {"body", "end"}
         \/ client[c].pc = "body" /\ client'[c].pc = "pick"
  PROVE  IInv'
<1>1. client[c].answer = "none" /\ Live(c)
  BY DEF IInv, Shape, Untried, Live, At
<1> QED
  BY <1>1, Walked DEF Attempting, Untried

\* _send_json, or the status line and what follows it.
LEMMA Replied ==
  ASSUME IInv, NEW c \in Clients, NEW pc, NEW kind \in {"error", "partial", "complete"},
         Reply(c, kind, pc),
         \/ pc = "end" /\ client[c].pc \in {"headers", "body", "pick"}
         \/ pc = "release" /\ client[c].pc \in {"request", "relay"}
         \/ pc = "relay" /\ client[c].pc = "request",
         kind \in {"partial", "complete"} => client[c].pc = "request" \/ client[c].ask = "status"
  PROVE  IInv'
<1>1. client[c] \in Handlers /\ Shape(client[c]) /\ client \in [Clients -> Handlers]
  BY DEF IInv, Typed
<1>2. /\ Answered(c, kind) \in Kinds \ {"none"}
      /\ Answered(c, kind) \in {"partial", "complete"} =>
           Answered(c, kind) = kind \/ Answered(c, kind) = client[c].answer
  BY AnswerKinds
<1>3. /\ Only(c) /\ Keeps(client[c], client'[c]) /\ UNCHANGED <<slots, inflight>>
      /\ client'[c].pc = pc /\ client'[c].answer = Answered(c, kind)
      /\ client'[c].ask = client[c].ask
  <2>1. pc \in Stations
    BY DEF Stations, Attempting
  <2> QED
    BY <1>1, <1>2, <2>1 DEF Reply, Only, Keeps, Handlers
<1>4. Answered(c, kind) \in {"partial", "complete"} /\ client[c].ask # "status"
        => client[c].sent # << >>
  BY <1>1, <1>2 DEF Shape
<1>5. pc \in Attempting <=> client[c].pc \in Attempting
  BY DEF Attempting
<1>6. Live(c) /\ pc \notin Untried /\ pc \notin {"new", "closed", "pick", "connect", "request"}
      /\ (pc = "relay" => client[c].pc = "request")
  BY DEF Live, At, Untried
<1> QED
  BY <1>2, <1>3, <1>4, <1>5, <1>6, Walked

\* The header phase.
LEMMA HeadersRead ==
  ASSUME IInv, NEW c \in Clients, ReadHeaders(c)
  PROVE  IInv'
<1>1. client \in [Clients -> Handlers] /\ client[c].pc = "headers"
  BY DEF IInv, Typed, ReadHeaders, At
<1>2. CASE Goto(c, "end")
  <2>1. /\ Only(c) /\ Keeps(client[c], client'[c]) /\ UNCHANGED <<slots, inflight>>
        /\ client'[c].answer = client[c].answer /\ client'[c].pc = "end"
    BY <1>1, <1>2 DEF Goto, Only, Keeps, Handlers, Stations
  <2> QED
    BY <1>1, <2>1, Advanced
<1>3. CASE Reply(c, "error", "end")
  BY <1>1, <1>3, Replied
<1>4. ASSUME NEW ask \in Asks, client' = [client EXCEPT ![c].pc = "body", ![c].ask = ask],
             UNCHANGED <<slots, inflight>>
      PROVE  IInv'
  <2>1. client[c] \in Handlers
    BY <1>1
  <2>2. client'[c] = [client[c] EXCEPT !.pc = "body", !.ask = ask]
    BY <1>1, <1>4
  <2>3. client'[c] \in Handlers
    BY <2>1, <2>2 DEF Handlers, Stations, Untried
  <2>4. /\ client'[c].answer = client[c].answer /\ client'[c].pc = "body"
        /\ Keeps(client[c], client'[c])
    BY <2>1, <2>2 DEF Handlers, Keeps
  <2>5. Only(c)
    BY <1>1, <1>4, <2>3 DEF Only
  <2> QED
    BY <1>1, <1>4, <2>4, <2>5, Advanced
<1> QED
  BY <1>2, <1>3, <1>4 DEF ReadHeaders

\* The body, the checks and the status page.
LEMMA BodyRead ==
  ASSUME IInv, NEW c \in Clients, ReadBody(c)
  PROVE  IInv'
<1>1. client \in [Clients -> Handlers] /\ client[c].pc = "body"
  BY DEF IInv, Typed, ReadBody, At
<1>2. CASE Goto(c, "pick")
  <2>1. /\ Only(c) /\ Keeps(client[c], client'[c]) /\ UNCHANGED <<slots, inflight>>
        /\ client'[c].answer = client[c].answer /\ client'[c].pc = "pick"
    BY <1>1, <1>2 DEF Goto, Only, Keeps, Handlers, Stations
  <2> QED
    BY <1>1, <2>1, Advanced
<1>3. CASE Reply(c, "error", "end")
  BY <1>1, <1>3, Replied
<1>4. CASE client[c].ask = "status" /\ Reply(c, "complete", "end")
  BY <1>1, <1>4, Replied
<1> QED
  BY <1>2, <1>3, <1>4 DEF ReadBody

\* An attempt ends with a row of its own, on its own count.
LEMMA AfterFailed ==
  ASSUME IInv, NEW c \in Clients, NEW label \in Labels, Failed(c, label),
         IF label = "CONNECT_FAILED" THEN client[c].pc = "connect"
                                     ELSE client[c].pc \in {"request", "relay"}
  PROVE  IInv'
<1>1. PICK k \in Handlers : k = client[c] /\ Shape(k)
  BY DEF IInv, Typed
<1>2. client \in [Clients -> Handlers]
  BY DEF IInv, Typed
<1>3. PICK answer \in Kinds :
        /\ answer = IF label = "CONNECT_FAILED" /\ Len(k.tried) = 1
                    THEN k.answer ELSE Answered(c, "error")
        /\ answer = "none" => label = "CONNECT_FAILED" /\ Len(k.tried) = 1
        /\ answer \in {"partial", "complete"} => k.answer = answer
  BY <1>1, AnswerKinds DEF Handlers
<1>4. /\ k.tried \in Seq(Backends) /\ k.attempts \in Seq(Labels) /\ k.sent \in Seq(Backends)
      /\ k.held # NoBackend /\ Len(k.attempts) = Len(k.tried) - 1 /\ Len(k.tried) <= 2
      /\ Live(c) /\ (label = "CONNECT_FAILED" => k.sent = << >> /\ k.answer = "none")
  BY <1>1 DEF Handlers, Shape, Attempting, Live, At
<1>5. Len(k.attempts) \in Nat /\ DOMAIN k.attempts = 1..Len(k.attempts) /\ Len(k.tried) \in Nat
  BY <1>4
<1>6. PICK rows \in Seq(Labels) :
        /\ rows = Append(k.attempts, label) /\ Len(rows) = Len(k.attempts) + 1
        /\ DOMAIN rows = 1..Len(k.attempts) + 1 /\ rows[Len(k.attempts) + 1] = label
        /\ \A i \in 1..Len(k.attempts) : rows[i] = k.attempts[i]
  <2>1. /\ Append(k.attempts, label) \in Seq(Labels)
        /\ Len(Append(k.attempts, label)) = Len(k.attempts) + 1
        /\ DOMAIN Append(k.attempts, label) = 1..Len(k.attempts) + 1
        /\ Append(k.attempts, label)[Len(k.attempts) + 1] = label
        /\ \A i \in 1..Len(k.attempts) : Append(k.attempts, label)[i] = k.attempts[i]
    BY <1>4, AppendOne
  <2> QED
    BY <2>1, Zenon
<1>7. /\ client' = [client EXCEPT ![c].pc = "release", ![c].attempts = rows, ![c].answer = answer]
      /\ UNCHANGED <<slots, inflight>>
  BY <1>1, <1>3, <1>6 DEF Failed
<1>8. PICK n \in Handlers :
        /\ n = client'[c] /\ n.pc = "release" /\ n.attempts = rows /\ n.answer = answer
        /\ n.ask = k.ask /\ n.held = k.held /\ n.tried = k.tried /\ n.sent = k.sent
  <2>1. client' = [client EXCEPT ![c] = [k EXCEPT !.pc = "release", !.attempts = rows,
                                                  !.answer = answer]]
    BY <1>1, <1>2, <1>7
  <2>2. client'[c] = [k EXCEPT !.pc = "release", !.attempts = rows, !.answer = answer]
    BY <1>2, <2>1
  <2>3. client'[c] \in Handlers
    BY <2>2 DEF Handlers, Stations, Attempting
  <2>4. /\ client'[c].pc = "release"
        /\ client'[c].attempts = rows /\ client'[c].answer = answer
        /\ client'[c].ask = k.ask /\ client'[c].held = k.held
        /\ client'[c].tried = k.tried /\ client'[c].sent = k.sent
    BY <2>2 DEF Handlers
  <2> QED
    BY <2>3, <2>4, Zenon
<1>9. Only(c)
  BY <1>2, <1>7, <1>8 DEF Only
<1>10. \A i \in DOMAIN rows : rows[i] = "CONNECT_FAILED" /\ k.sent # << >> => i < Len(k.tried)
  <2> SUFFICES ASSUME NEW i \in DOMAIN rows, rows[i] = "CONNECT_FAILED", k.sent # << >>
               PROVE  i < Len(k.tried)
    OBVIOUS
  <2>1. label = "OUTCOME_UNKNOWN"
    BY <1>4 DEF Labels
  <2>2. i # Len(k.attempts) + 1 /\ i \in 1..Len(k.attempts) + 1
    BY <1>6, <2>1
  <2> QED
    BY <1>4, <1>5, <2>2
<1>11. Shape(n)
  <2>1. /\ k.held # NoBackend /\ k.held = Last(k.tried) /\ k.tried # << >>
        /\ Len(k.tried) = 2 => k.tried[1] # k.tried[2]
        /\ k.sent # << >> => k.sent = <<Last(k.tried)>>
        /\ k.answer \in {"partial", "complete"} /\ k.ask # "status" => k.sent # << >>
    BY <1>1, <1>4 DEF Shape
  <2>2. n.pc \in Attempting /\ n.pc \notin Untried
    BY <1>8 DEF Attempting, Untried
  <2>3. n.answer = "none" => k.sent = << >> /\ Len(k.tried) = 1
    BY <1>3, <1>4, <1>8
  <2>4. n.answer \in {"partial", "complete"} /\ n.ask # "status" => n.sent # << >>
    BY <1>3, <1>8, <2>1
  <2>5. Len(n.attempts) = Len(n.tried) /\ Len(n.tried) <= 2
    BY <1>4, <1>5, <1>6, <1>8
  <2> QED
    BY <1>8, <1>10, <2>1, <2>2, <2>3, <2>4, <2>5 DEF Shape
<1> QED
  BY <1>1, <1>4, <1>7, <1>8, <1>9, <1>11, Stayed

\* A pick is a backend, and the second one is the other.
LEMMA Picked ==
  ASSUME NEW c \in Clients, client[c].tried # << >> => client[c].tried[1] \in Backends
  PROVE  /\ Pick(c) \in Backends
         /\ client[c].tried # << >> => Pick(c) # client[c].tried[1]
<1>1. CASE client[c].tried # << >>
  <2>1. Pick(c) = CHOOSE b \in Backends : b # client[c].tried[1]
    BY <1>1, Zenon DEF Pick
  <2>2. \E b \in Backends : b # client[c].tried[1]
    BY DEF Backends
  <2> QED
    BY <2>1, <2>2
<1>2. CASE client[c].tried = << >>
  BY <1>2 DEF Pick, Backends
<1> QED
  BY <1>1, <1>2

\* The pick and its count, or the end of a request whose time is up.
LEMMA Taken ==
  ASSUME IInv, NEW c \in Clients, Take(c)
  PROVE  IInv'
<1>1. PICK k \in Handlers : k = client[c] /\ Shape(k) /\ k.pc = "pick"
  BY DEF IInv, Typed, Take, At
<1>2. client \in [Clients -> Handlers] /\ inflight \in [Backends -> Int] /\ slots \in Int
  BY DEF IInv, Typed
<1>3. CASE Reply(c, "error", "end")
  BY <1>1, <1>3, Replied
<1>4. CASE ~Reply(c, "error", "end")
  <2>1. /\ k.tried \in Seq(Backends) /\ k.attempts \in Seq(Labels) /\ Len(k.tried) \in 0..1
        /\ Len(k.attempts) = Len(k.tried) /\ k.sent = << >> /\ k.answer = "none"
        /\ k.held = NoBackend
    <3>1. k.tried \in Seq(Backends) /\ k.attempts \in Seq(Labels)
      BY DEF Handlers
    <3>2. Len(k.tried) \in Nat
      BY <3>1
    <3>3. Len(k.tried) <= 1 /\ Len(k.attempts) = Len(k.tried) /\ k.sent = << >> /\ k.answer = "none"
      BY <1>1 DEF Shape
    <3>4. k.held = NoBackend
      BY <1>1 DEF Shape, Attempting
    <3>5. \A m \in Nat : m <= 1 => m \in 0..1
      OBVIOUS
    <3> QED
      BY <3>1, <3>2, <3>3, <3>4, <3>5, Zenon
  <2>2. k.tried # << >> => Len(k.tried) = 1 /\ k.tried[1] \in Backends
    BY <2>1
  <2>3. PICK b \in Backends : b = Pick(c) /\ (k.tried # << >> => b # k.tried[1])
    BY <1>1, <2>2, Picked
  <2>4. /\ Append(k.tried, b) \in Seq(Backends) /\ Len(Append(k.tried, b)) = Len(k.tried) + 1
        /\ Append(k.tried, b) # << >> /\ Append(k.tried, b)[Len(k.tried) + 1] = b
        /\ \A i \in 1..Len(k.tried) : Append(k.tried, b)[i] = k.tried[i]
    BY <2>1, AppendOne
  <2>5. PICK tried \in Seq(Backends) :
          /\ tried = Append(k.tried, b) /\ Len(tried) = Len(k.tried) + 1 /\ tried # << >>
          /\ tried[Len(k.tried) + 1] = b /\ \A i \in 1..Len(k.tried) : tried[i] = k.tried[i]
    BY <2>4, Zenon
  <2>6. /\ client' = [client EXCEPT ![c] = [k EXCEPT !.pc = "connect", !.held = b,
                                                     !.tried = tried]]
        /\ slots' = slots /\ inflight' = [inflight EXCEPT ![b] = @ + 1]
    BY <1>1, <1>2, <1>4, <2>3, <2>5 DEF Take
  <2>7. client'[c] = [k EXCEPT !.pc = "connect", !.held = b, !.tried = tried]
    BY <1>2, <2>6
  <2>8. /\ client'[c] \in Handlers /\ client'[c].pc = "connect" /\ client'[c].held = b
        /\ client'[c].tried = tried /\ client'[c].attempts = k.attempts
        /\ client'[c].sent = k.sent /\ client'[c].answer = k.answer /\ client'[c].ask = k.ask
    BY <2>7 DEF Handlers, Stations, Attempting
  <2>9. PICK n \in Handlers :
          /\ n = client'[c] /\ n.pc = "connect" /\ n.held = b /\ n.tried = tried
          /\ n.attempts = k.attempts /\ n.sent = << >> /\ n.answer = "none"
    BY <2>1, <2>8, Zenon
  <2>10. Len(tried) = 2 => tried[1] # tried[2]
    <3> SUFFICES ASSUME Len(tried) = 2 PROVE tried[1] # tried[2]
      OBVIOUS
    <3>1. Len(k.tried) = 1 /\ k.tried # << >>
      BY <2>1, <2>5
    <3> QED
      BY <2>3, <2>5, <3>1
  <2>11. Last(tried) = b
    BY <2>5 DEF Last
  <2>12. Shape(n)
    BY <2>1, <2>5, <2>9, <2>10, <2>11, ForgeAssumption DEF Shape, Untried, Attempting
  <2>13. Only(c) /\ Live(c) /\ Live(c)'
    BY <1>1, <1>2, <2>6, <2>8 DEF Only, Live, At
  <2>14. slots' = slots + (IF Live(c) THEN 1 ELSE 0) - (IF Live(c)' THEN 1 ELSE 0)
    BY <1>2, <2>6, <2>13
  <2>15. inflight' \in [Backends -> Int] /\ slots' \in Int
    BY <1>2, <2>6
  <2>16. ASSUME NEW d \in Backends
         PROVE  inflight'[d] = inflight[d] - (IF client[c].held = d THEN 1 ELSE 0)
                                           + (IF client'[c].held = d THEN 1 ELSE 0)
    <3>1. client[c].held # d /\ client'[c].held = b
      BY <1>1, <2>1, <2>9, ForgeAssumption
    <3> QED
      BY <1>2, <2>6, <3>1
  <2> QED
    BY <2>9, <2>12, <2>13, <2>14, <2>15, <2>16, Stepped
<1> QED
  BY <1>3, <1>4

\* The finally of an attempt.
LEMMA Released ==
  ASSUME IInv, NEW c \in Clients, Release(c)
  PROVE  IInv'
<1>1. PICK k \in Handlers : k = client[c] /\ Shape(k) /\ k.pc = "release"
  BY DEF IInv, Typed, Release, At
<1>2. client \in [Clients -> Handlers] /\ inflight \in [Backends -> Int] /\ slots \in Int
  BY DEF IInv, Typed
<1>3. /\ k.tried \in Seq(Backends) /\ k.attempts \in Seq(Labels) /\ k.sent \in Seq(Backends)
      /\ k.held \in Backends
  BY <1>1 DEF Handlers, Shape, Attempting
<1>4. PICK pc \in {"pick", "end"} : pc = "pick" <=> k.answer = "none"
  OBVIOUS
<1>5. /\ client' = [client EXCEPT ![c] = [k EXCEPT !.held = NoBackend, !.pc = pc]]
      /\ slots' = slots /\ inflight' = [inflight EXCEPT ![k.held] = @ - 1]
  BY <1>1, <1>2, <1>4 DEF Release
<1>6. client'[c] = [k EXCEPT !.held = NoBackend, !.pc = pc]
  BY <1>2, <1>5
<1>7. /\ client'[c] \in Handlers /\ client'[c].pc = pc /\ client'[c].held = NoBackend
      /\ client'[c].tried = k.tried /\ client'[c].attempts = k.attempts
      /\ client'[c].sent = k.sent /\ client'[c].answer = k.answer /\ client'[c].ask = k.ask
  <2>1. client'[c] \in Handlers
    BY <1>6 DEF Handlers, Stations
  <2>2. /\ client'[c].pc = pc /\ client'[c].held = NoBackend
        /\ client'[c].tried = k.tried /\ client'[c].attempts = k.attempts
        /\ client'[c].sent = k.sent /\ client'[c].answer = k.answer /\ client'[c].ask = k.ask
    BY <1>6 DEF Handlers
  <2> QED
    BY <2>1, <2>2
<1>8. PICK n \in Handlers :
        /\ n = client'[c] /\ n.pc = pc /\ n.held = NoBackend /\ n.tried = k.tried
        /\ n.attempts = k.attempts /\ n.sent = k.sent /\ n.answer = k.answer /\ n.ask = k.ask
  BY <1>7, Zenon
<1>9. Shape(n)
  <2>1. /\ Len(k.tried) <= 2 /\ (Len(k.tried) = 2 => k.tried[1] # k.tried[2])
        /\ k.sent # << >> => k.tried # << >> /\ k.sent = <<Last(k.tried)>>
        /\ k.answer = "none" => k.sent = << >> /\ Len(k.tried) = 1 /\ Len(k.attempts) = 1
        /\ Len(k.attempts) <= Len(k.tried)
        /\ \A i \in DOMAIN k.attempts :
             k.attempts[i] = "CONNECT_FAILED" /\ k.sent # << >> => i < Len(k.tried)
        /\ k.answer \in {"partial", "complete"} /\ k.ask # "status" => k.sent # << >>
    BY <1>1 DEF Shape
  <2>2. n.pc \in {"pick", "end"} /\ n.pc \notin Attempting /\ n.pc \notin Untried
    BY <1>8 DEF Attempting, Untried
  <2> QED
    BY <1>4, <1>8, <2>1, <2>2 DEF Shape
<1>10. Only(c) /\ Live(c) /\ Live(c)'
  BY <1>1, <1>2, <1>4, <1>5, <1>7 DEF Only, Live, At
<1>11. slots' = slots + (IF Live(c) THEN 1 ELSE 0) - (IF Live(c)' THEN 1 ELSE 0)
  BY <1>2, <1>5, <1>10
<1>12. inflight' \in [Backends -> Int] /\ slots' \in Int
  BY <1>2, <1>3, <1>5
<1>13. ASSUME NEW d \in Backends
       PROVE  inflight'[d] = inflight[d] - (IF client[c].held = d THEN 1 ELSE 0)
                                         + (IF client'[c].held = d THEN 1 ELSE 0)
  <2>1. client'[c].held # d /\ client[c].held = k.held
    BY <1>1, <1>8, ForgeAssumption
  <2> QED
    BY <1>2, <1>3, <1>5, <2>1
<1> QED
  BY <1>8, <1>9, <1>10, <1>11, <1>12, <1>13, Stepped

\* Connected: from here on the backend may have bytes of the request.
LEMMA Connected ==
  ASSUME IInv, NEW c \in Clients, Connect(c)
  PROVE  IInv'
<1>1. PICK k \in Handlers : k = client[c] /\ Shape(k) /\ k.pc = "connect"
  BY DEF IInv, Typed, Connect, At
<1>2. client \in [Clients -> Handlers]
  BY DEF IInv, Typed
<1>3. CASE Failed(c, "CONNECT_FAILED")
  BY <1>1, <1>3, AfterFailed DEF Labels
<1>4. CASE ~Failed(c, "CONNECT_FAILED")
  <2>1. /\ k.tried \in Seq(Backends) /\ k.attempts \in Seq(Labels) /\ k.held \in Backends
        /\ k.sent = << >> /\ k.answer = "none" /\ Len(k.attempts) = Len(k.tried) - 1
        /\ k.held = Last(k.tried) /\ k.tried # << >>
    BY <1>1 DEF Handlers, Shape, Attempting
  <2>2. Append(<< >>, k.held) = <<k.held>> /\ <<k.held>> \in Seq(Backends) /\ <<k.held>> # << >>
    BY <2>1
  <2>3. PICK sent \in Seq(Backends) : sent = <<k.held>> /\ sent # << >>
    BY <2>2, Zenon
  <2>4. /\ client' = [client EXCEPT ![c] = [k EXCEPT !.pc = "request", !.sent = sent]]
        /\ UNCHANGED <<slots, inflight>>
    BY <1>1, <1>2, <1>4, <2>1, <2>2, <2>3 DEF Connect
  <2>5. client'[c] = [k EXCEPT !.pc = "request", !.sent = sent]
    BY <1>2, <2>4
  <2>6. /\ client'[c] \in Handlers /\ client'[c].pc = "request" /\ client'[c].held = k.held
        /\ client'[c].tried = k.tried /\ client'[c].attempts = k.attempts
        /\ client'[c].sent = sent /\ client'[c].answer = k.answer /\ client'[c].ask = k.ask
    BY <2>5 DEF Handlers, Stations, Attempting
  <2>7. PICK n \in Handlers :
          /\ n = client'[c] /\ n.pc = "request" /\ n.held = k.held /\ n.tried = k.tried
          /\ n.attempts = k.attempts /\ n.sent = sent /\ n.answer = k.answer /\ n.ask = k.ask
    BY <2>6, Zenon
  <2>8. \A i \in DOMAIN k.attempts : i < Len(k.tried)
    BY <2>1
  <2>9. Shape(n)
    BY <1>1, <2>1, <2>3, <2>7, <2>8 DEF Shape, Untried, Attempting
  <2>10. Only(c) /\ Live(c)
    BY <1>1, <1>2, <2>4, <2>6 DEF Only, Live, At
  <2> QED
    BY <1>1, <2>4, <2>7, <2>9, <2>10, Stayed
<1> QED
  BY <1>3, <1>4

\* The answer of a backend and its relay.
LEMMA Exchanged ==
  ASSUME IInv, NEW c \in Clients, Exchange(c) \/ Relay(c)
  PROVE  IInv'
<1>1. client[c] \in Handlers /\ Shape(client[c]) /\ client \in [Clients -> Handlers]
  BY DEF IInv, Typed
<1>2. CASE Exchange(c)
  BY <1>2, AfterFailed, Replied DEF Exchange, At, Labels
<1>3. CASE Relay(c) /\ ~Failed(c, "OUTCOME_UNKNOWN")
  <2>1. /\ client[c].pc = "relay" /\ UNCHANGED <<slots, inflight>>
        /\ client' = [client EXCEPT ![c].pc = "release",
                        ![c].answer = IF @ = "partial" THEN "complete" ELSE @]
    BY <1>3 DEF Relay, At
  <2>2. client[c].answer # "none" /\ client[c].sent # << >> /\ Live(c)
    BY <1>1, <2>1 DEF Shape, Live, At
  <2>3. PICK answer \in Kinds \ {"none"} :
          answer = IF client[c].answer = "partial" THEN "complete" ELSE client[c].answer
    BY <1>1, <2>2 DEF Handlers, Kinds
  <2>4. /\ Only(c) /\ Keeps(client[c], client'[c])
        /\ client'[c].pc = "release" /\ client'[c].answer = answer
    BY <1>1, <2>1, <2>3 DEF Only, Keeps, Handlers, Stations, Attempting
  <2> QED
    BY <2>1, <2>2, <2>3, <2>4, Walked DEF Attempting, Untried
<1>4. CASE Relay(c) /\ Failed(c, "OUTCOME_UNKNOWN")
  BY <1>4, AfterFailed DEF Relay, At, Labels
<1> QED
  BY <1>2, <1>3, <1>4

\* Nobody has connected.
LEMMA InitIInv == ForgeInit => IInv
<1> SUFFICES ASSUME ForgeInit PROVE IInv
  OBVIOUS
<1>1. << >> \in Seq(Backends) /\ << >> \in Seq(Labels) /\ Len(<< >>) = 0
  OBVIOUS
<1>2. NewClient \in Handlers /\ Shape(NewClient)
  BY <1>1 DEF NewClient, Handlers, Shape, Stations, Untried, Attempting, Kinds, Asks
<1>3. Typed /\ \A c \in Clients : Shape(client[c])
  BY <1>2, ForgeAssumption DEF ForgeInit, Typed
<1>4. {c \in Clients : Live(c)} = {}
  BY DEF ForgeInit, NewClient, Live
<1>5. \A b \in Backends : {c \in Clients : client[c].held = b} = {}
  BY ForgeAssumption DEF ForgeInit, NewClient
<1>6. CountsReturned
  BY <1>4, <1>5, FS_EmptySet, ForgeAssumption DEF CountsReturned, ForgeInit
<1> QED
  BY <1>3, <1>6 DEF IInv

\* One case per action of a client.
LEMMA StepIInv == IInv /\ [ForgeNext]_forgeVars => IInv'
<1> SUFFICES ASSUME IInv, [ForgeNext]_forgeVars PROVE IInv'
  OBVIOUS
<1>1. ASSUME NEW c \in Clients, Accept(c) \/ Expire(c) \/ Waiting(c) \/ Running(c)
      PROVE  IInv'
  BY <1>1, Accepted, Expired, HeadersRead, BodyRead, Taken, Connected, Exchanged, Released, Gone
  DEF Waiting, Running
<1>2. CASE UNCHANGED forgeVars
  BY <1>2 DEF forgeVars, IInv, Typed, CountsReturned, Live, At
<1> QED
  BY <1>1, <1>2 DEF ForgeNext

\* The inductive invariant of the mesh.
THEOREM Invariance == ForgeSpec => []IInv
  BY InitIInv, StepIInv, PTL DEF ForgeSpec

\* Whatever paths the handlers take, no permit and no in-flight count drifts.
THEOREM CountsComeBack == ForgeSpec => []CountsReturned
<1>1. IInv => CountsReturned
  BY DEF IInv
<1> QED
  BY <1>1, Invariance, PTL

\* "No request is replayed after dispatch".
THEOREM NeverReplayed == ForgeSpec => []NoReplay
<1>1. ASSUME IInv, NEW c \in Clients
      PROVE  LET k == client[c]
             IN /\ Len(k.sent) <= 1
                /\ \A i \in DOMAIN k.attempts, j \in DOMAIN k.sent :
                     k.attempts[i] = "CONNECT_FAILED" => k.tried[i] # k.sent[j]
                /\ k.answer \in {"partial", "complete"} /\ k.ask # "status"
                     => k.sent = <<Last(k.tried)>>
  <2>1. PICK k \in Handlers : k = client[c] /\ Shape(k)
    BY <1>1 DEF IInv, Typed
  <2>2. /\ k.tried \in Seq(Backends) /\ k.attempts \in Seq(Labels) /\ k.sent \in Seq(Backends)
    BY <2>1 DEF Handlers
  <2>3. Len(k.sent) <= 1
    BY <2>1, <2>2 DEF Shape
  <2>4. ASSUME NEW i \in DOMAIN k.attempts, NEW j \in DOMAIN k.sent,
               k.attempts[i] = "CONNECT_FAILED"
        PROVE  k.tried[i] # k.sent[j]
    <3>1. k.sent # << >> /\ k.sent = <<Last(k.tried)>> /\ k.sent[j] = Last(k.tried)
      BY <2>1, <2>2, <2>4 DEF Shape
    <3>2. i \in Nat \ {0} /\ Len(k.tried) \in Nat
      BY <2>2
    <3>3. i < Len(k.tried) /\ Len(k.tried) <= 2
      BY <2>1, <2>4, <3>1 DEF Shape
    <3>4. i = 1 /\ Len(k.tried) = 2
      <4>1. \A l, m \in Nat : l # 0 /\ l < m /\ m <= 2 => l = 1 /\ m = 2
        OBVIOUS
      <4> QED
        BY <3>2, <3>3, <4>1
    <3>5. k.tried[1] # k.tried[2]
      BY <2>1, <3>4 DEF Shape
    <3>6. k.sent[j] = k.tried[2]
      BY <3>1, <3>4 DEF Last
    <3> QED
      BY <3>4, <3>5, <3>6
  <2>5. k.answer \in {"partial", "complete"} /\ k.ask # "status" => k.sent = <<Last(k.tried)>>
    BY <2>1 DEF Shape
  <2> QED
    BY <2>1, <2>3, <2>4, <2>5
<1>2. IInv => NoReplay
  BY <1>1 DEF NoReplay
<1> QED
  BY <1>2, Invariance, PTL

-----------------------------------------------------------------------------
\* The embedding cache.

\* The vectors that answer a key, as they were received and stamped.
Vectors(key) == {v \in [for : {key}, at : Nat, ts : Nat] : v.at <= v.ts}

KeyOf(k) ==
  [model |-> k.model, input |-> k.input, scope |-> k.scope, route |-> k.routes[k.turn]]

Fields ==
  {"pc", "model", "input", "cached", "scope", "routes", "turn", "look", "vector", "hit"}

IsCall(k) == DOMAIN k = Fields /\ k = [f \in Fields |-> k[f]]

Carried(k, now) ==
  /\ IsCall(k)
  /\ k.look \in Nat
  /\ k.hit => k.pc = "served"
  /\ k.pc \in {"clock", "put", "served"} => k.vector \in Vectors(KeyOf(k))
  /\ k.pc = "clock" => k.vector.at <= now
  /\ k.pc = "put" => k.vector.at <= k.look
  /\ k.pc = "served" /\ k.hit => k.look < k.vector.ts + CacheTTL

CallsCarry ==
  /\ call = [c \in Calls |-> call[c]]
  /\ \A c \in Calls : Carried(call[c], clock)

CacheHolds ==
  /\ IsFiniteSet(DOMAIN cache) /\ Cardinality(DOMAIN cache) <= CacheMax
  /\ \A key \in DOMAIN cache : cache[key] \in Vectors(key)

EmbedIInv == clock \in Nat /\ CallsCarry /\ CacheHolds

\* A set of naturals has a least member.
LEMMA Least ==
  ASSUME NEW T \in SUBSET Nat, T # {}
  PROVE  \E x \in T : \A y \in T : x <= y
<1> DEFINE less == {s \in Nat \X Nat : s[1] < s[2]}
<1>1. IsWellFoundedOn(less, Nat)
  BY NatLessThanWellFounded, Zenon DEF OpToRel
<1>2. \A x, y \in Nat : ~ (<<y, x>> \in less) => x <= y
  OBVIOUS
<1> HIDE DEF less
<1>3. \E x \in T : \A y \in T : ~ (<<y, x>> \in less)
  BY <1>1, WFMin, Zenon
<1> QED
  BY <1>2, <1>3

\* The entry Put drops is one of the cache.
LEMMA OldestStored ==
  ASSUME CacheHolds, DOMAIN cache # {}
  PROVE  Oldest \in DOMAIN cache
<1> DEFINE T == {cache[key].ts : key \in DOMAIN cache}
<1>1. \A key \in DOMAIN cache : cache[key].ts \in Nat
  BY DEF CacheHolds, Vectors
<1>2. PICK x \in T : \A y \in T : x <= y
  <2>1. T \in SUBSET Nat /\ T # {}
    BY <1>1
  <2> HIDE DEF T
  <2> QED
    BY <2>1, Least, Zenon
<1>3. \E k \in DOMAIN cache : \A j \in DOMAIN cache : cache[k].ts <= cache[j].ts
  BY <1>2
<1> QED
  BY <1>3, Zenon DEF Oldest

\* One call moves on, the clock and the other calls stand still.
LEMMA CallSet ==
  ASSUME EmbedIInv, NEW c \in Calls, NEW next, Set(c, next), Carried(next, clock)
  PROVE  clock' \in Nat /\ CallsCarry'
<1>1. clock' = clock /\ call' = [call EXCEPT ![c] = next]
  BY Zenon DEF Set
<1>2. call' = [d \in Calls |-> IF d = c THEN next ELSE call[d]]
  BY <1>1, Zenon DEF EmbedIInv, CallsCarry
<1>3. \A d \in Calls : call'[d] = IF d = c THEN next ELSE call[d]
  BY <1>2, Zenon
<1>4. call' = [d \in Calls |-> call'[d]]
  BY <1>2, Zenon
<1>5. \A d \in Calls : Carried(call'[d], clock')
  BY <1>1, <1>3, Zenon DEF EmbedIInv, CallsCarry
<1> QED
  BY <1>1, <1>4, <1>5, Zenon DEF EmbedIInv, CallsCarry

\* Entries come and go within the bound.
LEMMA Fewer ==
  ASSUME CacheHolds, NEW keys \in SUBSET DOMAIN cache,
         cache' = [key \in keys |-> cache[key]]
  PROVE  CacheHolds'
<1>1. DOMAIN cache' = keys /\ \A key \in keys : cache'[key] = cache[key]
  BY Zenon
<1>2. IsFiniteSet(keys) /\ Cardinality(keys) <= Cardinality(DOMAIN cache)
  BY FS_Subset, Zenon DEF CacheHolds
<1>3. Cardinality(keys) \in Nat /\ Cardinality(DOMAIN cache) \in Nat
  BY <1>2, FS_CardinalityType, Zenon DEF CacheHolds
<1>4. Cardinality(keys) <= CacheMax
  BY <1>2, <1>3, EmbedAssumption DEF CacheHolds, EmbedAssumption
<1>5. \A key \in DOMAIN cache' : cache'[key] \in Vectors(key)
  BY <1>1, Zenon DEF CacheHolds
<1> QED
  BY <1>1, <1>2, <1>4, <1>5, Zenon DEF CacheHolds, Vectors

\* A full cache gives up one entry for a new key.
LEMMA Room ==
  ASSUME CacheHolds, NEW key
  PROVE  /\ IsFiniteSet(Kept(key) \cup {key})
         /\ Cardinality(Kept(key) \cup {key}) <= CacheMax
         /\ Kept(key) \subseteq DOMAIN cache
<1> DEFINE D == DOMAIN cache
<1>1. IsFiniteSet(D) /\ Cardinality(D) \in Nat /\ Cardinality(D) <= CacheMax
      /\ CacheMax \in Nat \ {0}
  BY FS_CardinalityType, EmbedAssumption DEF CacheHolds, EmbedAssumption
<1>2. CASE key \in D
  <2>1. Kept(key) = D /\ D \cup {key} = D
    BY <1>2, Zenon DEF Kept
  <2> QED
    BY <1>1, <2>1, Zenon
<1>3. CASE key \notin D /\ ~ Cardinality(D) >= CacheMax
  <2>1. Kept(key) = D
    BY <1>3, Zenon DEF Kept
  <2>2. IsFiniteSet(D \cup {key}) /\ Cardinality(D \cup {key}) = Cardinality(D) + 1
    BY <1>1, <1>3, FS_AddElement, Zenon
  <2>3. Cardinality(D) + 1 <= CacheMax
    BY <1>1, <1>3
  <2> QED
    BY <2>1, <2>2, <2>3, Zenon
<1>4. CASE key \notin D /\ Cardinality(D) >= CacheMax
  <2>1. D # {}
    BY <1>1, <1>4, FS_EmptySet
  <2>2. Oldest \in D
    BY <2>1, OldestStored, Zenon
  <2> DEFINE R == D \ {Oldest}
  <2>3. Kept(key) = R
    BY <1>4, Zenon DEF Kept
  <2>4. IsFiniteSet(R) /\ Cardinality(R) = Cardinality(D) - 1
    BY <1>1, <2>2, FS_RemoveElement, Zenon
  <2>5. key \notin R
    BY <1>4, Zenon
  <2>6. IsFiniteSet(R \cup {key}) /\ Cardinality(R \cup {key}) = Cardinality(R) + 1
    <3> HIDE DEF R
    <3> QED
      BY <2>4, <2>5, FS_AddElement, Zenon
  <2>7. Cardinality(R \cup {key}) <= CacheMax
    <3> HIDE DEF R, D
    <3> QED
      BY <1>1, <2>4, <2>6
  <2> QED
    BY <2>3, <2>6, <2>7, Zenon
<1> QED
  BY <1>2, <1>3, <1>4, Zenon

\* Steps that carry no vector yet: a call keeps its shape and what it looked at.
LEMMA EmbedBegun ==
  ASSUME EmbedIInv, NEW c \in Calls, Start(c) \/ Capture(c) \/ Route(c)
  PROVE  EmbedIInv'
<1> DEFINE k == call[c]
<1>1. Carried(k, clock) /\ clock \in Nat
  BY DEF EmbedIInv, CallsCarry
<1>2. cache' = cache
  BY DEF Start, Capture, Route
<1>3. CacheHolds'
  BY <1>2, Zenon DEF EmbedIInv, CacheHolds, Vectors
<1>4. ~ k.hit \/ k.pc = "served"
  BY <1>1, Zenon DEF Carried
<1>5. k.pc # "served" => Carried([NewCall EXCEPT !.pc = "failed"], clock)
  BY DEF Carried, IsCall, Fields, NewCall
<1>6. ASSUME Start(c) PROVE \E next : Set(c, next) /\ Carried(next, clock)
  <2>1. PICK model, input, cached :
          Set(c, [k EXCEPT !.pc = "capture", !.model = model, !.input = input,
                           !.cached = cached, !.scope = config.scope])
    BY <1>6, Zenon DEF Start
  <2>2. k.pc = "new"
    BY <1>6, Zenon DEF Start, Stage
  <2>3. Carried([k EXCEPT !.pc = "capture", !.model = model, !.input = input,
                          !.cached = cached, !.scope = config.scope], clock)
    BY <1>1, <2>2 DEF Carried, IsCall, Fields
  <2> QED
    BY <2>1, <2>3, Zenon
<1>7. ASSUME Capture(c) PROVE \E next : Set(c, next) /\ Carried(next, clock)
  <2>1. PICK routes, pc :
          k.pc = "capture" /\ pc \in {"capture", "route"}
          /\ Set(c, [k EXCEPT !.pc = pc, !.routes = routes])
    <3> DEFINE more == Append(k.routes, config[k.model][Len(k.routes) + 1])
    <3>1. /\ k.pc = "capture"
          /\ \/ Set(c, [k EXCEPT !.routes = more])
             \/ Set(c, [k EXCEPT !.pc = "route"])
      BY <1>7, Zenon DEF Capture, Stage
    <3> HIDE DEF more
    <3>2. /\ [k EXCEPT !.routes = more] = [k EXCEPT !.pc = "capture", !.routes = more]
          /\ [k EXCEPT !.pc = "route"] = [k EXCEPT !.pc = "route", !.routes = k.routes]
      BY <1>1, <3>1 DEF Carried, IsCall, Fields
    <3> QED
      BY <3>1, <3>2, Zenon
  <2>2. Carried([k EXCEPT !.pc = pc, !.routes = routes], clock)
    BY <1>1, <2>1 DEF Carried, IsCall, Fields
  <2> QED
    BY <2>1, <2>2, Zenon
<1>8. ASSUME Route(c) PROVE \E next : Set(c, next) /\ Carried(next, clock)
  <2>1. k.pc = "route"
    BY <1>8, Zenon DEF Route, Stage
  <2>2. Carried([k EXCEPT !.pc = "get", !.look = clock], clock) /\ Carried([k EXCEPT !.pc = "post"], clock)
    BY <1>1, <2>1 DEF Carried, IsCall, Fields
  <2>3. Carried([k EXCEPT !.pc = "route", !.turn = @ + 1], clock)
    BY <1>1, <2>1 DEF Carried, IsCall, Fields
  <2> QED
    BY <1>5, <1>8, <2>1, <2>2, <2>3, Zenon DEF Route, Pass, Fail
<1>9. PICK next : Set(c, next) /\ Carried(next, clock)
  BY <1>6, <1>7, <1>8, Zenon
<1> QED
  BY <1>3, <1>9, CallSet, Zenon DEF EmbedIInv

\* A replayed vector answers the key and is within its time to live.
LEMMA EmbedLookedUp ==
  ASSUME EmbedIInv, NEW c \in Calls, Get(c)
  PROVE  EmbedIInv'
<1> DEFINE k == call[c]
<1>1. Carried(k, clock) /\ k.pc = "get" /\ CacheHolds
  BY Zenon DEF EmbedIInv, CallsCarry, Get, Stage
<1>2. Carried([k EXCEPT !.pc = "post", !.look = 0], clock)
  BY <1>1 DEF Carried, IsCall, Fields
<1>3. Key(c) = KeyOf(k)
  BY Zenon DEF Key, Here, KeyOf
<1>4. ASSUME Key(c) \in DOMAIN cache, ~ k.look >= cache[Key(c)].ts + CacheTTL
      PROVE  Carried([k EXCEPT !.pc = "served", !.hit = TRUE, !.vector = cache[Key(c)]], clock)
  <2> DEFINE v == cache[Key(c)]
  <2>1. v \in Vectors(Key(c)) /\ v.ts \in Nat /\ k.look \in Nat /\ CacheTTL \in Nat
    BY <1>1, <1>4, EmbedAssumption DEF CacheHolds, Vectors, Carried, EmbedAssumption
  <2>2. k.look < v.ts + CacheTTL
    BY <1>4, <2>1
  <2> HIDE DEF v
  <2>3. Carried([k EXCEPT !.pc = "served", !.hit = TRUE, !.vector = v], clock)
    <3> DEFINE n == [k EXCEPT !.pc = "served", !.hit = TRUE, !.vector = v]
    <3>1. IsCall(n) /\ n.look = k.look /\ n.pc = "served" /\ n.hit = TRUE /\ n.vector = v
      BY <1>1 DEF Carried, IsCall, Fields
    <3>2. KeyOf(n) = KeyOf(k)
      BY <1>1 DEF Carried, IsCall, Fields, KeyOf
    <3> HIDE DEF n, k
    <3>3. Carried(n, clock)
      BY <1>3, <2>1, <2>2, <3>1, <3>2 DEF Carried
    <3> QED
      BY <3>3, Zenon DEF n
  <2> QED
    BY <2>3, Zenon DEF v
<1>5. \E next : Set(c, next) /\ Carried(next, clock)
  BY <1>2, <1>4, Zenon DEF Get, Miss, Hit
<1>6. CacheHolds'
  <2>1. CASE cache' = cache
    BY <1>1, <2>1, Zenon DEF CacheHolds, Vectors
  <2>2. CASE cache' = [key \in DOMAIN cache \ {Key(c)} |-> cache[key]]
    BY <1>1, <2>2, Fewer, Zenon
  <2> QED
    BY <2>1, <2>2, Zenon DEF Get
<1> QED
  BY <1>5, <1>6, CallSet, Zenon DEF EmbedIInv

\* A vector is received for the route whose turn it is.
LEMMA EmbedPosted ==
  ASSUME EmbedIInv, NEW c \in Calls, Post(c)
  PROVE  EmbedIInv'
<1> DEFINE k == call[c]
<1>1. Carried(k, clock) /\ k.pc = "post" /\ CacheHolds /\ cache' = cache /\ clock \in Nat
  BY Zenon DEF EmbedIInv, CallsCarry, Post, Stage
<1>2. Key(c) = KeyOf(k)
  BY Zenon DEF Key, Here, KeyOf
<1>3. Carried(Received(c, Key(c)), clock)
  <2> DEFINE v == [for |-> Key(c), at |-> clock, ts |-> clock]
             n == [k EXCEPT !.pc = IF k.cached THEN "clock" ELSE "served", !.vector = v]
  <2>1. v \in Vectors(Key(c)) /\ v.at = clock /\ clock <= clock
    BY <1>1 DEF Vectors
  <2> HIDE DEF v
  <2>2. IsCall(n) /\ n.look = k.look /\ n.pc \in {"clock", "served"} /\ n.hit = k.hit
        /\ n.vector = v
    BY <1>1 DEF Carried, IsCall, Fields
  <2>3. KeyOf(n) = KeyOf(k)
    BY <1>1 DEF Carried, IsCall, Fields, KeyOf
  <2>4. ~ k.hit /\ k.look \in Nat
    BY <1>1 DEF Carried
  <2>5. Received(c, Key(c)) = n
    BY Zenon DEF Received, v
  <2> HIDE DEF n, k
  <2>6. Carried(n, clock)
    BY <1>2, <2>1, <2>2, <2>3, <2>4 DEF Carried
  <2> QED
    BY <2>5, <2>6, Zenon
<1>4. Carried([k EXCEPT !.pc = "route", !.turn = @ + 1], clock)
  BY <1>1 DEF Carried, IsCall, Fields
<1>5. Carried([NewCall EXCEPT !.pc = "failed"], clock)
  BY DEF Carried, IsCall, Fields, NewCall
<1>6. \E next : Set(c, next) /\ Carried(next, clock)
  BY <1>3, <1>4, <1>5, Zenon DEF Post, Pass, Fail
<1>7. CacheHolds'
  BY <1>1, Zenon DEF CacheHolds, Vectors
<1> QED
  BY <1>6, <1>7, CallSet, Zenon DEF EmbedIInv

\* The stamp is read after the vector was received.
LEMMA EmbedStamped ==
  ASSUME EmbedIInv, NEW c \in Calls, PutClock(c)
  PROVE  EmbedIInv'
<1> DEFINE k == call[c]
           n == [k EXCEPT !.pc = "put", !.look = clock]
<1>1. Carried(k, clock) /\ k.pc = "clock" /\ CacheHolds /\ cache' = cache /\ clock \in Nat /\ Set(c, n)
  BY Zenon DEF EmbedIInv, CallsCarry, PutClock, Stage
<1>2. IsCall(n) /\ n.look = clock /\ n.pc = "put" /\ n.hit = k.hit /\ n.vector = k.vector
  BY <1>1 DEF Carried, IsCall, Fields
<1>3. KeyOf(n) = KeyOf(k)
  BY <1>1 DEF Carried, IsCall, Fields, KeyOf
<1>4. Carried(n, clock)
  <2> HIDE DEF n
  <2> QED
    BY <1>1, <1>2, <1>3 DEF Carried
<1>5. CacheHolds'
  BY <1>1, Zenon DEF CacheHolds, Vectors
<1> QED
  BY <1>1, <1>4, <1>5, CallSet, Zenon DEF EmbedIInv

\* What is stored under a key answers that key.
LEMMA EmbedStored ==
  ASSUME EmbedIInv, NEW c \in Calls, Put(c)
  PROVE  EmbedIInv'
<1> DEFINE k == call[c]
           n == [k EXCEPT !.pc = "served"]
           key == Key(c)
           new == [k.vector EXCEPT !.ts = k.look]
<1>1. Carried(k, clock) /\ k.pc = "put" /\ CacheHolds /\ Set(c, n)
      /\ cache' = [j \in Kept(key) \cup {key} |-> IF j = key THEN new ELSE cache[j]]
  BY Zenon DEF EmbedIInv, CallsCarry, Put, Stage
<1>2. key = KeyOf(k)
  BY Zenon DEF Key, Here, KeyOf
<1>3. IsCall(n) /\ n.look = k.look /\ n.pc = "served" /\ n.hit = k.hit /\ n.vector = k.vector
  BY <1>1 DEF Carried, IsCall, Fields
<1>4. KeyOf(n) = KeyOf(k)
  BY <1>1 DEF Carried, IsCall, Fields, KeyOf
<1>5. Carried(n, clock)
  <2> HIDE DEF n
  <2> QED
    BY <1>1, <1>3, <1>4 DEF Carried
<1>6. new \in Vectors(key)
  <2>1. k.vector \in Vectors(key) /\ k.look \in Nat /\ k.vector.at <= k.look
    BY <1>1, <1>2 DEF Carried
  <2> HIDE DEF k, key
  <2> QED
    BY <2>1 DEF Vectors, k
<1>7. /\ IsFiniteSet(Kept(key) \cup {key}) /\ Kept(key) \subseteq DOMAIN cache
      /\ Cardinality(Kept(key) \cup {key}) <= CacheMax
  BY <1>1, Room, Zenon
<1>8. CacheHolds'
  <2> HIDE DEF new, key
  <2>1. DOMAIN cache' = Kept(key) \cup {key}
    BY <1>1, Zenon
  <2>2. \A j \in DOMAIN cache' : cache'[j] = IF j = key THEN new ELSE cache[j]
    BY <1>1, <2>1, Zenon
  <2>3. \A j \in DOMAIN cache' : cache'[j] \in Vectors(j)
    BY <1>1, <1>6, <1>7, <2>1, <2>2, Zenon DEF CacheHolds
  <2>4. IsFiniteSet(DOMAIN cache') /\ Cardinality(DOMAIN cache') <= CacheMax
    BY <1>7, <2>1, Zenon
  <2> QED
    BY <2>3, <2>4, Zenon DEF CacheHolds, Vectors
<1> QED
  BY <1>1, <1>5, <1>8, CallSet, Zenon DEF EmbedIInv

\* Time, the environment and embed_cache_clear leave the calls alone.
LEMMA EmbedSurroundings ==
  ASSUME EmbedIInv, Tick \/ Reconfigure \/ Clear
  PROVE  EmbedIInv'
<1>1. clock' \in Nat /\ clock <= clock' /\ call' = call
  BY DEF EmbedIInv, Tick, Reconfigure, Clear
<1>2. CallsCarry'
  <2>1. ASSUME NEW c \in Calls PROVE Carried(call[c], clock')
    <3>1. Carried(call[c], clock) /\ clock \in Nat
      BY DEF EmbedIInv, CallsCarry
    <3>2. call[c].pc = "clock" => call[c].vector.at \in Nat
      BY <3>1 DEF Carried, Vectors
    <3>3. call[c].pc = "clock" => call[c].vector.at <= clock'
      BY <1>1, <3>1, <3>2 DEF Carried
    <3> QED
      BY <3>1, <3>3, Zenon DEF Carried
  <2> QED
    BY <1>1, <2>1, Zenon DEF EmbedIInv, CallsCarry
<1>3. CacheHolds'
  <2>1. CASE cache' = cache
    BY <2>1, Zenon DEF EmbedIInv, CacheHolds, Vectors
  <2>2. CASE cache' = << >>
    <3>1. DOMAIN cache' = {} /\ IsFiniteSet({}) /\ Cardinality({}) = 0 /\ 0 <= CacheMax
      BY <2>2, FS_EmptySet, EmbedAssumption DEF EmbedAssumption
    <3> QED
      BY <3>1 DEF CacheHolds
  <2> QED
    BY <2>1, <2>2, Zenon DEF Tick, Reconfigure, Clear
<1> QED
  BY <1>1, <1>2, <1>3, Zenon DEF EmbedIInv

LEMMA EmbedInitIInv == EmbedInit => EmbedIInv
<1> SUFFICES ASSUME EmbedInit PROVE EmbedIInv
  OBVIOUS
<1>1. Carried(NewCall, clock)
  BY DEF Carried, IsCall, Fields, NewCall
<1>2. call = [c \in Calls |-> NewCall]
  BY Zenon DEF EmbedInit
<1>3. CallsCarry
  BY <1>1, <1>2, Zenon DEF CallsCarry
<1>4. DOMAIN cache = {} /\ IsFiniteSet({}) /\ Cardinality({}) = 0 /\ 0 <= CacheMax
  BY FS_EmptySet, EmbedAssumption DEF EmbedAssumption, EmbedInit
<1> QED
  BY <1>3, <1>4 DEF EmbedIInv, CacheHolds, EmbedInit

LEMMA EmbedStepIInv == EmbedIInv /\ [EmbedNext]_embedVars => EmbedIInv'
<1>1. ASSUME EmbedIInv, UNCHANGED embedVars PROVE EmbedIInv'
  BY <1>1, Zenon DEF EmbedIInv, embedVars, CallsCarry, CacheHolds
<1>2. ASSUME EmbedIInv, EmbedNext PROVE EmbedIInv'
  BY <1>2, EmbedSurroundings, EmbedBegun, EmbedLookedUp, EmbedPosted, EmbedStamped,
     EmbedStored, Zenon DEF EmbedNext
<1> QED
  BY <1>1, <1>2

\* The inductive invariant of the embedding cache.
THEOREM EmbedInvariance == EmbedSpec => []EmbedIInv
  BY EmbedInitIInv, EmbedStepIInv, PTL DEF EmbedSpec

\* A caller gets a vector of the route it captured for that slot, its own or one
\* replayed within its time to live, and the cache keeps its bound.
THEOREM CallersGetTheirOwn == EmbedSpec => []VectorsOwn
<1>1. EmbedIInv => VectorsOwn
  <2>1. ASSUME EmbedIInv, NEW c \in Calls, Stage(c, "served")
        PROVE  LET v == call[c].vector
               IN /\ v.for = Key(c)
                  /\ call[c].hit => call[c].look < v.ts + CacheTTL /\ v.at <= v.ts
    <3>1. Carried(call[c], clock) /\ call[c].pc = "served" /\ Key(c) = KeyOf(call[c])
      BY <2>1, Zenon DEF EmbedIInv, CallsCarry, Stage, Key, Here, KeyOf
    <3>2. call[c].vector \in Vectors(Key(c))
      BY <3>1 DEF Carried
    <3>3. call[c].hit => call[c].look < call[c].vector.ts + CacheTTL
      BY <3>1, Zenon DEF Carried
    <3> QED
      BY <3>2, <3>3 DEF Vectors
  <2> QED
    BY <2>1, Zenon DEF EmbedIInv, CacheHolds, VectorsOwn
<1> QED
  BY <1>1, EmbedInvariance, PTL
=============================================================================
