------------------------------ MODULE ForgeMesh ------------------------------
(***************************************************************************)
(* The loopback dual-GPU example, src/examples/forge-mesh-router.py: one   *)
(* thread per client under a bounded number of slots; a header, a body and *)
(* an upstream deadline whose timer thread shuts the sockets; a pick of    *)
(* the less loaded backend, and one fallback when the first connection     *)
(* failed before any byte of the request had left.                         *)
(***************************************************************************)
EXTENDS Naturals, Sequences, FiniteSets

CONSTANTS
  Clients,     \* the connections of a behaviour
  MaxClients,  \* MAX_CLIENTS
  NoBackend    \* the handler holds no in-flight count

Backends == {"dgpu", "igpu"}

ASSUME ForgeAssumption ==
  IsFiniteSet(Clients) /\ MaxClients \in Nat \ {0} /\ NoBackend \notin Backends

\* What a client asks: an embedding, a generation, a HEAD, the status page, or
\* something the checks before the body's deadline or after it reject.
Asks == {"embed", "chat", "head", "status", "bad"}
HasBody(ask) == ask \in {"embed", "chat"}

VARIABLES
  slots,     \* free permits of _slots
  inflight,  \* requests at each backend, guarded by lock
  client     \* the handler of each client, see NewClient

forgeVars == <<slots, inflight, client>>

\* expired: a deadline fired and shut the sockets.  tried, attempts: the backends
\* picked and how each ended.  sent: the backends that may hold request bytes.
NewClient ==
  [pc |-> "new", ask |-> "bad", expired |-> FALSE, held |-> NoBackend,
   tried |-> << >>, attempts |-> << >>, sent |-> << >>, answer |-> "none"]

ForgeInit ==
  /\ slots = MaxClients
  /\ inflight = [b \in Backends |-> 0]
  /\ client = [c \in Clients |-> NewClient]

Live(c) == client[c].pc \notin {"new", "closed"}
At(c, pc) == client[c].pc = pc
Last(s) == s[Len(s)]

\* Wrong: a thread that cannot be started keeps the permit.
AcceptLeaky(c) ==
  /\ At(c, "new")
  /\ \/ /\ slots > 0
        /\ slots' = slots - 1
        /\ \E pc \in {"headers", "closed"} : client' = [client EXCEPT ![c].pc = pc]
     \/ slots = 0 /\ client' = [client EXCEPT ![c].pc = "closed"] /\ UNCHANGED slots
  /\ UNCHANGED inflight

\* process_request: a permit without waiting, or the connection is shut; the
\* permit goes back when the thread cannot be started.
Accept(c) ==
  /\ At(c, "new")
  /\ \/ /\ slots > 0
        /\ slots' = slots - 1
        /\ client' = [client EXCEPT ![c].pc = "headers"]
     \/ client' = [client EXCEPT ![c].pc = "closed"] /\ UNCHANGED slots
  /\ UNCHANGED inflight

Goto(c, pc) == client' = [client EXCEPT ![c].pc = pc] /\ UNCHANGED <<slots, inflight>>

\* _send_json: nothing once a status line is out; a shut socket swallows it.
Answered(c, kind) ==
  IF client[c].answer # "none" THEN client[c].answer
  ELSE IF client[c].expired THEN "lost" ELSE kind

Reply(c, kind, pc) ==
  /\ client' = [client EXCEPT ![c].answer = Answered(c, kind), ![c].pc = pc]
  /\ UNCHANGED <<slots, inflight>>

\* Wrong: the body is read without a deadline.
TimedNoBody(c) == client[c].pc \in {"headers", "pick", "connect", "request", "relay", "release"}

\* The timer thread of the deadline in force shuts the sockets.
Timed(c) ==
  \/ client[c].pc \in {"headers", "pick", "connect", "request", "relay", "release"}
  \/ At(c, "body") /\ HasBody(client[c].ask)

Expire(c) ==
  /\ Timed(c) /\ ~client[c].expired
  /\ client' = [client EXCEPT ![c].expired = TRUE]
  /\ UNCHANGED <<slots, inflight>>

\* The header phase ends without an answer, with one the parser sends, or in
\* _proxy, which first stops the header deadline.
ReadHeaders(c) ==
  /\ At(c, "headers")
  /\ \/ Goto(c, "end")
     \/ Reply(c, "error", "end")
     \/ /\ ~client[c].expired
        /\ \E ask \in Asks : client' = [client EXCEPT ![c].pc = "body", ![c].ask = ask]
        /\ UNCHANGED <<slots, inflight>>

\* What content_length and validate_body may refuse: a header, a length, the JSON.
Rejectable(ask) == ask = "bad" \/ HasBody(ask)

\* _request_body and the status page; its counts are read under the lock.
ReadBody(c) ==
  /\ At(c, "body")
  /\ \/ Rejectable(client[c].ask) /\ Reply(c, "error", "end")
     \/ client[c].ask = "status" /\ Reply(c, "complete", "end")
     \/ client[c].ask \notin {"bad", "status"} /\ ~client[c].expired /\ Goto(c, "pick")

\* pick_backend: embeddings to the iGPU, the rest to the less loaded, the dGPU on
\* a tie; the second round takes the other one.
Pick(c) ==
  IF client[c].tried # << >> THEN CHOOSE b \in Backends : b # client[c].tried[1]
  ELSE IF client[c].ask = "embed" \/ inflight["dgpu"] > inflight["igpu"] THEN "igpu"
  ELSE "dgpu"

\* One round of the loop: the pick and the raised count are one critical section;
\* a deadline that has passed ends the request before it.
Take(c) ==
  /\ At(c, "pick")
  /\ \/ client[c].expired /\ Reply(c, "error", "end")
     \/ /\ ~client[c].expired
        /\ inflight' = [inflight EXCEPT ![Pick(c)] = @ + 1]
        /\ client' = [client EXCEPT ![c].pc = "connect", ![c].held = Pick(c),
                                    ![c].tried = Append(@, Pick(c))]
        /\ UNCHANGED slots

\* Wrong: whatever failed, the other backend is tried.
FailedReplays(c, label) ==
  LET goesOn == Len(client[c].tried) = 1
  IN /\ client' = [client EXCEPT ![c].pc = "release", ![c].attempts = Append(@, label),
                                 ![c].answer = IF goesOn THEN @ ELSE Answered(c, "error")]
     /\ UNCHANGED <<slots, inflight>>

\* The attempt failed: after the first failed connection the loop goes on, any
\* other failure is answered and the request is over.
Failed(c, label) ==
  LET goesOn == label = "CONNECT_FAILED" /\ Len(client[c].tried) = 1
  IN /\ client' = [client EXCEPT ![c].pc = "release", ![c].attempts = Append(@, label),
                                 ![c].answer = IF goesOn THEN @ ELSE Answered(c, "error")]
     /\ UNCHANGED <<slots, inflight>>

Connect(c) ==
  /\ At(c, "connect")
  /\ \/ Failed(c, "CONNECT_FAILED")
     \/ /\ ~client[c].expired
        /\ client' = [client EXCEPT ![c].pc = "request", ![c].sent = Append(@, client[c].held)]
        /\ UNCHANGED <<slots, inflight>>

\* conn.request and getresponse; _relay refuses the status or the headers before
\* anything is sent, or sends the status line; a HEAD is complete with it.
Exchange(c) ==
  /\ At(c, "request")
  /\ \/ Failed(c, "OUTCOME_UNKNOWN")
     \/ client[c].ask = "head" /\ Reply(c, "complete", "release")
     \/ client[c].ask # "head" /\ Reply(c, "partial", "relay")

\* The rest of _relay: the last chunk is written only after the whole body.
Relay(c) ==
  /\ At(c, "relay")
  /\ \/ Failed(c, "OUTCOME_UNKNOWN")
     \/ /\ client' = [client EXCEPT ![c].pc = "release",
                                    ![c].answer = IF @ = "partial" THEN "complete" ELSE @]
        /\ UNCHANGED <<slots, inflight>>

\* The innermost finally of the attempt.
Release(c) ==
  /\ At(c, "release")
  /\ inflight' = [inflight EXCEPT ![client[c].held] = @ - 1]
  /\ client' = [client EXCEPT ![c].held = NoBackend,
                              ![c].pc = IF client[c].answer = "none" THEN "pick" ELSE "end"]
  /\ UNCHANGED slots

\* process_request_thread's finally; the handler object is gone.
Leave(c) ==
  /\ At(c, "end")
  /\ slots' = slots + 1
  /\ client' = [client EXCEPT ![c] = [NewClient EXCEPT !.pc = "closed"]]
  /\ UNCHANGED inflight

\* Steps that wait for a peer, and those that do not.
Waiting(c) == ReadHeaders(c) \/ (HasBody(client[c].ask) /\ ReadBody(c))
              \/ Connect(c) \/ Exchange(c) \/ Relay(c)
Running(c) == (~HasBody(client[c].ask) /\ ReadBody(c)) \/ Take(c) \/ Release(c) \/ Leave(c)

ForgeNext == \E c \in Clients : Accept(c) \/ Expire(c) \/ Waiting(c) \/ Running(c)

ForgeSpec == ForgeInit /\ [][ForgeNext]_forgeVars

\* A thread that need not wait runs, a timer fires, and a call on a shut socket
\* returns; a peer owes nothing.
ForgeFairness ==
  \A c \in Clients :
    /\ WF_forgeVars(Running(c))
    /\ WF_forgeVars(Expire(c))
    /\ WF_forgeVars(client[c].expired /\ Waiting(c))
-----------------------------------------------------------------------------
\* Every slot and every in-flight count is held by exactly the handlers that are
\* using it, whatever path each of them takes (process_request's except,
\* process_request_thread's and the attempt's finally): a count that drifts
\* starves the mesh or sends every request to one GPU.
CountsReturned ==
  /\ slots + Cardinality({c \in Clients : Live(c)}) = MaxClients
  /\ \A b \in Backends : inflight[b] = Cardinality({c \in Clients : client[c].held = b})

\* "No request is replayed after dispatch": the bytes of a request reach at most
\* one backend, an attempt reported CONNECT_FAILED reached none, and an answer
\* that ends as a whole one is the status page or comes from the backend that
\* got the request.
NoReplay ==
  \A c \in Clients :
    LET k == client[c]
    IN /\ Len(k.sent) <= 1
       /\ \A i \in DOMAIN k.attempts, j \in DOMAIN k.sent :
            k.attempts[i] = "CONNECT_FAILED" => k.tried[i] # k.sent[j]
       /\ k.answer \in {"partial", "complete"} /\ k.ask # "status" => k.sent = <<Last(k.tried)>>

\* However slow the client and both backends are, every accepted connection ends
\* and gives its slot back: each phase that can wait is under a deadline.
EveryCallerLeaves == \A c \in Clients : Live(c) ~> At(c, "closed")
=============================================================================
