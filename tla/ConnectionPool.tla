--------------------------- MODULE ConnectionPool ---------------------------
(***************************************************************************)
(* _ConnectionPool of szl_router/core.py: threads that POST to a provider  *)
(* over connections they check out of idle buckets and release again.      *)
(*                                                                         *)
(* A bucket access is one step (the pool's lock); everything else in       *)
(* request_json runs outside the lock.  A connection object without a      *)
(* socket opens one when it next sends (http.client), so an object may be  *)
(* closed and used again.  An object nobody refers to is garbage and its   *)
(* identity may be given to a new one.                                     *)
(*                                                                         *)
(* An operator marked "Wrong:" is a plausible mistake in the definition    *)
(* after it, which no other definition uses.                               *)
(***************************************************************************)
EXTENDS Naturals, FiniteSets, Sequences

CONSTANTS
  Threads,     \* callers of request_json
  Budgeted,    \* those with a RequestBudget active
  Hosts,       \* (scheme, host, port)
  Conns,       \* connection objects, enough that a new one can always be made
  NoConn,      \* none
  MaxPerHost,  \* _POOL_MAX_PER_HOST
  MaxHosts     \* _POOL_MAX_HOSTS

ASSUME PoolAssumption ==
  /\ Threads # {} /\ Hosts # {}
  /\ Budgeted \subseteq Threads
  /\ NoConn \notin Conns
  /\ MaxPerHost \in Nat \ {0} /\ MaxHosts \in Nat

VARIABLES
  tracked,  \* keys of _idle
  idle,     \* its buckets, << >> for hosts that are not tracked
  open,     \* connections with a socket
  limit,    \* whose timeout is set on the connection
  dropped,  \* connections closed after an exchange on them failed (history)
  pc, host, conn  \* where each thread is, its host and its connection

vars == <<tracked, idle, open, limit, dropped, pc, host, conn>>

Stations ==
  {"rest", "send", "resend",
   "recv",    \* the head of a response has come
   "parse"}   \* the body is read, the connection released or closed

Init ==
  /\ tracked = {} /\ open = {} /\ dropped = {}
  /\ idle = [h \in Hosts |-> << >>]
  /\ limit = [c \in Conns |-> CHOOSE t \in Threads : TRUE]
  /\ pc = [t \in Threads |-> "rest"]
  /\ host = [t \in Threads |-> CHOOSE h \in Hosts : TRUE]
  /\ conn = [t \in Threads |-> NoConn]

Elements(s) == {s[i] : i \in DOMAIN s}
Pooled == UNION {Elements(idle[h]) : h \in Hosts}
Spare == Conns \ (Pooled \cup {conn[t] : t \in Threads})

Go(t, from, to) == pc[t] = from /\ pc' = [pc EXCEPT ![t] = to]

\* t's connection is c from now on, under t's timeout.
Take(t, c) ==
  /\ conn' = [conn EXCEPT ![t] = c]
  /\ limit' = [limit EXCEPT ![c] = t]

\* The exchange failed: close the connection and leave with an error.
Abandon(t, from) ==
  /\ Go(t, from, "rest")
  /\ open' = open \ {conn[t]}
  /\ dropped' = dropped \cup {conn[t]}
  /\ conn' = [conn EXCEPT ![t] = NoConn]
  /\ UNCHANGED <<tracked, idle, limit, host>>

-----------------------------------------------------------------------------
\* Wrong: leaves the connection in the bucket.
CheckoutIdlePeek(t, h) ==
  /\ Go(t, "rest", "send") /\ idle[h] # << >>
  /\ host' = [host EXCEPT ![t] = h]
  /\ Take(t, idle[h][Len(idle[h])])
  /\ UNCHANGED <<tracked, idle, open, dropped>>

\* Wrong: a kept-alive socket keeps the timeout of the request before.
CheckoutIdleOldTimeout(t, h) ==
  /\ Go(t, "rest", "send") /\ idle[h] # << >>
  /\ host' = [host EXCEPT ![t] = h]
  /\ conn' = [conn EXCEPT ![t] = idle[h][Len(idle[h])]]
  /\ idle' = [idle EXCEPT ![h] = SubSeq(@, 1, Len(@) - 1)]
  /\ UNCHANGED <<tracked, open, limit, dropped>>

CheckoutIdle(t, h) ==
  /\ Go(t, "rest", "send") /\ idle[h] # << >>
  /\ host' = [host EXCEPT ![t] = h]
  /\ Take(t, idle[h][Len(idle[h])])
  /\ idle' = [idle EXCEPT ![h] = SubSeq(@, 1, Len(@) - 1)]
  /\ UNCHANGED <<tracked, open, dropped>>

CheckoutNew(t, h) ==
  /\ Go(t, "rest", "send") /\ idle[h] = << >>
  /\ host' = [host EXCEPT ![t] = h]
  /\ \E c \in Spare : Take(t, c) /\ dropped' = dropped \ {c}
  /\ UNCHANGED <<tracked, idle, open>>

Sent(t) ==
  /\ Go(t, "send", "recv") \/ Go(t, "resend", "recv")
  /\ open' = open \cup {conn[t]}
  /\ UNCHANGED <<tracked, idle, limit, dropped, host, conn>>

\* Wrong: resends for as long as the send fails.
SendAgain(t) ==
  /\ pc[t] = "send" /\ t \notin Budgeted
  /\ open' = open \ {conn[t]}
  /\ \E c \in Spare : Take(t, c) /\ dropped' = (dropped \cup {conn[t]}) \ {c}
  /\ UNCHANGED <<tracked, idle, pc, host>>

\* The first send fails: close, and without a budget send once more on a fresh
\* connection.
SendFails(t) ==
  \/ t \in Budgeted /\ Abandon(t, "send")
  \/ /\ t \notin Budgeted
     /\ Go(t, "send", "resend")
     /\ open' = open \ {conn[t]}
     /\ \E c \in Spare : Take(t, c) /\ dropped' = (dropped \cup {conn[t]}) \ {c}
     /\ UNCHANGED <<tracked, idle, host>>

\* The resend or the read fails, or the status is 400 or above.
ExchangeFails(t) == Abandon(t, "resend") \/ Abandon(t, "recv")

\* The server does not keep the connection alive.
Close(t) ==
  /\ Go(t, "recv", "parse")
  /\ open' = open \ {conn[t]}
  /\ UNCHANGED <<tracked, idle, limit, dropped, host, conn>>

\* Wrong: one host and one connection more than the bounds.
FullOneMore(h) ==
  IF h \in tracked THEN Len(idle[h]) > MaxPerHost ELSE Cardinality(tracked) > MaxHosts

\* Nothing more is kept for the host.
Full(h) ==
  IF h \in tracked THEN Len(idle[h]) >= MaxPerHost ELSE Cardinality(tracked) >= MaxHosts

\* Wrong: a connection that is not kept is left open.
ReleaseLeaky(t) ==
  /\ Go(t, "recv", "parse")
  /\ IF Full(host[t])
     THEN UNCHANGED <<tracked, idle, open>>
     ELSE /\ tracked' = tracked \cup {host[t]}
          /\ idle' = [idle EXCEPT ![host[t]] = Append(@, conn[t])]
          /\ UNCHANGED open
  /\ UNCHANGED <<limit, dropped, host, conn>>

\* _release: keep the connection, or close it when the pool is full.
Release(t) ==
  /\ Go(t, "recv", "parse")
  /\ IF Full(host[t])
     THEN open' = open \ {conn[t]} /\ UNCHANGED <<tracked, idle>>
     ELSE /\ tracked' = tracked \cup {host[t]}
          /\ idle' = [idle EXCEPT ![host[t]] = Append(@, conn[t])]
          /\ UNCHANGED open
  /\ UNCHANGED <<limit, dropped, host, conn>>

Return(t) ==
  /\ Go(t, "parse", "rest")
  /\ conn' = [conn EXCEPT ![t] = NoConn]
  /\ UNCHANGED <<tracked, idle, open, limit, dropped, host>>

\* The body is no JSON: the connection is closed, wherever it is by now.
Garbled(t) == Abandon(t, "parse")

Progress(t) ==
  \/ Sent(t) \/ SendFails(t) \/ ExchangeFails(t) \/ Close(t) \/ Release(t)
  \/ Return(t) \/ Garbled(t)

Next ==
  \E t \in Threads :
    \/ \E h \in Hosts : CheckoutIdle(t, h) \/ CheckoutNew(t, h)
    \/ Progress(t)

Spec == Init /\ [][Next]_vars

\* Threads run and every send and read ends; nobody need make a request.
FairSpec == Spec /\ \A t \in Threads : WF_vars(Progress(t))

-----------------------------------------------------------------------------
\* Buckets, sockets, timeouts and threads are well typed.
TypeOK ==
  /\ tracked \subseteq Hosts
  /\ idle \in [Hosts -> Seq(Conns)]
  /\ open \subseteq Conns /\ dropped \subseteq Conns
  /\ limit \in [Conns -> Threads]
  /\ pc \in [Threads -> Stations]
  /\ host \in [Threads -> Hosts]
  /\ conn \in [Threads -> Conns \cup {NoConn}]
  /\ \A t \in Threads : pc[t] = "rest" <=> conn[t] = NoConn

Using(t) == pc[t] \in {"send", "resend", "recv"}

\* Between checkout and release a connection belongs to one thread: it is in no
\* bucket, in no other thread's exchange, and no bucket holds it twice.
OneOwner ==
  /\ \A g, h \in Hosts : \A i \in DOMAIN idle[g], j \in DOMAIN idle[h] :
       idle[g][i] = idle[h][j] => g = h /\ i = j
  /\ \A t \in Threads : Using(t) =>
       /\ conn[t] \notin Pooled
       /\ \A u \in Threads \ {t} : Using(u) => conn[u] # conn[t]

\* No socket is lost: every open one is in a bucket or in an exchange.
NoSocketLeak == open \subseteq Pooled \cup {conn[t] : t \in {u \in Threads : Using(u)}}

\* The pool keeps to its bounds.
PoolBounded ==
  /\ Cardinality(tracked) <= MaxHosts
  /\ \A h \in Hosts : Len(idle[h]) <= IF h \in tracked THEN MaxPerHost ELSE 0

\* Every exchange runs under the timeout of its own request, on a kept-alive
\* socket too: a budget's deadline rests on this.
OwnTimeout == \A t \in Threads : Using(t) => limit[conn[t]] = t

\* Every request comes back, with a body or an error.
RequestReturns == \A t \in Threads : pc[t] # "rest" ~> pc[t] = "rest"

\* "A connection that errors ... is dropped, not reused".
DroppedNotReused == \A t \in Threads : Using(t) => conn[t] \notin dropped
=============================================================================
