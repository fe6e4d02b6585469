----------------------------- MODULE EmbedCache -----------------------------
(***************************************************************************)
(* szl_router/core.py: embed() and its exact-hash cache.  Threads share    *)
(* the cache, whose get and put read the clock before they take the lock,  *)
(* while the configuration (end points, keys, switches, namespace, token)  *)
(* changes between any two of their steps.                                 *)
(***************************************************************************)
EXTENDS Naturals, Sequences, FiniteSets

CONSTANTS
  Calls,     \* calls of embed() over a behaviour
  Inputs,    \* what is embedded: model, input and extra arguments
  Configs,   \* configurations, see below
  CacheTTL, CacheMax,  \* _EMBED_CACHE_TTL, _EMBED_CACHE_MAX
  MaxClock             \* bound on the clock

ASSUME EmbedAssumption == CacheTTL \in Nat \ {0} /\ CacheMax \in Nat \ {0}

\* A configuration is [scope, chain, direct, on]: namespace and bearer token; the
\* routes of a logical model and that of a provider:model override, each [slot, to,
\* tier] with its end point and credential; the slots whose switch is on.
VARIABLES
  config,  \* the environment, read anew at each use
  clock,   \* time.time()
  cache,   \* _EMBED_CACHE: from keys to vectors
  call     \* the state of each call

embedVars == <<config, clock, cache, call>>

\* look: the clock as get or put read it.  vector: the answer in hand, [for, at,
\* ts]: the request and the route it was computed for, when it was received, the
\* time stamp of its entry.
NewCall ==
  [pc |-> "new", model |-> "chain", input |-> "none", cached |-> FALSE, scope |-> "none",
   routes |-> << >>, turn |-> 1, look |-> 0, vector |-> << >>, hit |-> FALSE]

EmbedInit ==
  /\ config \in Configs /\ clock = 0
  /\ cache = << >>
  /\ call = [c \in Calls |-> NewCall]

Stage(c, pc) == call[c].pc = pc
Set(c, next) == call' = [call EXCEPT ![c] = next] /\ UNCHANGED <<config, clock>>

\* The request is detached, then the namespace and the bearer token are read.
Start(c) ==
  /\ Stage(c, "new")
  /\ \E model \in {"chain", "direct"}, input \in Inputs, cached \in BOOLEAN :
       Set(c, [call[c] EXCEPT !.pc = "capture", !.model = model, !.input = input,
                              !.cached = cached, !.scope = config.scope])
  /\ UNCHANGED cache

\* _ResolvedEmbeddingProvider.capture, slot by slot.
Capture(c) ==
  /\ Stage(c, "capture") /\ UNCHANGED cache
  /\ LET routes == config[call[c].model]
         next == Len(call[c].routes) + 1 IN
     \/ /\ next <= Len(routes)
        /\ Set(c, [call[c] EXCEPT !.routes = Append(@, routes[next])])
     \/ next > Len(routes) /\ Set(c, [call[c] EXCEPT !.pc = "route"])

Here(c) == call[c].routes[call[c].turn]
More(c) == call[c].turn <= Len(call[c].routes)
Key(c) == [model |-> call[c].model, input |-> call[c].input, scope |-> call[c].scope,
           route |-> Here(c)]

\* The switch is read when its turn comes, the rest was captured.
Eligible(c) ==
  /\ Here(c).to # "" /\ Here(c).tier = "sovereign"
  /\ Here(c).slot \in config.on

Pass(c) == Set(c, [call[c] EXCEPT !.pc = "route", !.turn = @ + 1])
Fail(c) == Set(c, [NewCall EXCEPT !.pc = "failed"])  \* RouterError

\* The next route, if there is one and the caller's budget is not concluded.
Route(c) ==
  /\ Stage(c, "route") /\ UNCHANGED cache
  /\ \/ Fail(c)
     \/ More(c) /\ ~Eligible(c) /\ Pass(c)
     \/ /\ More(c) /\ Eligible(c)
        /\ Set(c, IF call[c].cached THEN [call[c] EXCEPT !.pc = "get", !.look = clock]
                                    ELSE [call[c] EXCEPT !.pc = "post"])

\* A detached copy of the entry, marked as served by the cache.
Hit(c) == Set(c, [call[c] EXCEPT !.pc = "served", !.hit = TRUE, !.vector = cache[Key(c)]])
Miss(c) == Set(c, [call[c] EXCEPT !.pc = "post", !.look = 0])

\* _embed_cache_get under the lock.
Get(c) ==
  /\ Stage(c, "get")
  /\ \/ /\ Key(c) \notin DOMAIN cache
        /\ Miss(c) /\ UNCHANGED cache
     \/ /\ Key(c) \in DOMAIN cache
        /\ IF call[c].look >= cache[Key(c)].ts + CacheTTL
           THEN Miss(c) /\ cache' = [k \in DOMAIN cache \ {Key(c)} |-> cache[k]]
           ELSE Hit(c) /\ UNCHANGED cache

\* The vector of key's route, as it is received.
Received(c, key) ==
  [call[c] EXCEPT !.pc = IF call[c].cached THEN "clock" ELSE "served",
                  !.vector = [for |-> key, at |-> clock, ts |-> clock]]

\* Wrong: the transport resolves the provider anew.
PostLive(c) ==
  /\ Stage(c, "post") /\ UNCHANGED cache
  /\ \E k \in DOMAIN config[call[c].model] :
       /\ config[call[c].model][k].slot = Here(c).slot
       /\ Set(c, Received(c, [Key(c) EXCEPT !.route = config[call[c].model][k]]))

\* The transport: a usable answer; a failure or an unusable answer, which pass to
\* the next route; or the end of the budget.
Post(c) ==
  /\ Stage(c, "post") /\ UNCHANGED cache
  /\ \/ Set(c, Received(c, Key(c)))
     \/ Pass(c)
     \/ Fail(c)

\* _embed_cache_put reads the clock, then stores under the lock, in the place of
\* the oldest entry when the cache is full.
PutClock(c) ==
  /\ Stage(c, "clock") /\ UNCHANGED cache
  /\ Set(c, [call[c] EXCEPT !.pc = "put", !.look = clock])

Oldest == CHOOSE k \in DOMAIN cache : \A j \in DOMAIN cache : cache[k].ts <= cache[j].ts

Kept(key) ==
  IF Cardinality(DOMAIN cache) >= CacheMax /\ key \notin DOMAIN cache
  THEN DOMAIN cache \ {Oldest} ELSE DOMAIN cache

Put(c) ==
  /\ Stage(c, "put")
  /\ cache' = [k \in Kept(Key(c)) \cup {Key(c)} |->
                IF k = Key(c) THEN [call[c].vector EXCEPT !.ts = call[c].look] ELSE cache[k]]
  /\ Set(c, [call[c] EXCEPT !.pc = "served"])

Tick == clock < MaxClock /\ clock' = clock + 1 /\ UNCHANGED <<config, cache, call>>
Reconfigure == config' \in Configs /\ UNCHANGED <<clock, cache, call>>
Clear == cache' = << >> /\ UNCHANGED <<config, clock, call>>

EmbedNext ==
  \/ Tick \/ Reconfigure \/ Clear
  \/ \E c \in Calls :
       Start(c) \/ Capture(c) \/ Route(c) \/ Get(c) \/ Post(c) \/ PutClock(c) \/ Put(c)

EmbedSpec == EmbedInit /\ [][EmbedNext]_embedVars

-----------------------------------------------------------------------------
\* Whoever computed the vector a caller gets, now or for an earlier caller, is the
\* end point and credential this caller had captured for that slot, for the same
\* input in the same namespace; a replayed vector was less than the time to live
\* in the cache when it was looked up and was received before its time stamp; and
\* the cache never outgrows its bound.
VectorsOwn ==
  /\ \A c \in Calls : Stage(c, "served") =>
       LET v == call[c].vector
       IN /\ v.for = Key(c)
          /\ call[c].hit => call[c].look < v.ts + CacheTTL /\ v.at <= v.ts
  /\ Cardinality(DOMAIN cache) <= CacheMax
=============================================================================
