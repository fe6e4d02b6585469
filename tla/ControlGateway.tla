--------------------------- MODULE ControlGateway ---------------------------
(***************************************************************************)
(* router_control/app.py: POST /v1/chat/completions over the providers of  *)
(* the environment's registry, for requests that interleave at every await *)
(* of the event loop and share the model store's scan.                     *)
(*                                                                         *)
(* The environment of a process never changes.  Providers and the Ollama   *)
(* daemon answer anything at any time; a request's clock counts the time   *)
(* it has spent, and its timeout fires in the last unit of it at any await.*)
(***************************************************************************)
EXTENDS LocalStore

CONSTANTS
  Providers,    \* ids of configured providers
  Environments, \* provider records, whose token_env is set, switches and secrets
  Demands,      \* what the requests may ask for: [model, only, class, cost, bearer]
  AnyProvider,  \* required_provider_id is None
  MaxTimeout, MaxRoute  \* MAX_TIMEOUT_SECONDS, MAX_ROUTE_SECONDS

ASSUME GatewayAssumption ==
  /\ MaxTimeout \in Nat \ {0} /\ MaxRoute \in Nat \ {0}
  /\ AnyProvider \notin Providers /\ NoCaller \notin Callers
  /\ \A e \in Environments : DOMAIN e.registry \subseteq Providers

VARIABLES
  env,   \* the process environment
  want,  \* each request's model, policy, and whether it carries the token
  chat   \* the state of each request's handler, see NewChat

inputs == <<env, want>>
vars == <<storeVars, inputs, chat>>

-----------------------------------------------------------------------------
\* The registry as load_settings reports it: a registry that fails validation
\* switches egress off.
Valid(p, rec) ==
  IF rec.type = "ollama_loopback"
  THEN ~rec.endpoint /\ rec.digest /\ (rec.weights => env.store)
  ELSE rec.endpoint /\ ~rec.digest /\ ~rec.weights /\ env.hosts

State ==
  IF ~env.configured THEN "UNAVAILABLE_NOT_CONFIGURED"
  ELSE IF \A p \in DOMAIN env.registry : Valid(p, env.registry[p]) THEN "VALIDATED"
  ELSE "INVALID_FAIL_CLOSED"

Egress == env.egress /\ State # "INVALID_FAIL_CLOSED"

Registry == IF State = "VALIDATED" THEN DOMAIN env.registry ELSE {}
Record(p) == env.registry[p]
Local(p) == Record(p).type = "ollama_loopback"
Pinned(p) == Local(p) /\ Record(p).weights

Credential(p) ==
  IF Local(p) THEN "NOT_REQUIRED_LOOPBACK"
  ELSE IF p \in env.keys THEN "AVAILABLE" ELSE "UNAVAILABLE"

\* "ready_for_requests" of inference_readiness.
Ready ==
  /\ State = "VALIDATED" /\ Egress /\ env.token
  /\ \E p \in Registry : Record(p).enabled /\ Credential(p) # "UNAVAILABLE"

\* Wrong: a disabled provider is a candidate.
EligibleDisabled(w) ==
  {p \in Registry :
     /\ w.only \in {AnyProvider, p}
     /\ w.model \in Record(p).models /\ w.class \in Record(p).classes
     /\ Record(p).cost <= w.cost}

\* route_candidates: who may serve the request, and in which order.
Eligible(w) ==
  {p \in Registry :
     /\ w.only \in {AnyProvider, p}
     /\ Record(p).enabled
     /\ w.model \in Record(p).models /\ w.class \in Record(p).classes
     /\ Record(p).cost <= w.cost}

SortKey(p) == <<100 - Record(p).sovereignty, Record(p).priority, Record(p).cost, Record(p).rank>>

Before(p, q) ==
  \E i \in 1..4 : /\ SortKey(p)[i] < SortKey(q)[i]
                  /\ \A j \in 1..(i - 1) : SortKey(p)[j] = SortKey(q)[j]

First(p, ps) == p \in ps /\ \A q \in ps \ {p} : Before(p, q)

-----------------------------------------------------------------------------
\* left: candidates it has not come to; now: the one it is at; tags: what
\* /api/tags reported to its attempt; clock: time spent; due: when the attempt's
\* timeout fires; posted, cut (history): providers that were sent the POST, and
\* those whose answer a timeout cut off.
NewChat ==
  [pc |-> "new", left |-> {}, now |-> AnyProvider, tags |-> "none", clock |-> 0, due |-> 0,
   rows |-> << >>, answer |-> "none", posted |-> {}, cut |-> {}]

Init ==
  /\ StoreInit
  /\ env \in Environments
  /\ want \in Demands
  /\ chat = [r \in Callers |-> NewChat]

\* r's handler is in state c now.
Becomes(r, c) == chat' = [chat EXCEPT ![r] = c] /\ UNCHANGED inputs

To(c, pc) == [c EXCEPT !.pc = pc]

AddRow(c, state) == [c EXCEPT !.rows = Append(@, <<c.now, state>>)]

\* The handler responds, and its locals are gone.
Answered(c, code) ==
  [c EXCEPT !.pc = "answered", !.answer = code, !.left = {}, !.tags = "none",
            !.clock = 0, !.due = 0]

\* The checks before the plan, in their order.
Admission(r) ==
  CASE State = "INVALID_FAIL_CLOSED" -> "503 INVALID_ROUTER_CONFIGURATION"
    [] State # "INVALID_FAIL_CLOSED" /\ ~Egress -> "503 EGRESS_DISABLED"
    [] State # "INVALID_FAIL_CLOSED" /\ Egress /\ ~env.token -> "503 CALLER_AUTH_NOT_CONFIGURED"
    [] Egress /\ env.token /\ ~want[r].bearer -> "401 INVALID_ROUTER_CREDENTIAL"
    [] Egress /\ env.token /\ want[r].bearer /\ Eligible(want[r]) = {} -> "503 NO_ELIGIBLE_PROVIDER"
    [] OTHER -> "admitted"

Admit(r) ==
  /\ chat[r].pc = "new"
  /\ Becomes(r, IF Admission(r) = "admitted"
                THEN [chat[r] EXCEPT !.pc = "route", !.left = Eligible(want[r])]
                ELSE Answered(chat[r], Admission(r)))
  /\ UNCHANGED storeVars

\* The head of the loop: the next candidate, if there is one and time for it.
NextCandidate(r) ==
  /\ chat[r].pc = "route"
  /\ \E p \in chat[r].left : First(p, chat[r].left) /\
       LET c == [chat[r] EXCEPT !.left = @ \ {p}, !.now = p]
       IN  Becomes(r,
             CASE c.clock >= MaxRoute -> To(AddRow(c, "ROUTE_DEADLINE_EXCEEDED"), "failed")
               [] c.clock < MaxRoute /\ Credential(p) = "UNAVAILABLE" ->
                    AddRow(c, "SKIPPED_CREDENTIAL_UNAVAILABLE")
               [] OTHER ->
                    [c EXCEPT !.pc = IF Local(p) THEN "tags" ELSE "post",
                              !.due = IF MaxRoute - c.clock < MaxTimeout THEN MaxRoute
                                      ELSE c.clock + MaxTimeout])
  /\ UNCHANGED storeVars

Unknown(c) == \E i \in DOMAIN c.rows : c.rows[i][2] = "UNKNOWN"

\* After the loop: no candidate is left, or it was left by a break.
Fail(r) ==
  /\ chat[r].pc = "failed" \/ (chat[r].pc = "route" /\ chat[r].left = {})
  /\ Becomes(r, Answered(chat[r], IF Unknown(chat[r]) THEN "504 ATTEMPT_OUTCOME_UNKNOWN"
                                  ELSE "502 ALL_ELIGIBLE_PROVIDERS_FAILED"))
  /\ UNCHANGED storeVars

\* ModelIdentityError, whatever the state it names: no other candidate is tried.
Refused(c) == Answered(AddRow(c, "REFUSED"), "503 LOCAL_MODEL_IDENTITY_UNAVAILABLE")

\* assert_ollama_identity reads both inventories before it judges either.
ReadTags(r) ==
  /\ chat[r].pc \in {"tags", "tags after"}
  /\ \/ Becomes(r, Refused(chat[r]))  \* the daemon does not answer as it should
     \/ \E report \in {"match", "other"} :
          Becomes(r, [chat[r] EXCEPT !.tags = report,
                                     !.pc = IF @ = "tags" THEN "ps" ELSE "ps after"])
  /\ UNCHANGED storeVars

\* Before the completion the model need not be resident.
ReadPs(r) ==
  /\ chat[r].pc \in {"ps", "ps after"}
  /\ \/ Becomes(r, Refused(chat[r])) /\ UNCHANGED storeVars
     \/ \E resident \in {"match"} \cup (IF chat[r].pc = "ps" THEN {"absent"} ELSE {}) :
          /\ chat[r].tags = "match"
          /\ Becomes(r, [chat[r] EXCEPT !.tags = "none",
                                        !.pc = CASE @ = "ps after" -> "seal"
                                                 [] @ = "ps" /\ Pinned(chat[r].now) -> "scan"
                                                 [] OTHER -> "post"])
          /\ IF chat[r].pc = "ps" /\ Pinned(chat[r].now) THEN Submit(r) ELSE UNCHANGED storeVars

\* observe_store_bytes returns or raises what the thread left.
TakeVerdict(r) ==
  /\ chat[r].pc = "scan" /\ Deliver(r)
  /\ Becomes(r, IF scan[r].verdict = "LOCAL_STORE_BYTES_PRE_REQUEST_MATCH"
                THEN To(chat[r], "post") ELSE Refused(chat[r]))

\* Its own wait for the thread may end first.
ScanWaitEnds(r) == chat[r].pc = "scan" /\ GiveUp(r) /\ Becomes(r, Refused(chat[r]))

Dispatch(r) ==
  /\ chat[r].pc = "post"
  /\ Becomes(r, [chat[r] EXCEPT !.pc = "reply", !.posted = @ \cup {chat[r].now}])
  /\ UNCHANGED storeVars

\* A connection, transport or contract error, 429 or 5xx; another 4xx ends the loop.
AttemptFails(r) ==
  /\ \/ /\ chat[r].pc \in {"post", "reply", "seal"}
        /\ Becomes(r, To(AddRow(chat[r], "FAILED"), "route"))
     \/ chat[r].pc = "reply" /\ Becomes(r, To(AddRow(chat[r], "FAILED"), "failed"))
  /\ UNCHANGED storeVars

\* The provider may have the POST: its outcome is unknown.
CutOff(c) ==
  [c EXCEPT !.cut = IF c.pc \in {"reply", "tags after", "ps after"} THEN {c.now} ELSE @]

\* Wrong: a transport timeout is one more transport error.
TransportTimeoutGoesOn(r) ==
  /\ chat[r].pc \in {"post", "reply"}
  /\ Becomes(r, To(AddRow(CutOff(chat[r]), "FAILED"), "route"))
  /\ UNCHANGED storeVars

\* httpx's own connect, write, read or pool timeout.
TransportTimeout(r) ==
  /\ chat[r].pc \in {"post", "reply"}
  /\ Becomes(r, To(AddRow(CutOff(chat[r]), "UNKNOWN"), "failed"))
  /\ UNCHANGED storeVars

\* Wrong: the inventories are read outside wait_for.
AwaitingUntimed(r) == chat[r].pc \in {"scan", "post", "reply"}

Awaiting(r) == chat[r].pc \in {"tags", "ps", "scan", "post", "reply", "tags after", "ps after"}

\* asyncio.wait_for ends the attempt; a scan under way is told to stop.
AttemptTimeout(r) ==
  /\ Awaiting(r) /\ chat[r].clock = chat[r].due
  /\ LET c == AddRow(CutOff(chat[r]), "UNKNOWN")
     IN  Becomes(r, IF Pinned(c.now) THEN Answered(c, "503 LOCAL_ROUTE_UNAVAILABLE")
                    ELSE To(c, "failed"))
  /\ IF chat[r].pc = "scan" THEN GiveUp(r) ELSE UNCHANGED storeVars

\* The provider's 200 passes validate_completion; a local one must also name the
\* model it was asked for.
Reply(r) ==
  /\ chat[r].pc = "reply"
  /\ \/ Becomes(r, To(chat[r], IF Local(chat[r].now) THEN "tags after" ELSE "seal"))
     \/ Local(chat[r].now) /\ Becomes(r, Refused(chat[r]))
  /\ UNCHANGED storeVars

\* The receipt is made and passes the verifier's bounds: no await is left.
Seal(r) ==
  /\ chat[r].pc = "seal"
  /\ Becomes(r, Answered(AddRow(chat[r], "SUCCESS"), "200"))
  /\ UNCHANGED storeVars

\* Time passes for a request that waits, up to its timeout.
Tick(r) ==
  /\ Awaiting(r) /\ chat[r].clock < chat[r].due
  /\ Becomes(r, [chat[r] EXCEPT !.clock = @ + 1])
  /\ UNCHANGED storeVars

\* What the event loop does on its own, and what takes a provider.
Own(r) ==
  \/ Admit(r) \/ NextCandidate(r) \/ Fail(r) \/ TakeVerdict(r) \/ Seal(r)
  \/ AttemptTimeout(r) \/ Tick(r)

Chat(r) ==
  \/ Own(r) \/ ReadTags(r) \/ ReadPs(r) \/ ScanWaitEnds(r) \/ Dispatch(r)
  \/ AttemptFails(r) \/ TransportTimeout(r) \/ Reply(r)

Scan(c) == ScanStep(c) /\ UNCHANGED <<inputs, chat>>

Next ==
  \/ \E r \in Callers : Chat(r) \/ Scan(r)
  \/ Write /\ UNCHANGED <<inputs, chat>>

Spec == Init /\ [][Next]_vars

\* The event loop and the executor's threads run.  Providers need not answer:
\* the timeout ends the wait.
FairSpec == Spec /\ \A r \in Callers : WF_vars(Own(r)) /\ WF_vars(Scan(r))

-----------------------------------------------------------------------------
\* A POST whose answer was cut off by a timeout is the last one of its request,
\* and the response says that a retry is not safe (the comment on asyncio's
\* cancellation in chat): no other provider repeats the work.
UnknownStops ==
  \A r \in Callers : LET c == chat[r] IN
    /\ \A i \in DOMAIN c.rows : c.rows[i][2] = "UNKNOWN" => i = Len(c.rows)
    /\ c.cut # {} =>
         /\ c.now \in c.cut
         /\ IF c.pc = "answered" THEN c.answer \in {"504 ATTEMPT_OUTCOME_UNKNOWN",
                                                   "503 LOCAL_ROUTE_UNAVAILABLE"}
            ELSE c.pc = "failed" /\ Unknown(c)

\* /readyz tells the truth about admission: when it reports ready, no request
\* is refused for the configuration; when not, no provider is ever sent one.
ReadinessHonest ==
  \A r \in Callers :
    /\ Ready => chat[r].answer \notin {"503 INVALID_ROUTER_CONFIGURATION", "503 EGRESS_DISABLED",
                                      "503 CALLER_AUTH_NOT_CONFIGURED"}
    /\ ~Ready => chat[r].posted = {}

\* A weight-pinned local model gets a prompt only after all its files have been
\* intact during this request's own scan, whatever wrote to them meanwhile and
\* whichever other request held the scan.
PostedOnMatch ==
  \A r \in Callers :
    chat[r].pc = "reply" /\ Pinned(chat[r].now) => scan[r].intact = DOMAIN Files

\* Every request is answered, though no provider ever is.
EveryChatAnswered == \A r \in Callers : chat[r].pc # "answered" ~> chat[r].pc = "answered"
=============================================================================
