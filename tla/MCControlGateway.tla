-------------------------- MODULE MCControlGateway --------------------------
(***************************************************************************)
(* Two requests in environments with a local model whose weights are       *)
(* pinned and one HTTPS provider, or with three HTTPS providers, and with  *)
(* and without a key, a token, egress, a registry and a valid registry.    *)
(***************************************************************************)
EXTENDS ControlGateway

CONSTANTS r1, r2

MCCallers == {r1, r2}
MCProviders == {"local", "east", "west", "north"}

Https(cost, rank, enabled) ==
  [type |-> "openai_https", endpoint |-> TRUE, digest |-> FALSE, weights |-> FALSE,
   enabled |-> enabled, models |-> {"m"}, classes |-> {"public"}, sovereignty |-> 0,
   priority |-> 100, cost |-> cost, rank |-> rank]

Loopback(digest) ==
  [type |-> "ollama_loopback", endpoint |-> FALSE, digest |-> digest, weights |-> TRUE,
   enabled |-> TRUE, models |-> {"m"}, classes |-> {"public", "internal"}, sovereignty |-> 90,
   priority |-> 10, cost |-> 0, rank |-> 2]

Env(registry, keys) ==
  [configured |-> TRUE, registry |-> registry, keys |-> keys, egress |-> TRUE,
   token |-> TRUE, hosts |-> TRUE, store |-> TRUE]

Both == [local |-> Loopback(TRUE), east |-> Https(1, 1, TRUE)]
Remote == [east |-> Https(1, 1, TRUE), west |-> Https(1, 2, TRUE), north |-> Https(2, 0, TRUE)]

MCEnvironments ==
  LET both == Env(Both, {"east"})
      off == Env([Remote EXCEPT !["north"].enabled = FALSE], {"north"})  \* and the only key
  IN  {both, [both EXCEPT !.store = FALSE],
       Env(Remote, {"east", "west", "north"}), Env(Remote, {"west", "north"}),
       off, [off EXCEPT !.token = FALSE], [off EXCEPT !.egress = FALSE],
       [off EXCEPT !.configured = FALSE]}

MCStores ==
  LET file(right) == [present |-> TRUE, right |-> right, version |-> 0]
      quiet == [present |-> TRUE, right |-> Chunks, version |-> MaxWrites]  \* written to no more
  IN  {[disk |-> <<quiet, quiet>>, pinned |-> "well formed"],
       [disk |-> <<quiet, quiet>>, pinned |-> "other weights"],
       [disk |-> <<quiet, file({1})>>, pinned |-> "well formed"]}

\* The second request insists on the local model, or carries no token.
MCDemands ==
  LET ask(only, bearer) ==
        [model |-> "m", only |-> only, class |-> "public", cost |-> 10, bearer |-> bearer]
  IN  {[r \in MCCallers |-> IF r = r1 THEN ask(AnyProvider, TRUE) ELSE ask("local", bearer)] :
         bearer \in BOOLEAN}
=============================================================================
