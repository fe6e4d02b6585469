---------------------------- MODULE MCRouteChain ----------------------------
(***************************************************************************)
(* Two sovereign providers and a grid provider, met in opposite orders by  *)
(* szl-large and szl-fast; the budgeted request may also name the grid      *)
(* provider itself (groq:model).                                           *)
(***************************************************************************)
EXTENDS RouteChain

CONSTANTS large, fast, box_gpu, omen_gpu, groq

MCRequests == {large, fast}
MCProviders == {box_gpu, omen_gpu, groq}
MCTier == [p \in MCProviders |-> IF p = groq THEN "unqualified-grid" ELSE "sovereign"]
MCChains == [r \in MCRequests |-> IF r = large THEN {<<box_gpu, omen_gpu, groq>>}
                                  ELSE {<<omen_gpu, box_gpu>>, <<groq>>}]
MCConfigurations == {MCProviders, {omen_gpu}}
MCBudgeted == {fast}
MCCloseReasons == {"tests_failed"}
MCDelays == {0, 1}
=============================================================================
