--------------------------- MODULE MCServiceParts ---------------------------
(***************************************************************************)
(* Two parts that share nothing, so a behaviour is about one of them:      *)
(* three clients of the Forge mesh with two slots, or two calls of embed() *)
(* over one cache entry and two configurations.                            *)
(***************************************************************************)
EXTENDS ForgeMesh, EmbedCache

CONSTANTS c1, c2, c3, e1, e2

MCClients == {c1, c2, c3}
MCCalls == {e1, e2}

To(slot, address) == [slot |-> slot, to |-> address, tier |-> "sovereign"]
MCCloud == <<[slot |-> "cloud", to |-> "c", tier |-> "unqualified-grid"]>>

\* Between the two everything changes: addresses, namespace, switches, and what
\* the override names; a call may read some of it before the change.
MCConfigs ==
  {[scope |-> "s1", chain |-> <<To("home", "a"), To("lan", "")>>,
    direct |-> MCCloud, on |-> {"home", "lan", "cloud"}],
   [scope |-> "s2", chain |-> <<To("home", "b"), To("lan", "a")>>,
    direct |-> <<To("lan", "a")>>, on |-> {"lan"}]}

VARIABLE part  \* what the behaviour is about

vars == <<part, forgeVars, embedVars>>

Init == part \in {"forge", "embed"} /\ ForgeInit /\ EmbedInit

Next ==
  \/ part = "forge" /\ ForgeNext /\ UNCHANGED <<part, embedVars>>
  \/ part = "embed" /\ EmbedNext /\ UNCHANGED <<part, forgeVars>>

Spec == Init /\ [][Next]_vars
FairSpec == Spec /\ ForgeFairness
=============================================================================
