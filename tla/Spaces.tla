------------------------------- MODULE Spaces -------------------------------
(***************************************************************************)
(* The publication of either Space: the control Space's publisher and the  *)
(* public Space's workflows over one Hub, where anyone may commit and the  *)
(* runtime may move between any two of their requests.                     *)
(***************************************************************************)
EXTENDS SpacePublisher, SpaceWatch

vars == <<hubVars, publisherVars, watchVars>>

Init == HubInit /\ PublisherInit /\ WatchInit

Next ==
  \/ HubStep /\ UNCHANGED <<publisherVars, watchVars>>
  \/ Publish /\ UNCHANGED watchVars
  \/ Watch /\ UNCHANGED publisherVars

Spec == Init /\ [][Next]_vars
=============================================================================
