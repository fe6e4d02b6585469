--------------------------- MODULE MCMeshFailover ---------------------------
(***************************************************************************)
(* MCMeshCoordinator with a history variable.                              *)
(***************************************************************************)
EXTENDS MCMeshCoordinator

\* Workers that were up, and no candidates, when the thread chose, and are up
\* still.
VARIABLE spared

Up == {w \in Nodes : reach[w]}
Chooses(t) == pc[t] = "refresh" /\ pc'[t] = "sort"

InitSpared == Init /\ spared = [t \in Threads |-> {}]

NextSpared ==
  /\ Next
  /\ spared' = [t \in Threads |->
       IF Chooses(t) THEN Up \ Candidates(Up) ELSE {w \in spared[t] : reach'[w]}]

SpecSpared == InitSpared /\ [][NextSpared]_<<vars, spared>>

\* proxy() raises "all reachable workers failed" (or "no reachable worker") only
\* when every worker that was up all along has been tried.
AllReachableTried ==
  \A t \in Clients : pc[t] = "next" /\ order[t] = << >> => spared[t] = {}
=============================================================================
