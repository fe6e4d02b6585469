------------------------- MODULE MCMeshCoordinator -------------------------
(***************************************************************************)
(* The registry of build_workers_from_env: two sovereign workers and a     *)
(* tailnet one, and the cloud failover.                                    *)
(***************************************************************************)
EXTENDS MeshCoordinator

CONSTANTS c1, c2, s1, laptop, omen, chaski, nim

MCClients == {c1, c2}
MCWatchers == {s1}
MCRegistry == <<laptop, omen, chaski>>
MCSovereign == {laptop, omen}
=============================================================================
