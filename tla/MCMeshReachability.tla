------------------------ MODULE MCMeshReachability ------------------------
(***************************************************************************)
(* Two requests and a status poll overlap over two workers.                *)
(***************************************************************************)
EXTENDS MeshReachability

CONSTANTS c1, c2, s1, omen, nim

MCClients == {c1, c2}
MCWatchers == {s1}
MCAll == <<omen, nim>>
=============================================================================
