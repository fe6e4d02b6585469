-------------------------- MODULE MCConnectionPool --------------------------
(***************************************************************************)
(* Two threads, one of them with a budget, and two hosts of which the pool *)
(* tracks one, with one idle connection.                                   *)
(***************************************************************************)
EXTENDS ConnectionPool

CONSTANTS t1, t2, h1, h2, k1, k2, k3, k4

MCThreads == {t1, t2}
MCBudgeted == {t1}
MCHosts == {h1, h2}
MCConns == {k1, k2, k3, k4}
=============================================================================
