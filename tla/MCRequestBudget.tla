-------------------------- MODULE MCRequestBudget --------------------------
(***************************************************************************)
(* Two callers share a budget of two attempts and three units of time.     *)
(***************************************************************************)
EXTENDS RequestBudget

CONSTANTS c1, c2

MCCallers == {c1, c2}
MCTimeouts == {1, 4}
MCDelays == {0, 1, 2}
=============================================================================
