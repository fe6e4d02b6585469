--------------------------- MODULE AttemptLedger ---------------------------
(***************************************************************************)
(* What a RequestBudget promises to the one logical request that holds it, *)
(* without its fields, its lock or its callers: a ledger of numbered       *)
(* attempts that is written until the request is withdrawn, late, out of   *)
(* attempts or concluded, and of which exactly one conclusion is reported. *)
(***************************************************************************)
EXTENDS Naturals

CONSTANTS
  Limit,      \* the attempt ceiling, a positive number
  NoVerdict,  \* not concluded, none of the verdicts
  Verdicts    \* the terminal reasons

VARIABLES
  granted,    \* attempts handed out, numbered 1 to granted
  unresolved, \* those whose remote outcome nobody knows
  withdrawn,  \* the request was cancelled
  late,       \* the absolute deadline has passed
  verdict,    \* the conclusion, once there is one
  report      \* what is said of the initiated attempts: none, known, unknown

vars == <<granted, unresolved, withdrawn, late, verdict, report>>

Summary(n, open) == IF n = 0 THEN "none" ELSE IF open = {} THEN "known" ELSE "unknown"

Init ==
  /\ granted = 0 /\ unresolved = {} /\ report = "none"
  /\ withdrawn = FALSE /\ late \in BOOLEAN /\ verdict = NoVerdict

\* An attempt starts only while nothing has stopped the request.
Grant ==
  /\ verdict = NoVerdict /\ ~withdrawn /\ ~late /\ granted < Limit
  /\ granted' = granted + 1
  /\ unresolved' = unresolved \cup {granted'}
  /\ report' = Summary(granted', unresolved')
  /\ UNCHANGED <<withdrawn, late, verdict>>

\* A response resolves its own attempt and no other.
Resolve ==
  /\ \E n \in unresolved : unresolved' = unresolved \ {n}
  /\ report' = Summary(granted, unresolved')
  /\ UNCHANGED <<granted, withdrawn, late, verdict>>

Withdraw ==
  /\ withdrawn' = TRUE
  /\ \/ UNCHANGED verdict
     \/ granted = 0 /\ verdict = NoVerdict /\ verdict' = "cancellation"
  /\ UNCHANGED <<granted, unresolved, late, report>>

\* The first conclusion stands, and it is true of the ledger.
Conclude ==
  /\ verdict = NoVerdict /\ verdict' \in Verdicts
  /\ verdict' = "success" => granted > 0 /\ unresolved # 1..granted
  /\ verdict' = "attempt_exhausted" => granted = Limit
  /\ verdict' = "cancellation" => withdrawn
  /\ UNCHANGED <<granted, unresolved, withdrawn, late, report>>

Expire ==
  /\ ~late /\ late' = TRUE
  /\ UNCHANGED <<granted, unresolved, withdrawn, verdict, report>>

Next == Grant \/ Resolve \/ Withdraw \/ Conclude \/ Expire

Spec == Init /\ [][Next]_vars
=============================================================================
