\* Without symmetry: the run also checks liveness.
CONSTANTS
  c1 = c1
  c2 = c2
  Callers <- MCCallers
  MaxAttempts = 2
  Deadline = 3
  Timeouts <- MCTimeouts
  Delays <- MCDelays
  Horizon = 6
SPECIFICATION FairSpec
INVARIANTS TypeOK OwnAttempt InFlightHonest WithinDeadline ReasonTruthful
PROPERTIES NoDispatchAfterStop FirstReasonStands KeepsLedger EveryCallerReturns
