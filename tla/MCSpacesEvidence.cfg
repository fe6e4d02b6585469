SPECIFICATION Spec
CONSTANTS
  MaxRevisions = 3
  MaxRuns = 2
  MaxAttempts = 3
CHECK_DEADLOCK FALSE
INVARIANT EvidenceOneRevision
