CONSTANTS
  large = large
  fast = fast
  box_gpu = box_gpu
  omen_gpu = omen_gpu
  groq = groq
  Requests <- MCRequests
  Budgeted <- MCBudgeted
  Providers <- MCProviders
  Tier <- MCTier
  Chains <- MCChains
  Configurations <- MCConfigurations
  RetryMax = 2
  MaxAttempts = 2
  CloseReasons <- MCCloseReasons
  Deadline = 1
  Delays <- MCDelays
SPECIFICATION FairSpec
INVARIANTS LastResortTried
CHECK_DEADLOCK FALSE
