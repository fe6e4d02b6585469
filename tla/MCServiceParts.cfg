SPECIFICATION FairSpec
CONSTANTS
  c1 = c1
  c2 = c2
  c3 = c3
  e1 = e1
  e2 = e2
  Clients <- MCClients
  MaxClients = 2
  NoBackend = NoBackend
  Calls <- MCCalls
  Inputs = {"x"}
  Configs <- MCConfigs
  CacheTTL = 1
  CacheMax = 1
  MaxClock = 1
CHECK_DEADLOCK FALSE
INVARIANT CountsReturned
INVARIANT NoReplay
INVARIANT VectorsOwn
PROPERTY EveryCallerLeaves
