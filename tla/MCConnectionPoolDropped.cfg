CONSTANTS
  t1 = t1
  t2 = t2
  h1 = h1
  h2 = h2
  k1 = k1
  k2 = k2
  k3 = k3
  k4 = k4
  NoConn = NoConn
  Threads <- MCThreads
  Budgeted <- MCBudgeted
  Hosts <- MCHosts
  Conns <- MCConns
  MaxPerHost = 1
  MaxHosts = 1
SPECIFICATION FairSpec
INVARIANTS DroppedNotReused
