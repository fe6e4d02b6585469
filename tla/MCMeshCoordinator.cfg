CONSTANTS
  c1 = c1
  c2 = c2
  s1 = s1
  laptop = laptop
  omen = omen
  chaski = chaski
  nim = nim
  Clients <- MCClients
  Watchers <- MCWatchers
  Registry <- MCRegistry
  Sovereign <- MCSovereign
  Failover = nim
  Cycle = 2
SPECIFICATION FairSpec
INVARIANTS TypeOK LoadCounts
PROPERTIES NeverTwice EveryThreadReturns
