CONSTANTS
  c1 = c1
  c2 = c2
  s1 = s1
  omen = omen
  nim = nim
  Clients <- MCClients
  Watchers <- MCWatchers
  All <- MCAll
  Ttl = 2
  MaxSweep = 1
  Horizon = 4
SPECIFICATION Spec
INVARIANTS TypeOK FlagsFresh
