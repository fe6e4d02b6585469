SPECIFICATION FairSpec
CONSTANTS
  r1 = r1
  r2 = r2
  NoCaller = NoCaller
  AnyProvider = AnyProvider
  Callers <- MCCallers
  Providers <- MCProviders
  Environments <- MCEnvironments
  Demands <- MCDemands
  Stores <- MCStores
  MaxWrites = 2
  MaxTimeout = 1
  MaxRoute = 2
CHECK_DEADLOCK FALSE
INVARIANT UnknownStops
INVARIANT ReadinessHonest
INVARIANT PostedOnMatch
PROPERTY CapacityReturns
PROPERTY EveryChatAnswered
