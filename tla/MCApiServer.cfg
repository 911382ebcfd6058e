SPECIFICATION FairSpec
CONSTANTS
  r1 = r1
  r2 = r2
  r3 = r3
  Requests = {r1, r2, r3}
  Clients = {1}
  Offered = {"/health", "/health/ready", "/gen", "/solve", "/plan"}
  RatePerMin = 2
  Window = 1
  MaxConcurrentSolves = 1
  Probes = 2
  Threads = 2
  Horizon = 2
INVARIANTS
  PermitsConserved
PROPERTIES
  QuotaIsExact
  EveryRequestAnswered
