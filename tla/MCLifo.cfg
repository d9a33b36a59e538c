\* Three requests, a backlog of two, an algorithm that publishes 0, 1 or 2.
SPECIFICATION FairSpec
CONSTANTS
  r1 = r1
  r2 = r2
  r3 = r3
  None = None
  Requests = {r1, r2, r3}
  BacklogSize = 2
  Limits = {0, 1, 2}
INVARIANTS
  BacklogExact
  NoPermitLeak
  UsersWithinLimits
  DrainedToZero
PROPERTIES
  AcquireReturns
