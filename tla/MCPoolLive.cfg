\* Liveness and refinement: two callers of Stop, calls that wait for a token.
SPECIFICATION FairSpec
CONSTANTS
  r1 = r1
  r2 = r2
  r3 = r3
  w1 = w1
  s1 = s1
  s2 = s2
  None = None
  Requests = {r1, r2, r3}
  Workers = {w1}
  Stoppers = {s1, s2}
  QueueCapacity = 1
  MaxWait = 1
  GateAnswers <- NoGate
INVARIANTS
  NobodyWaitsInVain
PROPERTIES
  EveryoneIsServed
  ImplementsSheddingQueue
