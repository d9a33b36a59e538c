\* Liveness and refinement.
SPECIFICATION FairSpec
CONSTANTS
  r1 = r1
  r2 = r2
  w1 = w1
  w2 = w2
  s1 = s1
  s2 = s2
  None = None
  Requests = {r1, r2}
  Workers = {w1, w2}
  Stoppers = {s1, s2}
  QueueCapacity = 1
  Target = 1
  Interval = 1
  AdaptiveLIFO = FALSE
  GateAnswers <- AnyGate
  MaxTime = 3
INVARIANTS
  NobodyWaitsInVain
PROPERTIES
  EveryoneIsServed
  ImplementsSheddingQueue
