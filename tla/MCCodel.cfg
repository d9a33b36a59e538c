\* Four calls, two workers, adaptive LIFO, a clock up to six.
SPECIFICATION Spec
CONSTANTS
  r1 = r1
  r2 = r2
  r3 = r3
  r4 = r4
  w1 = w1
  w2 = w2
  None = None
  Requests = {r1, r2, r3, r4}
  Workers = {w1, w2}
  Stoppers = {}
  QueueCapacity = 3
  Target = 1
  Interval = 2
  AdaptiveLIFO = TRUE
  GateAnswers <- NoGate
  MaxTime = 6
SYMMETRY Symmetric
INVARIANTS
  HeadIsOldest
  NoLostWakeup
  DoneExactlyOnce
  ControlConsistent
PROPERTIES
  DropNeedsStandingQueue
