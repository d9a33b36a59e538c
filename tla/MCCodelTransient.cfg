\* A drop out of a queue that was empty a moment ago.
SPECIFICATION Spec
CONSTANTS
  r1 = r1
  r2 = r2
  w1 = w1
  s1 = s1
  None = None
  Requests = {r1, r2}
  Workers = {w1}
  Stoppers = {s1}
  QueueCapacity = 2
  Target = 1
  Interval = 2
  AdaptiveLIFO = FALSE
  GateAnswers <- NoGate
  MaxTime = 6
PROPERTIES
  TransientNeverDropped
