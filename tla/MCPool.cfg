\* Two workers, one queue slot, a gate that may refuse, and calls racing Stop.
SPECIFICATION Spec
CONSTANTS
  r1 = r1
  r2 = r2
  r3 = r3
  r4 = r4
  w1 = w1
  w2 = w2
  s1 = s1
  None = None
  Requests = {r1, r2, r3, r4}
  Workers = {w1, w2}
  Stoppers = {s1}
  QueueCapacity = 1
  MaxWait = 0
  GateAnswers <- AnyGate
SYMMETRY Symmetric
INVARIANTS
  TypeOK
  TokenAccounting
  ChannelSafety
  DoneExactlyOnce
  ShedNeverRuns
  StopDrains
