\* A waiter that nobody will wake although the permit is free.
SPECIFICATION Spec
CONSTANTS
  r1 = r1
  r2 = r2
  None = None
  Requests = {r1, r2}
  BacklogSize = 1
  Limits = {1}
SYMMETRY Symmetric
INVARIANTS
  WaitsOnlyAtLimit
