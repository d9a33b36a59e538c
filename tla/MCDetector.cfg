\* Five callers around the limits where log10Plus1 changes.
SPECIFICATION Spec
CONSTANTS
  s1 = s1
  s2 = s2
  s3 = s3
  s4 = s4
  s5 = s5
  Slots = {s1, s2, s3, s4, s5}
  MaxLimit = 11
  InitialLimit = 9
  AlphaFactor = 3
  BetaFactor = 3
  ProbeFactor = 1
  JitterUnit = 20
  Jitters = {10, 19}
  Rtts = {0, 1, 5}
SYMMETRY Symmetric
INVARIANTS
  CountExact
  BaselineIsMinimum
  BaselineExpires
PROPERTIES
  LimitMovesGently
