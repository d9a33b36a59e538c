\* Each algorithm alone, and windows of three samples around two of them.
SPECIFICATION Spec
CONSTANTS
  c1 = c1
  c2 = c2
  Callers = {c1, c2}
  WindowSamples <- MCWindowSamples
  minWindowTime = 1
  maxWindowTime = 3
  windowSize = 2
  minRttThreshold = 1
  MaxTime = 5
  MaxSamples = 3
  Stacks <- MCStacks
  Samples <- MCSamples
  InitialLimit = 2
  MinLimit = 5
  MaxLimits = {3, 20}
  VegasSmoothing = 10
  ProbeMultiplier = 3
  JitterUnit = 20
  Jitters = {10, 19}
  RttTolerance = 15
  ProbeInterval = 3
  Smoothing = 2
  QueueSize = 4
  LongWindow = 3
  Warmup = 2
SYMMETRY Symmetric
INVARIANTS
  LimitInRange
  BaselineRenewed
  WindowFaithful
PROPERTIES
  RaisedOnlyWhenLoaded
  WindowsApart
