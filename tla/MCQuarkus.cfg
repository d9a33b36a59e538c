\* Three requests of different priorities above a limit of one or two.
SPECIFICATION Spec
CONSTANTS
  s1 = s1
  s2 = s2
  s3 = s3
  Slots = {s1, s2, s3}
  MaxLimit = 2
  InitialLimit = 1
  AlphaFactor = 1
  BetaFactor = 1
  ProbeFactor = 3
  JitterUnit = 20
  Jitters = {19}
  Rtts = {0, 5}
  Priority <- Priorities
  Cohort <- Cohorts
  PriorityModes = {TRUE, FALSE}
  CpuLoads <- Loads
  MinInt <- IntMin
  MaxTime = 4
INVARIANTS
  ThresholdRate
  BandsDisjoint
  OvershootsOnlyByRace
PROPERTIES
  DecidesByFreshThreshold
