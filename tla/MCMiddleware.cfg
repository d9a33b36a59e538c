\* Two calls through each stack, or four of SimpleLimiter's own users.
\*  Eight clock ticks fill the CPU clock.
SPECIFICATION MiddlewareSpec
CONSTANTS
  c1 = c1
  c2 = c2
  c3 = c3
  c4 = c4
  Calls = {c1, c2, c3, c4}
  Handled = {c1, c2}
  Limits = {1, 2}
  Stacks = {"bare", "limiter", "shedder", "sentinel", "adaptiveGate", "cpuGate"}
  Statuses = {103, 200, 503}
  Thresholds = {0, 5, 12}
  CpuMax = 30
  Cores = 2
  CpuLimits = {10, 20}
  Second = 64
  CpuTicks = 16
  Width = 512
  Elapsed = {1, 2}
  Uses = {0, 2, 8}
  MaxPending = 10
SYMMETRY Symmetric
INVARIANTS
  InflightExact
  HoldersWithinLimits
  ControllerExact
  OutcomeMatchesStatus
  UsageBelowPlateau
