\* One request through the limiter's middleware.
SPECIFICATION MiddlewareSpec
CONSTANTS
  c1 = c1
  Calls = {c1}
  Handled = {c1}
  Limits = {1}
  Stacks = {"limiter"}
  Statuses = {103, 200, 503}
  Thresholds = {0}
  CpuMax = 30
  Cores = 2
  CpuLimits = {20}
  Second = 64
  CpuTicks = 16
  Width = 512
  Elapsed = {1}
  Uses = {0}
  MaxPending = 0
INVARIANTS
  DistinguishesFailure
