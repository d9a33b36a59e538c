----------------------------- MODULE CpuSampler -----------------------------
(***************************************************************************)
(* The CPU usage behind CPUThresholdGate (cpu.go, and refreshCpu with its  *)
(* helpers in cpu_linux.go): a goroutine, started by the first reader,     *)
(* compares two counters of the kernel with their last values and keeps an *)
(* exponential average truncated to an integer.                            *)
(*                                                                         *)
(* The kernel's clock ticks are multiplied by time.Second in 64 bits,      *)
(* which wraps after some weeks on a machine with many cores; `Width` is   *)
(* 2^64.  The product of the cgroup's counter is not wrapped: for that the *)
(* reads would have to fail for an hour of full load.  The files of /proc  *)
(* and of the cgroup are external: a read gives the counter or fails.      *)
(***************************************************************************)
EXTENDS Integers

CONSTANTS CpuMax,       \* cpuMaxMilli: a fully used CPU
          Cores,        \* cpuCores, positive
          CpuLimits,    \* what cpuLimit may come to, in tenths of a core
          Second, CpuTicks, Width,
          Elapsed,      \* ticks that may pass between two refreshes
          Uses,         \* CPU time the cgroup may use meanwhile
          MaxPending    \* bound on `pending`

VARIABLES sampler,        \* "off", "running" or, with noCgroup set, "noCgroup"
          cpuLimit,
          clock,          \* totalClockTicks * time.Second, modulo 2^64
          preSystem,
          pending,        \* the cgroup's counter less preTotal
          cpuUsageValue   \* the average that readers see

samplerVars == <<sampler, cpuLimit, clock, preSystem, pending, cpuUsageValue>>

SamplerInit ==
  /\ sampler = "off"
  /\ cpuLimit = 0
  /\ clock = 0
  /\ preSystem = 0
  /\ pending = 0
  /\ cpuUsageValue = 0

systemCpuUsage(product) == product \div CpuTicks

(* cpuSampleOnce: cpuInitialize, with a quota below the number of cores or *)
(* not, and a first reading that is thrown away.                           *)
startCpuSampler ==
  /\ sampler = "off"
  /\ \/ /\ sampler' = "running"
        /\ cpuLimit' \in CpuLimits
        /\ preSystem' = systemCpuUsage(clock)
     \/ /\ sampler' = "noCgroup"
        /\ UNCHANGED <<cpuLimit, preSystem>>
  /\ pending' = 0
  /\ UNCHANGED <<clock, cpuUsageValue>>

(* Variant: the result is not cut at the maximum.                          *)
InstantUncut(cpuDelta, systemDelta) ==
  IF cpuDelta = 0 \/ systemDelta = 0 THEN 0
  ELSE (10 * cpuDelta * Cores * CpuMax) \div (systemDelta * cpuLimit)

Instant(cpuDelta, systemDelta) ==
  IF cpuDelta = 0 \/ systemDelta = 0 THEN 0
  ELSE LET usage == (10 * cpuDelta * Cores * CpuMax) \div (systemDelta * cpuLimit)
       IN  IF usage > CpuMax THEN CpuMax ELSE usage

(* int64(prev*0.95 + cur*0.05): where the exact value is whole, the sum in *)
(* floating point may lie just below it.                                   *)
Smoothed(cur) ==
  LET sum == 19 * cpuUsageValue + cur
  IN  {sum \div 20} \cup (IF sum > 0 /\ sum % 20 = 0 THEN {sum \div 20 - 1} ELSE {})

Advance(elapsed) == clock' = (clock + elapsed * Second) % Width

RefreshWithoutCgroup ==
  /\ sampler = "noCgroup"
  /\ \E elapsed \in Elapsed : Advance(elapsed)
  /\ cpuUsageValue' \in Smoothed(0)
  /\ UNCHANGED <<sampler, cpuLimit, preSystem, pending>>

(* Either counter cannot be read: both old values stay.                    *)
RefreshFails ==
  /\ sampler = "running"
  /\ \E elapsed \in Elapsed : Advance(elapsed)
  /\ \E used \in Uses : pending' = pending + used
  /\ pending' <= MaxPending
  /\ cpuUsageValue' \in Smoothed(0)
  /\ UNCHANGED <<sampler, cpuLimit, preSystem>>

Refresh ==
  /\ sampler = "running"
  /\ \E elapsed \in Elapsed : Advance(elapsed)
  /\ preSystem' = systemCpuUsage(clock')
  /\ \E used \in Uses :
       cpuUsageValue' \in
         Smoothed(Instant(pending + used, (preSystem' - preSystem) % Width))
  /\ pending' = 0
  /\ UNCHANGED <<sampler, cpuLimit>>

SamplerNext == RefreshWithoutCgroup \/ RefreshFails \/ Refresh
=============================================================================
