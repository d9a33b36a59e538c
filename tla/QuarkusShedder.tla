--------------------------- MODULE QuarkusShedder ---------------------------
(***************************************************************************)
(* quarkus.Shedder (shedder.go) over an OverloadDetector and a             *)
(* PriorityLoadShedding (priority.go).  Admit asks the detector, with two  *)
(* separate loads, whether it is overloaded; only then the priority of the *)
(* request is scored against a threshold that is computed from the CPU     *)
(* load at most once per second; and only then the request is counted in.  *)
(*                                                                         *)
(* CPU loads are in tenths and thresholds in thousandths of a point, so    *)
(* that the cubic formula is exact.  A clock tick is the second that a     *)
(* threshold is good for.                                                  *)
(***************************************************************************)
EXTENDS Integers, FiniteSets

CONSTANTS Slots, MaxLimit, InitialLimit, AlphaFactor, BetaFactor, ProbeFactor,
          JitterUnit, Jitters, Rtts,   \* as in OverloadDetector
          Priority, Cohort,     \* what the prioritizers and classifiers say
          PriorityModes,        \* the values of cfg.PriorityEnabled
          CpuLoads,             \* what cpuLoad() may return, in tenths; negative: shed all
          MinInt,               \* math.MinInt
          MaxTime               \* bound on the clock

MaxCohort     == 128
numPriorities == 5
Lifetime      == 1              \* the 1000 ms of line 119
Start         == Lifetime + 1   \* a wall clock is far from its origin

VARIABLES
  enabled,            \* p.enabled, fixed when the shedder is built
  phase, carried, currentRequests, currentLimit,
  lowestRequestTime, probeCount, probeJitter, sinceProbe,   \* the detector
  pc,                 \* where each call of Admit is
  seen,               \* the value of currentRequests it loaded; the time it took
  now,                \* the clock
  lastThreshold, lastThresholdTime,
  computations,       \* history: how many thresholds were computed,
  computedAt,         \* the time on the clock when the last one was,
  latest, setBack,    \* the latest time on it ever, whether it was set back,
  raced               \* and, without priorities, whether two calls were ever
                      \* inside Admit at once

Detector == INSTANCE OverloadDetector

ASSUME ShedderAssumption ==
  /\ Detector!DetectorAssumption
  /\ Priority \in [Slots -> 0 .. numPriorities - 1]
  /\ Cohort \in [Slots -> Int]
  /\ PriorityModes # {} /\ PriorityModes \subseteq BOOLEAN
  /\ CpuLoads # {} /\ CpuLoads \subseteq -1 .. 10
  /\ MinInt \in Int /\ MinInt < 0
  /\ MaxTime \in Nat

detectorVars == <<phase, carried, currentRequests, currentLimit,
                  lowestRequestTime, probeCount, probeJitter, sinceProbe>>
priorityVars == <<lastThreshold, lastThresholdTime, computations, computedAt>>
clockVars == <<now, latest, setBack>>
vars == <<enabled, detectorVars, pc, seen, clockVars, priorityVars, raced>>

PCs == {"out", "loaded", "overloaded", "stamped", "admitted", "in", "shed"}

Init ==
  /\ enabled \in PriorityModes
  /\ Detector!Init
  /\ pc = [s \in Slots |-> "out"]
  /\ seen = [s \in Slots |-> 0]
  /\ now = Start /\ latest = Start /\ setBack = FALSE
  /\ lastThreshold = 0 /\ lastThresholdTime = 0
  /\ computations = 0 /\ computedAt = 0
  /\ raced = FALSE

Tick ==
  /\ now < MaxTime
  /\ now' = now + 1
  /\ latest' = IF now' > latest THEN now' ELSE latest
  /\ UNCHANGED <<setBack, enabled, detectorVars, pc, seen, priorityVars, raced>>

(* The wall clock is set back, but not to before the shedder was built.    *)
StepBack ==
  /\ now' \in Start .. now - 1
  /\ setBack' = TRUE
  /\ UNCHANGED <<latest, enabled, detectorVars, pc, seen, priorityVars, raced>>

Goto(s, from, to) == pc[s] = from /\ pc' = [pc EXCEPT ![s] = to]

Remember(s, x) == seen' = [seen EXCEPT ![s] = x]

-----------------------------------------------------------------------------
(* IsOverloaded: two loads.                                                *)

InAdmit(s) == pc[s] \in {"loaded", "overloaded", "stamped", "admitted"}

LoadRequests(s) ==
  /\ phase[s] = "out"
  /\ Goto(s, "out", "loaded")
  /\ Remember(s, currentRequests)
  /\ raced' = (raced \/ (~enabled /\ \E q \in Slots \ {s} : InAdmit(q)))
  /\ UNCHANGED <<enabled, detectorVars, clockVars, priorityVars>>
(* Variant: the limit itself still admits.                                 *)
CompareLimitLate(s) ==
  /\ Goto(s, "loaded", IF seen[s] > currentLimit THEN "overloaded" ELSE "admitted")
  /\ Remember(s, 0)
  /\ UNCHANGED <<enabled, detectorVars, clockVars, priorityVars, raced>>

CompareLimit(s) ==
  /\ Goto(s, "loaded", IF seen[s] >= currentLimit THEN "overloaded" ELSE "admitted")
  /\ Remember(s, 0)
  /\ UNCHANGED <<enabled, detectorVars, clockVars, priorityVars, raced>>

(* ShedLoad.                                                               *)

ShedDisabled(s) ==
  /\ ~enabled
  /\ Goto(s, "overloaded", "shed")
  /\ UNCHANGED <<enabled, detectorVars, seen, clockVars, priorityVars, raced>>

(* p.now() is read before the lock.                                        *)
ReadClock(s) ==
  /\ enabled
  /\ Goto(s, "overloaded", "stamped")
  /\ Remember(s, now)
  /\ UNCHANGED <<enabled, detectorVars, clockVars, priorityVars, raced>>

Max == numPriorities * MaxCohort

Threshold(load) == IF load < 0 THEN -1 ELSE Max * (1000 - load * load * load)
(* Variant: large cohort numbers are not folded.                           *)
normalizeCohortOpen(c) ==
  CASE c = MinInt -> MaxCohort
    [] c # MinInt /\ c < 0 -> ((-c) % MaxCohort) + 1
    [] c = 0 -> 1
    [] OTHER -> c

normalizeCohort(c) ==
  CASE c = MinInt -> MaxCohort
    [] c # MinInt /\ c < 0 -> ((-c) % MaxCohort) + 1
    [] c = 0 -> 1
    [] c > MaxCohort -> (c % MaxCohort) + 1
    [] OTHER -> c

Score(s) == Priority[s] * MaxCohort + normalizeCohort(Cohort[s])

Sheds(s, threshold) == threshold < 0 \/ 1000 * Score(s) > threshold

Decide(s, threshold) ==
  /\ Goto(s, "stamped", IF Sheds(s, threshold) THEN "shed" ELSE "admitted")
  /\ Remember(s, 0)
(* Variant: a threshold exactly one second old is replaced.                *)
StaleEarly(s) == seen[s] - lastThresholdTime >= Lifetime

Stale(s) == seen[s] - lastThresholdTime > Lifetime

Recompute(s) ==
  /\ Stale(s)
  /\ \E load \in CpuLoads : lastThreshold' = Threshold(load)
  /\ lastThresholdTime' = seen[s]
  /\ computations' = computations + 1 /\ computedAt' = now
  /\ Decide(s, lastThreshold')
  /\ UNCHANGED <<enabled, detectorVars, clockVars, raced>>

(* Variant: a threshold that is used lives on.                             *)
ReuseSliding(s) ==
  /\ ~Stale(s)
  /\ Decide(s, lastThreshold)
  /\ lastThresholdTime' = seen[s]
  /\ UNCHANGED <<enabled, detectorVars, clockVars, lastThreshold, computations, computedAt, raced>>

Reuse(s) ==
  /\ ~Stale(s)
  /\ Decide(s, lastThreshold)
  /\ UNCHANGED <<enabled, detectorVars, clockVars, priorityVars, raced>>

-----------------------------------------------------------------------------

Begin(s) ==
  /\ Goto(s, "admitted", "in")
  /\ Detector!RequestBegin(s)
  /\ UNCHANGED <<enabled, seen, clockVars, priorityVars, raced>>

(* done(): RequestEnd, the slot's call is over once update is.             *)
End(s) ==
  /\ Goto(s, "in", "out")
  /\ Detector!RequestLeave(s)
  /\ UNCHANGED <<enabled, seen, clockVars, priorityVars, raced>>

Update(s) ==
  /\ Detector!Update(s)
  /\ UNCHANGED <<enabled, pc, seen, clockVars, priorityVars, raced>>

(* The 503 is written and the slot goes on to its next request.            *)
Answer503(s) ==
  /\ Goto(s, "shed", "out")
  /\ UNCHANGED <<enabled, detectorVars, seen, clockVars, priorityVars, raced>>

Next ==
  \/ Tick \/ StepBack
  \/ \E s \in Slots :
       \/ LoadRequests(s) \/ CompareLimit(s) \/ ShedDisabled(s) \/ ReadClock(s)
       \/ Recompute(s) \/ Reuse(s) \/ Begin(s) \/ End(s) \/ Update(s) \/ Answer503(s)

Spec == Init /\ [][Next]_vars

-----------------------------------------------------------------------------
(* Every variable has its type.                                            *)
TypeOK ==
  /\ Detector!TypeOK
  /\ pc \in [Slots -> PCs]
  /\ seen \in [Slots -> Nat]
  /\ now \in Nat /\ lastThresholdTime \in Nat
  /\ lastThreshold \in Int
  /\ computations \in Nat /\ computedAt \in Nat
  /\ latest \in Nat /\ setBack \in BOOLEAN
  /\ enabled \in BOOLEAN /\ raced \in BOOLEAN

(* Thresholds are computed no faster than one per second of the clock,     *)
(* after the first: calls that read the clock early and reach the lock     *)
(* late may compute theirs in a bunch, but a bunch, or a clock that is set *)
(* back and passes the same hours again, never adds to their number.       *)
ThresholdRate ==
  computations > 0 => (computations - 1) * (Lifetime + 1) <= latest - Start

(* While the clock is not set back, no call is decided by a threshold that *)
(* was computed more than a second before the call read the clock, however *)
(* busy the shedder is in between.                                         *)
DecidesByFreshThreshold ==
  [][\A s \in Slots :
       pc[s] = "stamped" /\ pc'[s] # "stamped" /\ ~setBack =>
         seen[s] - computedAt' <= Lifetime]_vars

(* A classifier cannot lift a request over one of another priority: the    *)
(* score of every cohort number, however large or negative, stays in the   *)
(* band of its priority, and no threshold sheds the lower band first.      *)
BandsDisjoint ==
  \A s, q \in Slots :
    Priority[s] < Priority[q] =>
      /\ Score(s) < Score(q)
      /\ Sheds(s, lastThreshold) => Sheds(q, lastThreshold)

(* Without priorities, only calls that overlap inside Admit can push the   *)
(* concurrency past MaxLimit: one after the other they keep to it, however *)
(* the limit moves meanwhile.                                              *)
OvershootsOnlyByRace ==
  ~enabled /\ ~raced => currentRequests <= MaxLimit
=============================================================================
