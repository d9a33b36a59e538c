-------------------------- MODULE OverloadDetector --------------------------
(***************************************************************************)
(* quarkus.OverloadDetector (detector.go): an exact count of the requests  *)
(* in flight and an adaptive limit, moved at each completion by the Vegas  *)
(* estimate of the queue.                                                  *)
(*                                                                         *)
(* A slot is a caller that makes one request after another.  RequestEnd    *)
(* leaves the count first and takes the lock of update afterwards, so that *)
(* the count it carries may be old when it is used.  Times are whole       *)
(* microseconds; a jitter is a whole number of 1/JitterUnit.               *)
(***************************************************************************)
EXTENDS Integers, FiniteSets

CONSTANTS Slots,
          MaxLimit, InitialLimit,     \* cfg.MaxLimit, cfg.InitialLimit
          AlphaFactor, BetaFactor,    \* cfg.AlphaFactor, cfg.BetaFactor
          ProbeFactor,                \* cfg.ProbeFactor
          JitterUnit,                 \* the jitters are fractions of it,
          Jitters,                    \* values of probeJitter, in these units
          Rtts                        \* response times

(* math.MaxInt64: above every response time.                               *)
MaxInt == 1000000

(* 0.5 + rand.Float64() * 0.5: from one half up to one, which the sum may  *)
(* be rounded to.                                                          *)
JitterRange == {j \in 1 .. JitterUnit : JitterUnit <= 2 * j}

ASSUME DetectorAssumption ==
  /\ IsFiniteSet(Slots)
  /\ MaxLimit \in Nat /\ InitialLimit \in 1 .. MaxLimit
  /\ AlphaFactor \in Nat /\ BetaFactor \in Nat /\ ProbeFactor \in Nat \ {0}
  /\ JitterUnit \in Nat \ {0} /\ Jitters # {} /\ Jitters \subseteq JitterRange
  /\ Rtts # {} /\ Rtts \subseteq 0 .. MaxInt - 1

VARIABLES
  phase,            \* "out", "in" flight, or "leaving": between count and update
  carried,          \* the count each RequestEnd took with it
  currentRequests, currentLimit,
  lowestRequestTime, probeCount, probeJitter,
  sinceProbe        \* history: the response times since the last probe

detectorVars == <<phase, carried, currentRequests, currentLimit,
                  lowestRequestTime, probeCount, probeJitter, sinceProbe>>

Init ==
  /\ phase = [s \in Slots |-> "out"]
  /\ carried = [s \in Slots |-> 0]
  /\ currentRequests = 0
  /\ currentLimit = InitialLimit
  /\ lowestRequestTime = MaxInt
  /\ probeCount = 0
  /\ probeJitter \in Jitters
  /\ sinceProbe = {}

Enter(s, from, to) == phase[s] = from /\ phase' = [phase EXCEPT ![s] = to]

RequestBegin(s) ==
  /\ Enter(s, "out", "in")
  /\ currentRequests' = currentRequests + 1
  /\ UNCHANGED <<carried, currentLimit, lowestRequestTime, probeCount, probeJitter, sinceProbe>>
(* Variant: the count after the decrement is carried.                      *)
RequestLeaveAfter(s) ==
  /\ Enter(s, "in", "leaving")
  /\ currentRequests' = currentRequests - 1
  /\ carried' = [carried EXCEPT ![s] = currentRequests - 1]
  /\ UNCHANGED <<currentLimit, lowestRequestTime, probeCount, probeJitter, sinceProbe>>

(* currentRequests.Add(-1) + 1 is the count before the decrement.          *)
RequestLeave(s) ==
  /\ Enter(s, "in", "leaving")
  /\ currentRequests' = currentRequests - 1
  /\ carried' = [carried EXCEPT ![s] = currentRequests]
  /\ UNCHANGED <<currentLimit, lowestRequestTime, probeCount, probeJitter, sinceProbe>>

(* update is over; the carried count was a local variable.                 *)
Leave(s) == Enter(s, "leaving", "out") /\ carried' = [carried EXCEPT ![s] = 0]

-----------------------------------------------------------------------------
(* update, under d.mu.                                                     *)

log10Plus1(n) == 1 + Cardinality({k \in 1 .. 9 : 10 ^ k <= n})

CeilDiv(a, b) == (a + b - 1) \div b

(* ceil(limit * (1 - lowest/rtt)).  Where the exact value is a whole number *)
(* the floating-point product may lie just above it, and ceil adds one.    *)
QueueSizes(limit, lowest, rtt) ==
  LET exact == limit * (rtt - lowest)
  IN {CeilDiv(exact, rtt)} \cup
     {q \in {exact \div rtt + 1} : exact % rtt = 0 /\ exact # 0}
(* Variant: cfg.MaxLimit is not applied.                                   *)
ClampedBelow(n) == IF n < 1 THEN 1 ELSE n

Clamped(n) == IF n < 1 THEN 1 ELSE IF n > MaxLimit THEN MaxLimit ELSE n
(* Variant: the limit is lowered by beta.                                  *)
NewLimitHasty(limit, queueSize) ==
  LET l    == log10Plus1(limit)
      beta == BetaFactor * l
  IN CASE queueSize <= l   -> Clamped(limit + beta)
       [] queueSize > beta /\ queueSize > l -> Clamped(limit - beta)
       [] OTHER            -> limit

NewLimit(limit, queueSize) ==
  LET l     == log10Plus1(limit)
      alpha == AlphaFactor * l
      beta  == BetaFactor * l
  IN CASE queueSize <= l                        -> Clamped(limit + beta)
       [] queueSize > l /\ queueSize < alpha    -> Clamped(limit + l)
       [] queueSize > l /\ queueSize >= alpha /\ queueSize > beta -> Clamped(limit - l)
       [] OTHER                                 -> limit

ProbeDue == ProbeFactor * probeJitter * currentLimit <= JitterUnit * (probeCount + 1)

(* A sub-microsecond time is ignored.                                      *)
UpdateIgnored(s, rtt) ==
  /\ rtt <= 0
  /\ Leave(s)
  /\ UNCHANGED <<currentRequests, currentLimit, lowestRequestTime,
                 probeCount, probeJitter, sinceProbe>>
(* Variants of the probe: the count is not reset, or the old baseline is   *)
(* kept.                                                                   *)
UpdateProbeCountsOn(s, rtt) ==
  /\ rtt > 0 /\ ProbeDue
  /\ Leave(s)
  /\ probeJitter' \in Jitters
  /\ probeCount' = probeCount + 1
  /\ lowestRequestTime' = rtt
  /\ sinceProbe' = {rtt}
  /\ UNCHANGED <<currentRequests, currentLimit>>

UpdateProbeKeepsBaseline(s, rtt) ==
  /\ rtt > 0 /\ ProbeDue
  /\ Leave(s)
  /\ probeJitter' \in Jitters
  /\ probeCount' = 0
  /\ sinceProbe' = {rtt}
  /\ UNCHANGED <<currentRequests, currentLimit, lowestRequestTime>>

(* The baseline is probed anew.                                            *)
UpdateProbe(s, rtt) ==
  /\ rtt > 0 /\ ProbeDue
  /\ Leave(s)
  /\ probeJitter' \in Jitters
  /\ probeCount' = 0
  /\ lowestRequestTime' = rtt
  /\ sinceProbe' = {rtt}
  /\ UNCHANGED <<currentRequests, currentLimit>>

Sampled(s, rtt) ==
  /\ rtt > 0 /\ ~ProbeDue
  /\ Leave(s)
  /\ probeCount' = probeCount + 1
  /\ sinceProbe' = sinceProbe \cup {rtt}

UpdateLowest(s, rtt) ==
  /\ Sampled(s, rtt)
  /\ rtt < lowestRequestTime
  /\ lowestRequestTime' = rtt
  /\ UNCHANGED <<currentRequests, currentLimit, probeJitter>>

(* Less than half the limit is in use: nothing is learnt.                  *)
UpdateIdle(s, rtt) ==
  /\ Sampled(s, rtt)
  /\ rtt >= lowestRequestTime
  /\ 2 * carried[s] < currentLimit
  /\ UNCHANGED <<currentRequests, currentLimit, lowestRequestTime, probeJitter>>

UpdateLimit(s, rtt) ==
  /\ Sampled(s, rtt)
  /\ rtt >= lowestRequestTime
  /\ 2 * carried[s] >= currentLimit
  /\ \E q \in QueueSizes(currentLimit, lowestRequestTime, rtt) :
       currentLimit' = NewLimit(currentLimit, q)
  /\ UNCHANGED <<currentRequests, lowestRequestTime, probeJitter>>

Update(s) ==
  \E rtt \in Rtts :
    \/ UpdateIgnored(s, rtt) \/ UpdateProbe(s, rtt)
    \/ UpdateLowest(s, rtt) \/ UpdateIdle(s, rtt) \/ UpdateLimit(s, rtt)

Next == \E s \in Slots : RequestBegin(s) \/ RequestLeave(s) \/ Update(s)

Spec == Init /\ [][Next]_detectorVars

-----------------------------------------------------------------------------
InFlight == {s \in Slots : phase[s] = "in"}

(* Every variable has its type.                                            *)
TypeOK ==
  /\ phase \in [Slots -> {"out", "in", "leaving"}]
  /\ carried \in [Slots -> Int]
  /\ currentRequests \in Int /\ currentLimit \in Int
  /\ lowestRequestTime \in Nat /\ probeCount \in Nat
  /\ probeJitter \in Jitters
  /\ sinceProbe \subseteq Rtts

(* detector.go:31: "an exact count of in-flight requests", and a request   *)
(* always carries a count that includes itself to update.                  *)
CountExact ==
  /\ currentRequests = Cardinality(InFlight)
  /\ \A s \in Slots : phase[s] = "leaving" => carried[s] \in 1 .. Cardinality(Slots)

(* The limit stays where an idle detector admits (at least 1) and within   *)
(* cfg.MaxLimit, whichever way the samples push it.                        *)
LimitInRange == currentLimit \in 1 .. MaxLimit

(* The baseline is the smallest response time since the last probe.        *)
BaselineIsMinimum ==
  IF sinceProbe = {}
    THEN lowestRequestTime = MaxInt
    ELSE lowestRequestTime \in sinceProbe /\ \A t \in sinceProbe : lowestRequestTime <= t

(* "A drifting minimum gets re-probed" (line 104): no baseline survives    *)
(* ProbeFactor * MaxLimit samples, whatever the jitter and also when the   *)
(* limit, and with it the length of the probe, moves between two samples.  *)
BaselineExpires == probeCount < ProbeFactor * MaxLimit

(* One completion raises the limit by at most the larger of beta and one   *)
(* unit of log10, lowers it by at most one unit, never lowers it after a   *)
(* response as fast as the baseline, and keeps it in range.                *)
LimitMovesGently ==
  [][/\ LimitInRange'
     /\ \E b \in {1, BetaFactor} :
          currentLimit' - currentLimit <= b * log10Plus1(currentLimit)
     /\ currentLimit - currentLimit' <= log10Plus1(currentLimit)
     /\ currentLimit' < currentLimit =>
          \E t \in Rtts : t > lowestRequestTime /\ sinceProbe' = sinceProbe \cup {t}]_detectorVars
=============================================================================
