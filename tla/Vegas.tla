------------------------------- MODULE Vegas -------------------------------
(***************************************************************************)
(* concurrencylimits.VegasLimit (vegas.go).  The limit is in tenths and    *)
(* rounded down to one; with the default Smoothing of ten tenths it stays  *)
(* whole and nothing is rounded.  A jitter is a whole number of            *)
(* 1/JitterUnit.                                                           *)
(***************************************************************************)
EXTENDS Integers, FiniteSets

CONSTANTS InitialLimit, Smoothing, ProbeMultiplier, JitterUnit, Jitters

VARIABLES estimatedLimit, maxLimit, rttNoLoad, probeCount, probeJitter

Least(x, y)    == IF x <= y THEN x ELSE y
Greatest(x, y) == IF x >= y THEN x ELSE y

Init ==
  /\ estimatedLimit = 10 * InitialLimit
  /\ rttNoLoad = 0
  /\ probeCount = 0
  /\ probeJitter \in Jitters

(* max(1, floor(log10(n))) for limits of up to ten digits.                 *)
log10Int(n) == Greatest(1, Cardinality({k \in 1 .. 9 : 10 ^ k <= n}))

Whole     == estimatedLimit \div 10
threshold == log10Int(Whole)
alpha     == 3 * threshold
beta      == 6 * threshold

shouldProbe(n) == probeJitter * ProbeMultiplier * estimatedLimit <= 10 * JitterUnit * n

(* ceil(limit * (1 - rttNoLoad/rtt)); an exact positive product may come   *)
(* out just above itself in floating point.                                *)
QueueSizes(rtt) ==
  LET product == estimatedLimit * (rtt - rttNoLoad)
      ceiling == (product + 10 * rtt - 1) \div (10 * rtt)
  IN  {ceiling} \cup (IF product > 0 /\ product % (10 * rtt) = 0
                        THEN {ceiling + 1} ELSE {})

Idle(inflight) == 20 * inflight < estimatedLimit

(* The change of the limit in whole steps; 0 where the code returns early. *)
Change(queueSize, inflight, didDrop) ==
  CASE didDrop                                               -> -threshold
    [] ~didDrop /\ Idle(inflight)                            -> 0
    [] ~didDrop /\ ~Idle(inflight) /\ queueSize <= threshold -> beta
    [] ~didDrop /\ ~Idle(inflight) /\ queueSize > threshold
                /\ queueSize < alpha                         -> threshold
    [] ~didDrop /\ ~Idle(inflight) /\ queueSize > beta       -> -threshold
    [] OTHER                                                 -> 0

Smoothed(newLimit) ==
  ((10 - Smoothing) * estimatedLimit + Smoothing * newLimit) \div 10
(* Variant: the result is not kept above one.                              *)
ClampedFloorless(newLimit) == Least(10 * maxLimit, newLimit)

Clamped(newLimit) == Greatest(10, Least(10 * maxLimit, newLimit))

updateEstimatedLimit(rtt, inflight, didDrop) ==
  \E queueSize \in QueueSizes(rtt) :
    LET change == Change(queueSize, inflight, didDrop) IN
    estimatedLimit' = IF change = 0 THEN estimatedLimit
                      ELSE Smoothed(Clamped(estimatedLimit + 10 * change))

(* A probe takes the present round-trip time for the no-load one.          *)
Probe(rtt) ==
  /\ shouldProbe(probeCount + 1)
  /\ probeJitter' \in Jitters
  /\ probeCount' = 0
  /\ rttNoLoad' = rtt
  /\ UNCHANGED estimatedLimit

LowerBaseline(rtt) ==
  /\ ~shouldProbe(probeCount + 1)
  /\ rttNoLoad = 0 \/ rtt < rttNoLoad
  /\ probeCount' = probeCount + 1
  /\ rttNoLoad' = rtt
  /\ UNCHANGED <<estimatedLimit, probeJitter>>

Update(rtt, inflight, didDrop) ==
  /\ ~shouldProbe(probeCount + 1)
  /\ rttNoLoad # 0 /\ rtt >= rttNoLoad
  /\ probeCount' = probeCount + 1
  /\ updateEstimatedLimit(rtt, inflight, didDrop)
  /\ UNCHANGED <<rttNoLoad, probeJitter>>

OnSample(rtt, inflight, didDrop) ==
  IF rtt <= 0
    THEN UNCHANGED <<estimatedLimit, rttNoLoad, probeCount, probeJitter>>
    ELSE Probe(rtt) \/ LowerBaseline(rtt) \/ Update(rtt, inflight, didDrop)
=============================================================================
