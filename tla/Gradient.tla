------------------------------ MODULE Gradient ------------------------------
(***************************************************************************)
(* concurrencylimits.GradientLimit (gradient.go).  The limit and the queue *)
(* size are in tenths and the gradient in thousandths, each rounded down.  *)
(* The probe cannot be switched off: no option sets probeInterval.         *)
(***************************************************************************)
EXTENDS Integers

CONSTANTS InitialLimit, MinLimit,
          RttTolerance,     \* in tenths
          ProbeInterval

VARIABLES estimatedLimit, maxLimit, rttNoLoad, resetRttCounter

Least(x, y)    == IF x <= y THEN x ELSE y
Greatest(x, y) == IF x >= y THEN x ELSE y

(* probeInterval + rand.IntN(probeInterval)                                *)
nextProbeCountdown == ProbeInterval .. 2 * ProbeInterval - 1

Init ==
  /\ estimatedLimit = 10 * InitialLimit
  /\ rttNoLoad = 0
  /\ resetRttCounter \in nextProbeCountdown

(* max(4, sqrt(limit))                                                     *)
queueSize ==
  LET n    == 100 * (estimatedLimit \div 10)
      root == CHOOSE r \in 0 .. n : r * r <= n /\ (r + 1) * (r + 1) > n
  IN  Greatest(40, root)

(* Of the baseline that this sample has just updated.                      *)
gradient(noLoad, rtt) ==
  Greatest(500, Least(1000, (100 * RttTolerance * noLoad) \div rtt))

Idle(inflight) == 20 * inflight < estimatedLimit

backoff == (9 * estimatedLimit) \div 10

Grown(noLoad, rtt) ==
  (estimatedLimit * gradient(noLoad, rtt)) \div 1000 + queueSize

(* Only a decrease is smoothed, by a factor of 0.2.                        *)
Smoothed(newLimit) ==
  IF newLimit >= estimatedLimit THEN newLimit
  ELSE Greatest(10 * MinLimit, (8 * estimatedLimit + 2 * newLimit) \div 10)

(* The queue size is applied after the maximum and wins over it.           *)
Clamped(newLimit) == Greatest(queueSize, Least(10 * maxLimit, newLimit))
(* Variant: the old baseline survives the probe.                           *)
ProbeKeepsBaseline ==
  /\ resetRttCounter - 1 <= 0
  /\ resetRttCounter' \in nextProbeCountdown
  /\ estimatedLimit' = Greatest(10 * MinLimit, queueSize)
  /\ UNCHANGED rttNoLoad

Probe ==
  /\ resetRttCounter - 1 <= 0
  /\ resetRttCounter' \in nextProbeCountdown
  /\ estimatedLimit' = Greatest(10 * MinLimit, queueSize)
  /\ rttNoLoad' = 0
(* Variant: a drop is an ordinary sample.                                  *)
UpdateAnyway(rtt, inflight, didDrop) ==
  /\ resetRttCounter - 1 > 0
  /\ resetRttCounter' = resetRttCounter - 1
  /\ rttNoLoad' = IF rttNoLoad = 0 \/ rtt < rttNoLoad THEN rtt ELSE rttNoLoad
  /\ estimatedLimit' = IF Idle(inflight) THEN estimatedLimit
                       ELSE Clamped(Smoothed(Grown(rttNoLoad', rtt)))

Update(rtt, inflight, didDrop) ==
  /\ resetRttCounter - 1 > 0
  /\ resetRttCounter' = resetRttCounter - 1
  /\ rttNoLoad' = IF rttNoLoad = 0 \/ rtt < rttNoLoad THEN rtt ELSE rttNoLoad
  /\ estimatedLimit' =
       IF ~didDrop /\ Idle(inflight) THEN estimatedLimit
       ELSE Clamped(Smoothed(IF didDrop THEN backoff ELSE Grown(rttNoLoad', rtt)))

OnSample(rtt, inflight, didDrop) ==
  IF rtt <= 0 THEN UNCHANGED <<estimatedLimit, rttNoLoad, resetRttCounter>>
              ELSE Probe \/ Update(rtt, inflight, didDrop)
=============================================================================
