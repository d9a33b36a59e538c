----------------------------- MODULE Gradient2 -----------------------------
(***************************************************************************)
(* concurrencylimits.Gradient2Limit (gradient2.go) with its moving average *)
(* expAvg (limit.go).  The limit and the average are in tenths and the     *)
(* gradient in thousandths, each rounded down.  OnSample does not look at  *)
(* didDrop.                                                                *)
(***************************************************************************)
EXTENDS Integers

CONSTANTS InitialLimit, MinLimit,
          RttTolerance, Smoothing,   \* in tenths
          QueueSize, LongWindow, Warmup

VARIABLES estimatedLimit, maxLimit, longRtt

Least(x, y)    == IF x <= y THEN x ELSE y
Greatest(x, y) == IF x >= y THEN x ELSE y

Init ==
  /\ estimatedLimit = 10 * InitialLimit
  /\ longRtt = [count |-> 0, sum |-> 0, value |-> 0]

(* expAvg.add: a plain mean while warming up, then weight 2/(window+1).    *)
add(avg, sample) ==
  IF avg.count < Warmup
    THEN LET sum == avg.sum + 10 * sample IN
         [count |-> avg.count + 1, sum |-> sum, value |-> sum \div (avg.count + 1)]
    ELSE [avg EXCEPT !.value =
            (@ * (LongWindow - 1) + 20 * sample) \div (LongWindow + 1)]

(* The average falls faster while it is over twice the sample.             *)
Relaxed(avg, rtt) ==
  IF avg.value > 20 * rtt THEN [avg EXCEPT !.value = (95 * @) \div 100] ELSE avg

gradient(avg, rtt) ==
  Greatest(500, Least(1000, (10 * RttTolerance * avg.value) \div rtt))

Idle(inflight) == 20 * inflight < estimatedLimit

Smoothed(newLimit) ==
  ((10 - Smoothing) * estimatedLimit + Smoothing * newLimit) \div 10

Clamped(newLimit) == Greatest(10 * MinLimit, Least(10 * maxLimit, newLimit))

Update(rtt) ==
  Clamped(Smoothed((estimatedLimit * gradient(longRtt', rtt)) \div 1000 + 10 * QueueSize))

OnSample(rtt, inflight, didDrop) ==
  IF rtt <= 0 THEN UNCHANGED <<estimatedLimit, longRtt>>
  ELSE /\ longRtt' = Relaxed(add(longRtt, rtt), rtt)
       /\ estimatedLimit' = IF Idle(inflight) THEN estimatedLimit ELSE Update(rtt)
=============================================================================
