--------------------------- MODULE AdaptiveLimit ---------------------------
(***************************************************************************)
(* The algorithms behind the Limit interface of concurrencylimits, each    *)
(* alone or under a WindowedLimit.  An algorithm's OnSample is one section *)
(* under its own mutex.  Alone it may be given any sample; under a window  *)
(* it gets what WindowedLimit delivers.                                    *)
(*                                                                         *)
(* `stack` says which algorithm runs and whether a window is around it.    *)
(* SimpleLimiter takes any member of a set for the limit after a sample;   *)
(* LimitInRange says which set that is.                                    *)
(***************************************************************************)
EXTENDS WindowedLimit

CONSTANTS Stacks,            \* records algorithm, windowed
          Samples,           \* what an algorithm alone is given
          InitialLimit, MinLimit,
          MaxLimits,         \* the values of maxLimit
          VegasSmoothing, ProbeMultiplier, JitterUnit, Jitters,
          RttTolerance, ProbeInterval,
          Smoothing, QueueSize, LongWindow, Warmup

(* 0.5 + rand.Float64() * 0.5: from one half up to one, which the sum may  *)
(* be rounded to.                                                          *)
JitterRange == {j \in 1 .. JitterUnit : JitterUnit <= 2 * j}

ASSUME AdaptiveAssumption ==
  /\ Stacks \subseteq [algorithm : {"fixed", "vegas", "gradient", "gradient2"},
                       windowed : BOOLEAN]
  /\ Samples \subseteq [rtt : Nat, inflight : Nat, didDrop : BOOLEAN]
  /\ InitialLimit \in Nat \ {0} /\ MinLimit \in Nat \ {0} /\ MaxLimits \subseteq Nat
  /\ VegasSmoothing \in 1 .. 10 /\ Smoothing \in 1 .. 10
  /\ ProbeMultiplier \in Nat \ {0}
  /\ JitterUnit \in Nat \ {0} /\ Jitters \subseteq JitterRange
  /\ RttTolerance \in Nat \ {0} /\ ProbeInterval \in Nat \ {0}
  /\ {QueueSize, LongWindow, Warmup} \subseteq Nat \ {0}

VARIABLES stack, maxLimit,           \* fixed when the limit is built
          estimatedLimit,            \* in tenths; FixedLimit's value
          rttNoLoad, probeCount, probeJitter, resetRttCounter, longRtt,
          verdict,        \* history: what the last sample told of the service,
          observed,       \* the least round trip since the last probe,
          sinceProbe      \* and the samples since then

algorithmVars == <<estimatedLimit, rttNoLoad, probeCount, probeJitter,
                   resetRttCounter, longRtt>>
historyVars == <<verdict, observed, sinceProbe>>
vars == <<stack, maxLimit, algorithmVars, historyVars, windowVars>>

V  == INSTANCE Vegas WITH Smoothing <- VegasSmoothing
G  == INSTANCE Gradient
G2 == INSTANCE Gradient2

Runs(algorithm) == stack.algorithm = algorithm

Init ==
  /\ stack \in Stacks
  /\ maxLimit \in MaxLimits
  /\ V!Init
  /\ IF Runs("gradient") THEN G!Init ELSE resetRttCounter = 0
  /\ G2!Init
  /\ verdict = "none" /\ observed = 0 /\ sinceProbe = 0
  /\ WindowInit

(* A sample of a service that was not loaded, that failed, or neither.     *)
Verdict(x) == CASE x.didDrop                                       -> "drop"
                [] ~x.didDrop /\ 20 * x.inflight < estimatedLimit -> "idle"
                [] OTHER                                          -> "loaded"

(* GradientLimit forgets the baseline; VegasLimit replaces it.             *)
Probes ==
  \/ Runs("gradient") /\ resetRttCounter <= 1
  \/ Runs("vegas") /\ V!shouldProbe(probeCount + 1)

Observe(x) ==
  IF x.rtt <= 0 \/ ~(Runs("vegas") \/ Runs("gradient"))
    THEN UNCHANGED <<observed, sinceProbe>>
    ELSE /\ sinceProbe' = IF Probes THEN 0 ELSE sinceProbe + 1
         /\ observed' =
              CASE Probes /\ Runs("gradient")                      -> 0
                [] Probes /\ Runs("vegas")                         -> x.rtt
                [] ~Probes /\ (observed = 0 \/ x.rtt < observed)   -> x.rtt
                [] OTHER                                           -> observed

OnSample(x) ==
  /\ \/ Runs("fixed") /\ UNCHANGED algorithmVars
     \/ /\ Runs("vegas") /\ V!OnSample(x.rtt, x.inflight, x.didDrop)
        /\ UNCHANGED <<resetRttCounter, longRtt>>
     \/ /\ Runs("gradient") /\ G!OnSample(x.rtt, x.inflight, x.didDrop)
        /\ UNCHANGED <<probeCount, probeJitter, longRtt>>
     \/ /\ Runs("gradient2") /\ G2!OnSample(x.rtt, x.inflight, x.didDrop)
        /\ UNCHANGED <<rttNoLoad, probeCount, probeJitter, resetRttCounter>>
  /\ verdict' = Verdict(x)
  /\ Observe(x)

Direct ==
  /\ ~stack.windowed
  /\ \E x \in Samples : OnSample(x)
  /\ UNCHANGED <<stack, maxLimit, windowVars>>

DeliverWindow(c) ==
  /\ Deliver(c)
  /\ OnSample(sample[c])
  /\ UNCHANGED <<stack, maxLimit>>

InWindow ==
  /\ stack.windowed
  /\ Tick \/ \E c \in Callers : Caller(c)
  /\ UNCHANGED <<stack, maxLimit, algorithmVars, historyVars>>

Next == Direct \/ InWindow \/ (stack.windowed /\ \E c \in Callers : DeliverWindow(c))

Spec == Init /\ [][Next]_vars

-----------------------------------------------------------------------------
Highest(S) == Max(S)

(* The published limit stays positive, or nobody would be admitted and no  *)
(* sample would ever raise it again; and it stays under the maximum, but   *)
(* for what the code puts above the maximum: a limit it began with, the    *)
(* queue size of GradientLimit, the minimum of both gradient limits.       *)
(* Gradient2Limit is under its minimum only where it began there.          *)
LimitInRange ==
  /\ estimatedLimit >= 10
  /\ Runs("vegas") => estimatedLimit <= 10 * Highest({InitialLimit, maxLimit})
  /\ Runs("gradient") =>
       estimatedLimit <= 10 * Highest({InitialLimit, maxLimit, MinLimit, 4})
  /\ Runs("gradient2") =>
       /\ estimatedLimit >= 10 * MinLimit \/ estimatedLimit = 10 * InitialLimit
       /\ estimatedLimit <= 10 * Highest({InitialLimit, maxLimit, MinLimit})

(* The limit is raised only on the word of a completed request of a loaded *)
(* service: failures and an idle service never raise it.  Gradient2Limit   *)
(* takes a failed request for a completed one; and GradientLimit, where it *)
(* began below its minimum or its least queue size, or was brought below   *)
(* by a maximum that is smaller, is lifted by any sample, but only to      *)
(* there.                                                                  *)
RaisedOnlyWhenLoaded ==
  [][estimatedLimit' > estimatedLimit =>
       \/ verdict' = "loaded"
       \/ Runs("gradient2") /\ verdict' = "drop"
       \/ Runs("gradient") /\ estimatedLimit' <= 10 * Highest({MinLimit, 4})]_vars

(* The baseline is never above a round trip seen since the last probe, and *)
(* a probe comes within a bounded number of samples, although the length   *)
(* of VegasLimit's wait moves with the limit.                              *)
BaselineRenewed ==
  Runs("vegas") \/ Runs("gradient") =>
    /\ rttNoLoad = observed
    /\ Runs("gradient") => sinceProbe < 2 * ProbeInterval
    /\ Runs("vegas") =>
         sinceProbe < ProbeMultiplier * Highest({InitialLimit, maxLimit})
=============================================================================
