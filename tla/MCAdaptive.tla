----------------------------- MODULE MCAdaptive -----------------------------
(* Small instances of AdaptiveLimit.                                       *)
EXTENDS AdaptiveLimit, TLC

Alone(a)    == [algorithm |-> a, windowed |-> FALSE]
Windowed(a) == [algorithm |-> a, windowed |-> TRUE]

MCStacks == {Alone("vegas"), Alone("gradient"), Alone("gradient2"), Windowed("fixed"),
             Windowed("gradient2")}

MCSamples == [rtt : {0, 1, 2, 8}, inflight : {1, 20}, didDrop : BOOLEAN]

Report(rtt, inflight, didDrop) ==
  [rtt |-> rtt, inflight |-> inflight, didDrop |-> didDrop]
MCWindowSamples == {Report(0, 1, FALSE), Report(1, 2, TRUE), Report(4, 1, FALSE)}

Symmetric == Permutations(Callers)
=============================================================================
