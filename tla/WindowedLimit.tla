--------------------------- MODULE WindowedLimit ---------------------------
(***************************************************************************)
(* concurrencylimits.WindowedLimit (windowed.go): the samples of a time    *)
(* window reach the algorithm behind it as one.  A caller reads the clock  *)
(* before it takes the lock, and the caller that closes a window delivers  *)
(* it after it has let go of the lock.                                     *)
(*                                                                         *)
(* What delivery does to the delegate is said by the module that composes  *)
(* the two.                                                                *)
(***************************************************************************)
EXTENDS Integers, FiniteSets, FiniteSetsExt

CONSTANTS Callers,           \* goroutines that call OnSample
          WindowSamples,     \* what they report: records rtt, inflight, didDrop
          minWindowTime, maxWindowTime, windowSize, minRttThreshold,
          MaxTime,           \* bound on the clock
          MaxSamples         \* bound on the samples of a window

ASSUME WindowedAssumption ==
  /\ IsFiniteSet(Callers) /\ IsFiniteSet(WindowSamples)
  /\ WindowSamples \subseteq [rtt : Nat, inflight : Nat, didDrop : BOOLEAN]
  /\ {minWindowTime, maxWindowTime, windowSize, minRttThreshold} \subseteq Nat
  /\ minWindowTime <= maxWindowTime
  /\ MaxTime \in Nat /\ MaxSamples \in Nat

VARIABLES window,        \* w.window
          nextUpdate,    \* w.nextUpdate; 0 is the zero time
          now,           \* the clock
          at,            \* where each caller is
          sample,        \* what it reports or, once "ready", delivers
          stamp,         \* what it read from the clock
          members,       \* history: how often each sample is in the window,
          origin         \* and was in the window that a caller delivers

windowVars == <<window, nextUpdate, now, at, sample, stamp, members, origin>>

Empty == [minRtt |-> 0, sumRtt |-> 0, count |-> 0, maxInFlight |-> 0, didDrop |-> FALSE]
Nothing == [rtt |-> 0, inflight |-> 0, didDrop |-> FALSE]
Nobody  == [x \in WindowSamples |-> 0]

WindowInit ==
  /\ window = Empty
  /\ nextUpdate = 0
  /\ now = 1
  /\ at = [c \in Callers |-> "idle"]
  /\ sample = [c \in Callers |-> Nothing]
  /\ stamp = [c \in Callers |-> 0]
  /\ members = Nobody
  /\ origin = [c \in Callers |-> Nobody]

Tick ==
  /\ now < MaxTime
  /\ now' = now + 1
  /\ UNCHANGED <<window, nextUpdate, at, sample, stamp, members, origin>>

Goto(c, from, to) == at[c] = from /\ at' = [at EXCEPT ![c] = to]

(* A round trip below the threshold is not looked at.                      *)
IgnoreTiny(c) ==
  /\ at[c] = "idle"
  /\ \E x \in WindowSamples : x.rtt < minRttThreshold
  /\ UNCHANGED windowVars

Pending == Cardinality({c \in Callers : at[c] = "stamped"})

ReadClock(c) ==
  /\ window.count + Pending < MaxSamples
  /\ Goto(c, "idle", "stamped")
  /\ \E x \in WindowSamples :
       /\ x.rtt >= minRttThreshold
       /\ sample' = [sample EXCEPT ![c] = x]
  /\ stamp' = [stamp EXCEPT ![c] = now]
  /\ UNCHANGED <<window, nextUpdate, now, members, origin>>

-----------------------------------------------------------------------------
(* The section under w.mu.                                                 *)
(* Variant: a later success hides a drop.                                  *)
addForgetful(x) ==
  [minRtt      |-> IF window.count = 0 \/ x.rtt < window.minRtt THEN x.rtt ELSE window.minRtt,
   sumRtt      |-> window.sumRtt + x.rtt,
   count       |-> window.count + 1,
   maxInFlight |-> IF x.inflight > window.maxInFlight THEN x.inflight ELSE window.maxInFlight,
   didDrop     |-> x.didDrop]

add(x) ==
  [minRtt      |-> IF window.count = 0 \/ x.rtt < window.minRtt THEN x.rtt ELSE window.minRtt,
   sumRtt      |-> window.sumRtt + x.rtt,
   count       |-> window.count + 1,
   maxInFlight |-> IF x.inflight > window.maxInFlight THEN x.inflight ELSE window.maxInFlight,
   didDrop     |-> window.didDrop \/ x.didDrop]

clampDuration(d, lo, hi) == IF d < lo THEN lo ELSE IF d > hi THEN hi ELSE d

Length(w) == clampDuration(2 * w.minRtt, minWindowTime, maxWindowTime)

Joined(c) == [members EXCEPT ![sample[c]] = @ + 1]

Leave(c) ==
  /\ sample' = [sample EXCEPT ![c] = Nothing]
  /\ stamp' = [stamp EXCEPT ![c] = 0]

(* The first sample starts the window.                                     *)
StartWindow(c) ==
  /\ nextUpdate = 0
  /\ Goto(c, "stamped", "idle")
  /\ window' = add(sample[c])
  /\ members' = Joined(c)
  /\ nextUpdate' = stamp[c] + minWindowTime
  /\ Leave(c)
  /\ UNCHANGED <<now, origin>>

Accumulate(c) ==
  /\ nextUpdate # 0 /\ stamp[c] <= nextUpdate
  /\ Goto(c, "stamped", "idle")
  /\ window' = add(sample[c])
  /\ members' = Joined(c)
  /\ Leave(c)
  /\ UNCHANGED <<nextUpdate, now, origin>>

Due(c) == nextUpdate # 0 /\ stamp[c] > nextUpdate

(* The window is over but too small: its samples are lost.                 *)
Discard(c) ==
  /\ Due(c) /\ add(sample[c]).count < windowSize
  /\ Goto(c, "stamped", "idle")
  /\ nextUpdate' = stamp[c] + Length(add(sample[c]))
  /\ window' = Empty
  /\ members' = Nobody
  /\ Leave(c)
  /\ UNCHANGED <<now, origin>>

Aggregate(w) ==
  [rtt |-> w.sumRtt \div w.count, inflight |-> w.maxInFlight, didDrop |-> w.didDrop]
(* Variant: every caller closes a window, however late its time is.        *)
CloseAgain(c) ==
  /\ nextUpdate # 0 /\ add(sample[c]).count >= windowSize
  /\ Goto(c, "stamped", "ready")
  /\ nextUpdate' = stamp[c] + Length(add(sample[c]))
  /\ window' = Empty
  /\ members' = Nobody
  /\ sample' = [sample EXCEPT ![c] = Aggregate(add(sample[c]))]
  /\ origin' = [origin EXCEPT ![c] = Joined(c)]
  /\ stamp' = [stamp EXCEPT ![c] = 0]
  /\ UNCHANGED now

Close(c) ==
  /\ Due(c) /\ add(sample[c]).count >= windowSize
  /\ Goto(c, "stamped", "ready")
  /\ nextUpdate' = stamp[c] + Length(add(sample[c]))
  /\ window' = Empty
  /\ members' = Nobody
  /\ sample' = [sample EXCEPT ![c] = Aggregate(add(sample[c]))]
  /\ origin' = [origin EXCEPT ![c] = Joined(c)]
  /\ stamp' = [stamp EXCEPT ![c] = 0]
  /\ UNCHANGED now

(* The lock is released: the delegate is called.                           *)
Deliver(c) ==
  /\ Goto(c, "ready", "idle")
  /\ Leave(c)
  /\ origin' = [origin EXCEPT ![c] = Nobody]
  /\ UNCHANGED <<window, nextUpdate, now, members>>

Caller(c) ==
  \/ IgnoreTiny(c) \/ ReadClock(c)
  \/ StartWindow(c) \/ Accumulate(c) \/ Discard(c) \/ Close(c)

-----------------------------------------------------------------------------
(* What a caller is about to deliver is its window and nothing else: the   *)
(* mean round trip of enough samples, the largest concurrency, and a drop  *)
(* if there was one, none of the samples tiny and none of another window.  *)
Among(c) == {x \in WindowSamples : origin[c][x] > 0}

WindowMean(c) ==
  LET total == SumFunction([x \in WindowSamples |-> origin[c][x] * x.rtt])
      count == SumFunction(origin[c])
  IN  count >= windowSize /\ sample[c].rtt = total \div count

WindowWorst(c) ==
  /\ sample[c].inflight = Max({x.inflight : x \in Among(c)})
  /\ sample[c].didDrop = (\E x \in Among(c) : x.didDrop)
  /\ \A x \in Among(c) : x.rtt >= minRttThreshold

WindowFaithful == \A c \in Callers : at[c] = "ready" => WindowMean(c) /\ WindowWorst(c)

(* However late a caller reaches the lock with the time it read, windows   *)
(* do not overlap: the end of a window moves only forward, by more than    *)
(* the shortest window, and is never further away than the longest.        *)
WindowsApart ==
  [][nextUpdate' # nextUpdate =>
       /\ nextUpdate # 0 => nextUpdate' > nextUpdate + minWindowTime
       /\ nextUpdate' <= now + maxWindowTime]_windowVars
=============================================================================
