----------------------- MODULE OverloadDetectorProofs -----------------------
(***************************************************************************)
(* The count of OverloadDetector is exact, its baseline is the minimum     *)
(* since the last probe and never outlives the longest probe interval, and *)
(* one completion moves the limit by little and within its range, for      *)
(* every set of callers, every configuration and every response time.      *)
(***************************************************************************)
EXTENDS OverloadDetector, TLAPS, FiniteSetTheorems

-----------------------------------------------------------------------------
(* Arithmetic of detector.go that the provers need in small pieces.        *)

(* A product grows with either factor.                                     *)
LEMMA ProductMonotone ==
  ASSUME NEW a \in Nat, NEW b \in Nat, NEW c \in Nat, NEW d \in Nat, a <= b, c <= d
  PROVE  a * c <= b * d /\ a * c \in Nat /\ b * d \in Nat
<1>1. PICK x \in Nat : b = a + x
  <2>1. b - a \in Nat /\ b = a + (b - a)
    OBVIOUS
  <2>. QED BY <2>1
<1>2. PICK y \in Nat : d = c + y
  <2>1. d - c \in Nat /\ d = c + (d - c)
    OBVIOUS
  <2>. QED BY <2>1
<1>3. b * d = a * c + a * y + x * c + x * y
  BY <1>1, <1>2
<1>4. a * c \in Nat /\ a * y \in Nat /\ x * c \in Nat /\ x * y \in Nat
  BY <1>1, <1>2
<1>. QED BY <1>3, <1>4

(* log10Plus1 (detector.go): the table has ten entries.                    *)
LEMMA LogRange == ASSUME NEW n PROVE log10Plus1(n) \in 1 .. 10
<1>1. IsFiniteSet(1 .. 9) /\ Cardinality(1 .. 9) = 9
  <2>1. \A m \in Nat : IsFiniteSet(1 .. m) /\ Cardinality(1 .. m) = m
    BY FS_Interval
  <2>. QED BY <2>1
<1>2. Cardinality({k \in 1 .. 9 : 10 ^ k <= n}) \in 0 .. 9
  <2>1. {k \in 1 .. 9 : 10 ^ k <= n} \subseteq 1 .. 9
    OBVIOUS
  <2>2. /\ IsFiniteSet({k \in 1 .. 9 : 10 ^ k <= n})
        /\ Cardinality({k \in 1 .. 9 : 10 ^ k <= n}) <= 9
    BY <1>1, <2>1, FS_Subset
  <2>. QED BY <2>2, FS_CardinalityType
<1>. QED BY <1>2 DEF log10Plus1

(* The clamp of setLimit keeps every number in range, and brings a limit   *)
(* that was in range no further than it was meant to go.                   *)
LEMMA ClampedRange ==
  ASSUME NEW n \in Int
  PROVE  /\ Clamped(n) \in 1 .. MaxLimit
         /\ \A m \in 1 .. MaxLimit : /\ m <= n => m <= Clamped(n) /\ Clamped(n) <= n
                                     /\ n <= m => Clamped(n) <= m /\ n <= Clamped(n)
BY DetectorAssumption DEF Clamped

(* A response as fast as the baseline finds an empty queue.                *)
LEMMA QueueSizeRange ==
  ASSUME NEW limit \in Nat, NEW lowest \in Nat, NEW rtt \in Nat \ {0}, lowest <= rtt,
         NEW q \in QueueSizes(limit, lowest, rtt)
  PROVE  q \in Int /\ (lowest = rtt => q = 0)
<1>. DEFINE exact == limit * (rtt - lowest)
<1>1. exact \in Int /\ (lowest = rtt => exact = 0)
  OBVIOUS
<1>2. q = CeilDiv(exact, rtt) \/ (q = exact \div rtt + 1 /\ exact # 0)
  BY DEF QueueSizes
<1>. HIDE DEF exact
<1>3. exact \div rtt \in Int /\ (exact + rtt - 1) \div rtt \in Int
  BY <1>1
<1>4. ASSUME exact = 0 PROVE (exact + rtt - 1) \div rtt = 0
  <2>1. rtt - 1 \in 0 .. rtt - 1
    OBVIOUS
  <2>2. (rtt - 1) \div rtt = 0
    BY <2>1
  <2>. QED BY <1>4, <2>2
<1>. QED BY <1>1, <1>2, <1>3, <1>4 DEF CeilDiv

(* One Vegas step: by at most the larger of beta and one unit up, by at    *)
(* most one unit down, down only when a queue was seen, always in range.   *)
LEMMA NewLimitStep ==
  ASSUME NEW limit \in 1 .. MaxLimit, NEW q \in Int
  PROVE  /\ NewLimit(limit, q) \in 1 .. MaxLimit
         /\ \E b \in {1, BetaFactor} : NewLimit(limit, q) - limit <= b * log10Plus1(limit)
         /\ limit - NewLimit(limit, q) <= log10Plus1(limit)
         /\ NewLimit(limit, q) < limit => q > 1
<1>. DEFINE l == log10Plus1(limit)
<1>1. l \in 1 .. 10
  BY LogRange
<1>2. limit \in Int /\ BetaFactor \in Nat /\ AlphaFactor \in Nat
  BY DetectorAssumption
<1>. HIDE DEF l
<1>3. PICK beta \in Nat : beta = BetaFactor * l
  BY <1>1, <1>2
<1>4. PICK alpha \in Nat : alpha = AlphaFactor * l
  BY <1>1, <1>2
<1>5. NewLimit(limit, q) = 
        CASE q <= l                                -> Clamped(limit + beta)
          [] q > l /\ q < alpha                    -> Clamped(limit + l)
          [] q > l /\ q >= alpha /\ q > beta       -> Clamped(limit - l)
          [] OTHER                                 -> limit
  BY <1>3, <1>4 DEF NewLimit, l
<1>6. CASE q <= l
  <2>1. NewLimit(limit, q) = Clamped(limit + beta)
    BY <1>1, <1>5, <1>6
  <2>2. /\ Clamped(limit + beta) \in 1 .. MaxLimit
        /\ limit <= Clamped(limit + beta) /\ Clamped(limit + beta) <= limit + beta
    BY <1>2, <1>3, ClampedRange
  <2>3. NewLimit(limit, q) - limit <= BetaFactor * l
    BY <1>2, <1>3, <2>1, <2>2
  <2>. QED BY <1>1, <1>2, <2>1, <2>2, <2>3 DEF l
<1>7. CASE q > l /\ q < alpha
  <2>1. NewLimit(limit, q) = Clamped(limit + l)
    BY <1>1, <1>5, <1>7
  <2>2. /\ Clamped(limit + l) \in 1 .. MaxLimit
        /\ limit <= Clamped(limit + l) /\ Clamped(limit + l) <= limit + l
    BY <1>1, <1>2, ClampedRange
  <2>3. NewLimit(limit, q) - limit <= 1 * l
    BY <1>1, <1>2, <2>1, <2>2
  <2>. QED BY <1>1, <1>2, <2>1, <2>2, <2>3 DEF l
<1>8. CASE q > l /\ q >= alpha /\ q > beta
  <2>1. NewLimit(limit, q) = Clamped(limit - l)
    BY <1>1, <1>5, <1>8
  <2>2. /\ Clamped(limit - l) \in 1 .. MaxLimit
        /\ Clamped(limit - l) <= limit /\ limit - l <= Clamped(limit - l)
    BY <1>1, <1>2, ClampedRange
  <2>3. NewLimit(limit, q) - limit <= 1 * l
    BY <1>1, <1>2, <2>1, <2>2
  <2>. QED BY <1>1, <1>2, <1>8, <2>1, <2>2, <2>3 DEF l
<1>9. CASE q > l /\ q >= alpha /\ ~(q > beta)
  <2>1. NewLimit(limit, q) = limit
    BY <1>1, <1>5, <1>9
  <2>2. NewLimit(limit, q) - limit <= 1 * l
    BY <1>1, <1>2, <2>1
  <2>. QED BY <1>1, <1>2, <2>1, <2>2 DEF l
<1>. QED BY <1>1, <1>3, <1>4, <1>6, <1>7, <1>8, <1>9

-----------------------------------------------------------------------------
(* The inductive invariant.                                                *)

Leaving == {s \in Slots : phase[s] = "leaving"}

DetectorInv == TypeOK /\ CountExact /\ LimitInRange /\ BaselineIsMinimum /\ BaselineExpires

(* The types the steps below compute with.                                 *)
LEMMA Types ==
  ASSUME TypeOK, LimitInRange
  PROVE  /\ phase \in [Slots -> {"out", "in", "leaving"}] /\ carried \in [Slots -> Int]
         /\ currentRequests \in Int /\ currentLimit \in 1 .. MaxLimit /\ currentLimit \in Nat
         /\ lowestRequestTime \in Nat /\ probeCount \in Nat
         /\ JitterUnit \in Nat \ {0} /\ probeJitter \in 1 .. JitterUnit /\ sinceProbe \subseteq Rtts
         /\ Rtts \subseteq 0 .. MaxInt - 1 /\ MaxInt \in Nat /\ MaxLimit \in Nat
         /\ ProbeFactor \in Nat \ {0}
<1>1. MaxInt \in Nat
  BY SMT DEF MaxInt
<1>. QED BY <1>1, DetectorAssumption DEF TypeOK, LimitInRange, JitterRange

(* The longest probe interval is not empty.                                *)
LEMMA LongestInterval == 0 < ProbeFactor * MaxLimit
<1>1. 1 * 1 <= ProbeFactor * MaxLimit /\ ProbeFactor * MaxLimit \in Nat
  BY DetectorAssumption, ProductMonotone
<1>. QED BY <1>1

(* A new detector satisfies it.                                            *)
LEMMA InitDetector == ASSUME Init PROVE DetectorInv
<1>1. TypeOK
  <2>1. MaxInt \in Nat
    BY SMT DEF MaxInt
  <2>. QED BY <2>1, DetectorAssumption DEF Init, TypeOK
<1>2. LimitInRange
  BY DetectorAssumption DEF Init, LimitInRange
<1>3. CountExact
  <2>1. InFlight = {}
    BY DEF Init, InFlight
  <2>2. Cardinality(InFlight) = 0
    BY <2>1, FS_EmptySet
  <2>. QED BY <2>2 DEF Init, CountExact
<1>4. BaselineIsMinimum
  BY DEF Init, BaselineIsMinimum
<1>5. BaselineExpires
  BY LongestInterval DEF Init, BaselineExpires
<1>. QED BY <1>1, <1>2, <1>3, <1>4, <1>5 DEF DetectorInv

(* A request that begins is one more in flight, one that leaves the count  *)
(* one less, and an update touches neither.                                *)
LEMMA CountStep ==
  ASSUME TypeOK, LimitInRange, CountExact, NEW s \in Slots,
         RequestBegin(s) \/ RequestLeave(s) \/ (Leave(s) /\ currentRequests' = currentRequests)
  PROVE  /\ CountExact'
         /\ phase' \in [Slots -> {"out", "in", "leaving"}] /\ carried' \in [Slots -> Int]
         /\ currentRequests' \in Int
<1>1. /\ phase \in [Slots -> {"out", "in", "leaving"}] /\ carried \in [Slots -> Int]
      /\ currentRequests \in Int
  BY Types
<1>2. IsFiniteSet(Slots) /\ InFlight \subseteq Slots /\ Cardinality(Slots) \in Nat
  BY DetectorAssumption, FS_CardinalityType DEF InFlight
<1>3. IsFiniteSet(InFlight) /\ Cardinality(InFlight) \in Nat /\ Cardinality(InFlight) <= Cardinality(Slots)
  BY <1>2, FS_Subset, FS_CardinalityType
<1>4. /\ currentRequests = Cardinality(InFlight)
      /\ \A q \in Slots : phase[q] = "leaving" => carried[q] \in 1 .. Cardinality(Slots)
  BY DEF CountExact
<1>5. CASE RequestBegin(s)
  <2>1. /\ phase[s] = "out" /\ phase' = [phase EXCEPT ![s] = "in"]
        /\ currentRequests' = currentRequests + 1 /\ carried' = carried
    BY <1>5 DEF RequestBegin, Enter
  <2>2. InFlight' = InFlight \cup {s} /\ s \notin InFlight
    BY <1>1, <2>1 DEF InFlight
  <2>3. Cardinality(InFlight') = Cardinality(InFlight) + 1
    BY <1>3, <2>2, FS_AddElement
  <2>4. \A q \in Slots : phase'[q] = "leaving" => carried'[q] \in 1 .. Cardinality(Slots)
    BY <1>1, <1>4, <2>1
  <2>. QED BY <1>1, <1>3, <1>4, <2>1, <2>3, <2>4 DEF CountExact
<1>6. CASE RequestLeave(s)
  <2>1. /\ phase[s] = "in" /\ phase' = [phase EXCEPT ![s] = "leaving"]
        /\ currentRequests' = currentRequests - 1
        /\ carried' = [carried EXCEPT ![s] = currentRequests]
    BY <1>6 DEF RequestLeave, Enter
  <2>2. InFlight' = InFlight \ {s} /\ s \in InFlight
    BY <1>1, <2>1 DEF InFlight
  <2>3. Cardinality(InFlight') = Cardinality(InFlight) - 1 /\ Cardinality(InFlight') \in Nat
    BY <1>3, <2>2, FS_RemoveElement, FS_CardinalityType
  <2>4. currentRequests \in 1 .. Cardinality(Slots)
    BY <1>2, <1>3, <1>4, <2>3
  <2>5. \A q \in Slots : phase'[q] = "leaving" => carried'[q] \in 1 .. Cardinality(Slots)
    BY <1>1, <1>4, <2>1, <2>4
  <2>. QED BY <1>1, <1>3, <1>4, <2>1, <2>3, <2>5 DEF CountExact
<1>7. CASE Leave(s) /\ currentRequests' = currentRequests
  <2>1. /\ phase[s] = "leaving" /\ phase' = [phase EXCEPT ![s] = "out"]
        /\ currentRequests' = currentRequests /\ carried' = [carried EXCEPT ![s] = 0]
    BY <1>7 DEF Leave, Enter
  <2>2. InFlight' = InFlight
    BY <1>1, <2>1 DEF InFlight
  <2>3. \A q \in Slots : phase'[q] = "leaving" => carried'[q] \in 1 .. Cardinality(Slots)
    BY <1>1, <1>4, <2>1
  <2>4. phase' \in [Slots -> {"out", "in", "leaving"}] /\ carried' \in [Slots -> Int]
    BY <1>1, <2>1
  <2>. QED BY <1>1, <1>4, <2>1, <2>2, <2>3, <2>4 DEF CountExact
<1>. QED BY <1>5, <1>6, <1>7

(* A sample that does not probe was not due to: the next one is still      *)
(* within the longest interval (detector.go, shouldProbe).                 *)
LEMMA ProbeCountStep ==
  ASSUME TypeOK, LimitInRange, ~ProbeDue, probeCount' = probeCount + 1
  PROVE  BaselineExpires'
<1>1. /\ currentLimit \in Nat /\ currentLimit <= MaxLimit /\ MaxLimit \in Nat
      /\ probeCount \in Nat /\ ProbeFactor \in Nat
      /\ JitterUnit \in Nat /\ probeJitter \in Nat /\ probeJitter <= JitterUnit
  BY Types
<1>2. PICK m \in Nat : m = ProbeFactor * MaxLimit
  BY <1>1, ProductMonotone
<1>3. PICK p \in Nat : p = ProbeFactor * currentLimit /\ p <= m
  BY <1>1, <1>2, ProductMonotone
<1>4. (ProbeFactor * probeJitter) * currentLimit = probeJitter * p
  BY <1>1, <1>3
<1>5. probeJitter * p <= JitterUnit * m /\ probeJitter * p \in Nat /\ JitterUnit * m \in Nat
  BY <1>1, <1>3, ProductMonotone
<1>6. ~(m <= probeCount + 1)
  <2>. SUFFICES ASSUME m <= probeCount + 1 PROVE FALSE
    OBVIOUS
  <2>1. JitterUnit * m <= JitterUnit * (probeCount + 1) /\ JitterUnit * (probeCount + 1) \in Nat
    BY <1>1, ProductMonotone
  <2>2. ~(probeJitter * p <= JitterUnit * (probeCount + 1))
    BY <1>4 DEF ProbeDue
  <2>. QED BY <1>5, <2>1, <2>2
<1>. QED BY <1>1, <1>2, <1>6 DEF BaselineExpires

(* A positive response time joins what the baseline is the minimum of.     *)
LEMMA BaselineStep ==
  ASSUME TypeOK, LimitInRange, BaselineIsMinimum, NEW rtt \in Rtts, rtt > 0,
         \/ lowestRequestTime' = rtt /\ sinceProbe' = {rtt}
         \/ /\ rtt < lowestRequestTime /\ lowestRequestTime' = rtt
            /\ sinceProbe' = sinceProbe \cup {rtt}
         \/ /\ rtt >= lowestRequestTime /\ lowestRequestTime' = lowestRequestTime
            /\ sinceProbe' = sinceProbe \cup {rtt}
  PROVE  BaselineIsMinimum' /\ lowestRequestTime' \in Nat /\ sinceProbe' \subseteq Rtts
<1>1. /\ lowestRequestTime \in Nat /\ sinceProbe \subseteq Rtts
      /\ Rtts \subseteq Nat /\ MaxInt \in Nat /\ \A t \in Rtts : t < MaxInt
  BY Types
<1>2. CASE lowestRequestTime' = rtt /\ sinceProbe' = {rtt}
  BY <1>1, <1>2 DEF BaselineIsMinimum
<1>3. CASE /\ rtt < lowestRequestTime /\ lowestRequestTime' = rtt
           /\ sinceProbe' = sinceProbe \cup {rtt}
  <2>1. \A t \in sinceProbe : rtt <= t
    BY <1>1, <1>3 DEF BaselineIsMinimum
  <2>. QED BY <1>1, <1>3, <2>1 DEF BaselineIsMinimum
<1>4. CASE /\ rtt >= lowestRequestTime /\ lowestRequestTime' = lowestRequestTime
           /\ sinceProbe' = sinceProbe \cup {rtt}
  <2>1. sinceProbe # {}
    BY <1>1, <1>4 DEF BaselineIsMinimum
  <2>2. lowestRequestTime \in sinceProbe /\ \A t \in sinceProbe : lowestRequestTime <= t
    BY <2>1 DEF BaselineIsMinimum
  <2>. QED BY <1>1, <1>4, <2>2 DEF BaselineIsMinimum
<1>. QED BY <1>2, <1>3, <1>4

(* What an update may do to the limit, in the words of LimitMovesGently.   *)
GentleStep ==
  /\ LimitInRange'
  /\ \E b \in {1, BetaFactor} :
       currentLimit' - currentLimit <= b * log10Plus1(currentLimit)
  /\ currentLimit - currentLimit' <= log10Plus1(currentLimit)
  /\ currentLimit' < currentLimit =>
       \E t \in Rtts : t > lowestRequestTime /\ sinceProbe' = sinceProbe \cup {t}

(* Every step but the last of update leaves the limit where it was.        *)
LEMMA LimitStays ==
  ASSUME TypeOK, LimitInRange, currentLimit' = currentLimit
  PROVE  GentleStep /\ LimitInRange' /\ currentLimit' \in Int
<1>1. currentLimit \in Nat /\ currentLimit \in 1 .. MaxLimit /\ log10Plus1(currentLimit) \in 1 .. 10
  BY Types, LogRange
<1>2. currentLimit - currentLimit <= 1 * log10Plus1(currentLimit)
  BY <1>1
<1>. QED BY <1>1, <1>2 DEF GentleStep, LimitInRange

(* The last step of update: the limit is lowered only after a response     *)
(* slower than the baseline, since an equal one finds no queue.            *)
LEMMA LimitStep ==
  ASSUME TypeOK, LimitInRange, NEW s \in Slots, NEW rtt \in Rtts, UpdateLimit(s, rtt)
  PROVE  GentleStep /\ LimitInRange' /\ currentLimit' \in Int
<1>1. /\ currentLimit \in 1 .. MaxLimit /\ currentLimit \in Nat /\ lowestRequestTime \in Nat
      /\ rtt \in Nat \ {0} /\ lowestRequestTime <= rtt /\ sinceProbe' = sinceProbe \cup {rtt}
      /\ MaxLimit \in Nat
  BY Types DEF UpdateLimit, Sampled
<1>2. PICK q \in QueueSizes(currentLimit, lowestRequestTime, rtt) :
             currentLimit' = NewLimit(currentLimit, q)
  BY DEF UpdateLimit
<1>3. q \in Int /\ (lowestRequestTime = rtt => q = 0)
  BY <1>1, QueueSizeRange
<1>4. /\ currentLimit' \in 1 .. MaxLimit
      /\ \E b \in {1, BetaFactor} : currentLimit' - currentLimit <= b * log10Plus1(currentLimit)
      /\ currentLimit - currentLimit' <= log10Plus1(currentLimit)
      /\ currentLimit' < currentLimit => q > 1
  BY <1>1, <1>2, <1>3, NewLimitStep
<1>5. currentLimit' < currentLimit => rtt > lowestRequestTime
  <2>1. lowestRequestTime = rtt => ~(q > 1)
    BY <1>3
  <2>2. lowestRequestTime = rtt \/ rtt > lowestRequestTime
    BY <1>1
  <2>. QED BY <1>4, <2>1, <2>2
<1>6. LimitInRange'
  BY <1>4 DEF LimitInRange
<1>. QED BY <1>1, <1>4, <1>5, <1>6 DEF GentleStep

(* Every step of a detector preserves the invariant and is gentle.         *)
LEMMA DetectorStep ==
  ASSUME DetectorInv, [Next]_detectorVars
  PROVE  DetectorInv' /\ (detectorVars' = detectorVars \/ GentleStep)
<1>1. TypeOK /\ LimitInRange /\ CountExact /\ BaselineIsMinimum /\ BaselineExpires
  BY DEF DetectorInv
<1>2. /\ probeCount \in Nat /\ probeJitter \in Jitters /\ sinceProbe \subseteq Rtts
      /\ lowestRequestTime \in Nat
  BY <1>1 DEF TypeOK
<1>3. ASSUME NEW s \in Slots, RequestBegin(s) \/ RequestLeave(s) PROVE DetectorInv' /\ GentleStep
  <2>1. /\ CountExact' /\ currentRequests' \in Int /\ carried' \in [Slots -> Int]
        /\ phase' \in [Slots -> {"out", "in", "leaving"}]
    BY <1>1, <1>3, CountStep
  <2>2. UNCHANGED <<currentLimit, lowestRequestTime, probeCount, probeJitter, sinceProbe>>
    BY <1>3 DEF RequestBegin, RequestLeave
  <2>3. GentleStep /\ LimitInRange' /\ currentLimit' \in Int
    BY <1>1, <2>2, LimitStays
  <2>4. TypeOK'
    BY <1>2, <2>1, <2>2, <2>3 DEF TypeOK
  <2>5. BaselineIsMinimum' /\ BaselineExpires'
    BY <1>1, <2>2 DEF BaselineIsMinimum, BaselineExpires
  <2>. QED BY <2>1, <2>3, <2>4, <2>5 DEF DetectorInv
<1>4. ASSUME NEW s \in Slots, NEW rtt \in Rtts,
             \/ UpdateIgnored(s, rtt) \/ UpdateProbe(s, rtt)
             \/ UpdateLowest(s, rtt) \/ UpdateIdle(s, rtt) \/ UpdateLimit(s, rtt)
      PROVE  DetectorInv' /\ GentleStep
  <2>1. Leave(s) /\ currentRequests' = currentRequests
    BY <1>4 DEF UpdateIgnored, UpdateProbe, UpdateLowest, UpdateIdle, UpdateLimit, Sampled
  <2>2. /\ CountExact' /\ currentRequests' \in Int /\ carried' \in [Slots -> Int]
        /\ phase' \in [Slots -> {"out", "in", "leaving"}]
    BY <1>1, <2>1, CountStep
  <2>3. GentleStep /\ LimitInRange' /\ currentLimit' \in Int
    <3>1. CASE UpdateLimit(s, rtt)
      BY <1>1, <3>1, LimitStep
    <3>2. CASE UpdateIgnored(s, rtt) \/ UpdateProbe(s, rtt) \/ UpdateLowest(s, rtt) \/ UpdateIdle(s, rtt)
      <4>1. currentLimit' = currentLimit
        BY <3>2 DEF UpdateIgnored, UpdateProbe, UpdateLowest, UpdateIdle
      <4>. QED BY <1>1, <4>1, LimitStays
    <3>. QED BY <1>4, <3>1, <3>2
  <2>4. BaselineIsMinimum' /\ lowestRequestTime' \in Nat /\ sinceProbe' \subseteq Rtts
    <3>1. CASE UpdateIgnored(s, rtt)
      BY <1>1, <1>2, <3>1 DEF UpdateIgnored, BaselineIsMinimum
    <3>2. CASE UpdateProbe(s, rtt)
      BY <1>1, <3>2, BaselineStep DEF UpdateProbe
    <3>3. CASE UpdateLowest(s, rtt)
      BY <1>1, <3>3, BaselineStep DEF UpdateLowest, Sampled
    <3>4. CASE UpdateIdle(s, rtt) \/ UpdateLimit(s, rtt)
      BY <1>1, <3>4, BaselineStep DEF UpdateIdle, UpdateLimit, Sampled
    <3>. QED BY <1>4, <3>1, <3>2, <3>3, <3>4
  <2>5. BaselineExpires' /\ probeCount' \in Nat
    <3>1. CASE UpdateIgnored(s, rtt)
      BY <1>1, <1>2, <3>1 DEF UpdateIgnored, BaselineExpires
    <3>2. CASE UpdateProbe(s, rtt)
      BY <3>2, LongestInterval DEF UpdateProbe, BaselineExpires
    <3>3. CASE UpdateLowest(s, rtt) \/ UpdateIdle(s, rtt) \/ UpdateLimit(s, rtt)
      <4>1. ~ProbeDue /\ probeCount' = probeCount + 1
        BY <3>3 DEF UpdateLowest, UpdateIdle, UpdateLimit, Sampled
      <4>. QED BY <1>1, <1>2, <4>1, ProbeCountStep
    <3>. QED BY <1>4, <3>1, <3>2, <3>3
  <2>6. probeJitter' \in Jitters
    BY <1>2, <1>4 DEF UpdateIgnored, UpdateProbe, UpdateLowest, UpdateIdle, UpdateLimit
  <2>7. TypeOK'
    BY <2>2, <2>3, <2>4, <2>5, <2>6 DEF TypeOK
  <2>. QED BY <2>2, <2>3, <2>4, <2>5, <2>7 DEF DetectorInv
<1>5. CASE UNCHANGED detectorVars
  <2>1. InFlight' = InFlight
    BY <1>5 DEF detectorVars, InFlight
  <2>. QED BY <1>1, <1>5, <2>1 DEF DetectorInv, detectorVars, TypeOK, LimitInRange, CountExact,
              BaselineIsMinimum, BaselineExpires
<1>. QED BY <1>3, <1>4, <1>5 DEF Next, Update

-----------------------------------------------------------------------------
(* The inductive invariant holds throughout.                               *)
THEOREM DetectorInvariant == Spec => []DetectorInv
<1>1. Init => DetectorInv
  BY InitDetector
<1>2. DetectorInv /\ [Next]_detectorVars => DetectorInv'
  BY DetectorStep
<1>. QED BY <1>1, <1>2, PTL DEF Spec

(* "An exact count of in-flight requests" (detector.go:31): the atomic     *)
(* counter agrees with the calls between RequestBegin and RequestEnd, and  *)
(* the count an update works with always includes its own request.         *)
THEOREM CountIsExact == Spec => []CountExact
<1>1. DetectorInv => CountExact
  BY DEF DetectorInv
<1>. QED BY <1>1, DetectorInvariant, PTL

(* The baseline of the Vegas estimate (detector.go, update) is the         *)
(* smallest response time since the last probe, however the updates of     *)
(* overlapping requests are ordered.                                       *)
THEOREM BaselineIsTheMinimum == Spec => []BaselineIsMinimum
<1>1. DetectorInv => BaselineIsMinimum
  BY DEF DetectorInv
<1>. QED BY <1>1, DetectorInvariant, PTL

(* "A drifting minimum gets re-probed" (detector.go:104): between two      *)
(* probes there are fewer than ProbeFactor * MaxLimit samples, whatever the *)
(* jitter and while the limit itself moves.                                *)
THEOREM BaselineIsRenewed == Spec => []BaselineExpires
<1>1. DetectorInv => BaselineExpires
  BY DEF DetectorInv
<1>. QED BY <1>1, DetectorInvariant, PTL

(* One completion moves the limit by a bounded amount, lowers it only      *)
(* after a response slower than the baseline, and keeps it between 1 and   *)
(* cfg.MaxLimit (detector.go, update and setLimit).                        *)
THEOREM LimitIsGentle == Spec => LimitMovesGently
<1>1. DetectorInv /\ [Next]_detectorVars => [GentleStep]_detectorVars
  BY DetectorStep
<1>2. [][GentleStep]_detectorVars <=> LimitMovesGently
  BY PTL DEF LimitMovesGently, GentleStep
<1>. QED BY <1>1, <1>2, DetectorInvariant, PTL DEF Spec
=============================================================================
