------------------------ MODULE QuarkusShedderProofs ------------------------
(***************************************************************************)
(* quarkus.Shedder drives its detector as OverloadDetector demands, so the *)
(* theorems about a detector hold inside it; thresholds are computed no    *)
(* faster than the clock allows, and are fresh when they decide;           *)
(* priorities are never mixed by cohorts; and without priorities only      *)
(* overlapping calls of Admit exceed MaxLimit.                             *)
(***************************************************************************)
EXTENDS QuarkusShedder, TLAPS, FiniteSetTheorems

D == INSTANCE OverloadDetectorProofs

-----------------------------------------------------------------------------
(* The detector of the shedder is the one the theorems are about.          *)

(* Both name the same largest number,                                      *)
LEMMA SameMaxInt == Detector!MaxInt = D!MaxInt
BY SMT DEF Detector!MaxInt, D!MaxInt

(* count with the same cardinality,                                        *)
LEMMA SameCardinality ==
  \A S : Detector!Cardinality(S) = D!Cardinality(S) /\ D!Cardinality(S) = Cardinality(S)
BY DEF Detector!Cardinality, D!Cardinality, Cardinality

(* are configured alike,                                                   *)
LEMMA DetectorConfigured == D!DetectorAssumption
BY SameMaxInt, ShedderAssumption
   DEF Detector!DetectorAssumption, Detector!JitterRange, D!JitterRange,
       Detector!IsFiniteSet, D!IsFiniteSet

(* and move the limit alike.                                               *)
LEMMA SameNewLimit == \A limit, q : Detector!NewLimit(limit, q) = D!NewLimit(limit, q)
<1>1. \A n : Detector!log10Plus1(n) = D!log10Plus1(n)
  BY SameCardinality DEF Detector!log10Plus1, D!log10Plus1
<1>2. \A n : Detector!Clamped(n) = D!Clamped(n)
  BY DEF Detector!Clamped, D!Clamped
<1>. QED BY <1>1, <1>2 DEF Detector!NewLimit, D!NewLimit

(* The shedder's detector starts as a detector does,                       *)
LEMMA DetectorStarts == ASSUME Detector!Init PROVE D!Init
BY SameMaxInt DEF Detector!Init, D!Init

(* and each of its operations is one of a detector.                        *)
LEMMA DetectorMoves ==
  ASSUME NEW s \in Slots,
         Detector!RequestBegin(s) \/ Detector!RequestLeave(s) \/ Detector!Update(s)
  PROVE  D!Next
<1>1. CASE Detector!RequestBegin(s)
  <2>1. D!RequestBegin(s)
    BY <1>1 DEF Detector!RequestBegin, Detector!Enter, D!RequestBegin, D!Enter
  <2>. QED BY <2>1 DEF D!Next
<1>2. CASE Detector!RequestLeave(s)
  <2>1. D!RequestLeave(s)
    BY <1>2 DEF Detector!RequestLeave, Detector!Enter, D!RequestLeave, D!Enter
  <2>. QED BY <2>1 DEF D!Next
<1>3. CASE Detector!Update(s)
  <2>1. PICK rtt \in Rtts :
               \/ Detector!UpdateIgnored(s, rtt) \/ Detector!UpdateProbe(s, rtt)
               \/ Detector!UpdateLowest(s, rtt) \/ Detector!UpdateIdle(s, rtt)
               \/ Detector!UpdateLimit(s, rtt)
    BY <1>3 DEF Detector!Update
  <2>2. Detector!Leave(s) => D!Leave(s)
    BY DEF Detector!Leave, D!Leave, Detector!Enter, D!Enter
  <2>3. Detector!ProbeDue <=> D!ProbeDue
    BY DEF Detector!ProbeDue, D!ProbeDue
  <2>4. Detector!Sampled(s, rtt) => D!Sampled(s, rtt)
    BY <2>2, <2>3 DEF Detector!Sampled, D!Sampled
  <2>5. CASE Detector!UpdateIgnored(s, rtt)
    <3>1. D!UpdateIgnored(s, rtt)
      BY <2>2, <2>5 DEF Detector!UpdateIgnored, D!UpdateIgnored
    <3>. QED BY <3>1 DEF D!Next, D!Update
  <2>6. CASE Detector!UpdateProbe(s, rtt)
    <3>1. D!UpdateProbe(s, rtt)
      BY <2>2, <2>3, <2>6 DEF Detector!UpdateProbe, D!UpdateProbe
    <3>. QED BY <3>1 DEF D!Next, D!Update
  <2>7. CASE Detector!UpdateLowest(s, rtt)
    <3>1. D!UpdateLowest(s, rtt)
      BY <2>4, <2>7 DEF Detector!UpdateLowest, D!UpdateLowest
    <3>. QED BY <3>1 DEF D!Next, D!Update
  <2>8. CASE Detector!UpdateIdle(s, rtt)
    <3>1. D!UpdateIdle(s, rtt)
      BY <2>4, <2>8 DEF Detector!UpdateIdle, D!UpdateIdle
    <3>. QED BY <3>1 DEF D!Next, D!Update
  <2>9. CASE Detector!UpdateLimit(s, rtt)
    <3>1. Detector!QueueSizes(currentLimit, lowestRequestTime, rtt)
            = D!QueueSizes(currentLimit, lowestRequestTime, rtt)
      BY DEF Detector!QueueSizes, D!QueueSizes, Detector!CeilDiv, D!CeilDiv
    <3>2. D!UpdateLimit(s, rtt)
      BY <2>4, <2>9, <3>1, SameNewLimit DEF Detector!UpdateLimit, D!UpdateLimit
    <3>. QED BY <3>2 DEF D!Next, D!Update
  <2>. QED BY <2>1, <2>5, <2>6, <2>7, <2>8, <2>9
<1>. QED BY <1>1, <1>2, <1>3

-----------------------------------------------------------------------------
(* Scores (priority.go).                                                   *)

(* A cohort number is folded into 1..MaxCohort, whatever it is.            *)
LEMMA CohortFolded == ASSUME NEW c \in Int PROVE normalizeCohort(c) \in 1 .. MaxCohort
BY DEF normalizeCohort, MaxCohort

(* A score lies in the band of its priority.                               *)
LEMMA ScoreInBand ==
  ASSUME NEW s \in Slots
  PROVE  /\ Score(s) \in Nat /\ Priority[s] \in Nat
         /\ Priority[s] * MaxCohort < Score(s)
         /\ Score(s) <= (Priority[s] + 1) * MaxCohort
<1>1. Priority[s] \in Nat /\ Cohort[s] \in Int
  BY ShedderAssumption DEF numPriorities
<1>2. normalizeCohort(Cohort[s]) \in 1 .. MaxCohort
  BY <1>1, CohortFolded
<1>. QED BY <1>1, <1>2 DEF Score, MaxCohort

(* The threshold is a number for every load.                               *)
LEMMA ThresholdType == ASSUME NEW load \in CpuLoads PROVE Threshold(load) \in Int
<1>1. load \in Int
  BY ShedderAssumption
<1>2. PICK cube \in Int : cube = load * load * load
  BY <1>1
<1>. QED BY <1>1, <1>2 DEF Threshold, Max, numPriorities, MaxCohort

-----------------------------------------------------------------------------
(* The inductive invariant.                                                *)

(* Calls that do not overlap inside Admit: one at a time holds an old      *)
(* count, which the others have only lowered since, or a promise that      *)
(* there is room.                                                          *)
SingleFile ==
  /\ \A s, q \in Slots : InAdmit(s) /\ InAdmit(q) => s = q
  /\ \A s \in Slots : pc[s] = "loaded" => currentRequests <= seen[s]
  /\ \A s \in Slots : pc[s] = "admitted" => currentRequests < MaxLimit
  /\ currentRequests <= MaxLimit

RaceInv ==
  /\ \A s \in Slots : pc[s] = "stamped" => enabled
  /\ ~enabled /\ ~raced => SingleFile

(* The stamp of the threshold pays for every one that was computed, and    *)
(* until the clock is set back no stamp is ahead of the clock.             *)
ThresholdInv ==
  /\ Start <= now /\ now <= latest /\ lastThresholdTime <= latest
  /\ computations = 0 => lastThresholdTime = 0
  /\ computations > 0 => (computations - 1) * (Lifetime + 1) <= lastThresholdTime - Start
  /\ ~setBack => lastThresholdTime <= computedAt
  /\ \A s \in Slots : pc[s] = "stamped" =>
       /\ Start <= seen[s] /\ seen[s] <= latest
       /\ ~setBack => seen[s] <= now

AdmitTyped ==
  /\ pc \in [Slots -> PCs]
  /\ seen \in [Slots -> Nat]
  /\ now \in Nat /\ latest \in Nat /\ setBack \in BOOLEAN
  /\ lastThresholdTime \in Nat /\ lastThreshold \in Int
  /\ computations \in Nat /\ computedAt \in Nat
  /\ enabled \in BOOLEAN /\ raced \in BOOLEAN

ShedderInv == D!DetectorInv /\ AdmitTyped /\ ThresholdInv /\ RaceInv

(* What the detector's invariant says of the count and the limit.          *)
LEMMA DetectorFacts ==
  ASSUME D!DetectorInv
  PROVE  /\ currentRequests \in Nat /\ currentLimit \in Nat /\ MaxLimit \in Nat
         /\ currentLimit <= MaxLimit
<1>1. D!TypeOK /\ D!LimitInRange /\ D!CountExact /\ MaxLimit \in Nat
  BY DetectorConfigured DEF D!DetectorInv, D!DetectorAssumption
<1>2. currentRequests \in Int /\ currentLimit \in 1 .. MaxLimit
  BY <1>1 DEF D!TypeOK, D!LimitInRange
<1>3. Cardinality(D!InFlight) \in Nat
  <2>1. D!InFlight \subseteq Slots /\ D!IsFiniteSet(Slots)
    BY DetectorConfigured DEF D!InFlight, D!DetectorAssumption
  <2>2. IsFiniteSet(Slots)
    BY <2>1 DEF D!IsFiniteSet, IsFiniteSet
  <2>3. IsFiniteSet(D!InFlight)
    BY <2>1, <2>2, FS_Subset
  <2>. QED BY <2>3, FS_CardinalityType
<1>4. D!Cardinality(D!InFlight) \in Nat
  BY <1>3, SameCardinality
<1>. QED BY <1>1, <1>2, <1>4 DEF D!CountExact

(* A new shedder satisfies the invariant.                                  *)
LEMMA InitShedder == ASSUME Init PROVE ShedderInv
<1>1. D!DetectorInv
  BY DetectorStarts, DetectorConfigured, D!InitDetector DEF Init
<1>2. AdmitTyped
  <2>1. enabled \in BOOLEAN /\ raced \in BOOLEAN
    BY ShedderAssumption DEF Init
  <2>2. pc \in [Slots -> PCs] /\ seen \in [Slots -> Nat]
    BY DEF Init, PCs
  <2>3. /\ now \in Nat /\ latest \in Nat
        /\ lastThresholdTime \in Nat /\ lastThreshold \in Int
        /\ computations \in Nat /\ computedAt \in Nat
    BY SMT DEF Init, Start, Lifetime
  <2>4. setBack \in BOOLEAN
    BY DEF Init
  <2>. QED BY <2>1, <2>2, <2>3, <2>4 DEF AdmitTyped
<1>3. ThresholdInv
  BY DEF Init, ThresholdInv, Start, Lifetime
<1>4. RaceInv
  <2>1. currentRequests = 0 /\ MaxLimit \in Nat
    BY <1>1, DetectorFacts DEF Init, Detector!Init
  <2>2. \A s \in Slots : pc[s] = "out"
    BY DEF Init
  <2>. QED BY <2>1, <2>2 DEF RaceInv, SingleFile, InAdmit
<1>. QED BY <1>1, <1>2, <1>3, <1>4 DEF ShedderInv

(* The shedder touches its detector only through the detector's own        *)
(* operations.                                                             *)
LEMMA DetectorUsed ==
  ASSUME [Next]_vars
  PROVE  Detector!Next \/ UNCHANGED D!detectorVars
<1>1. CASE Tick \/ StepBack \/ UNCHANGED vars
  BY <1>1 DEF Tick, StepBack, vars, detectorVars, D!detectorVars
<1>2. ASSUME NEW s \in Slots,
             \/ LoadRequests(s) \/ CompareLimit(s) \/ ShedDisabled(s) \/ ReadClock(s)
             \/ Recompute(s) \/ Reuse(s) \/ Answer503(s)
      PROVE  UNCHANGED D!detectorVars
  BY <1>2 DEF LoadRequests, CompareLimit, ShedDisabled, ReadClock, Recompute, Reuse,
              Answer503, detectorVars, D!detectorVars
<1>3. ASSUME NEW s \in Slots, Begin(s) \/ End(s) \/ Update(s) PROVE Detector!Next
  BY <1>3 DEF Begin, End, Update, Detector!Next
<1>. QED BY <1>1, <1>2, <1>3 DEF Next

(* So that every step of the shedder is one of its detector or none.       *)
LEMMA DetectorOnly ==
  ASSUME [Next]_vars
  PROVE  [D!Next]_(D!detectorVars)
<1>1. Detector!Next => D!Next
  BY DetectorMoves DEF Detector!Next
<1>. QED BY <1>1, DetectorUsed

(* Every step keeps the types.                                             *)
LEMMA TypedStep == ASSUME D!DetectorInv, AdmitTyped, [Next]_vars PROVE AdmitTyped'
<1>1. /\ pc \in [Slots -> PCs] /\ seen \in [Slots -> Nat]
      /\ now \in Nat /\ latest \in Nat /\ setBack \in BOOLEAN
      /\ lastThresholdTime \in Nat /\ lastThreshold \in Int
      /\ computations \in Nat /\ computedAt \in Nat /\ enabled \in BOOLEAN /\ raced \in BOOLEAN
      /\ currentRequests \in Nat
  BY DetectorFacts DEF AdmitTyped
<1>2. CASE Tick \/ StepBack \/ UNCHANGED vars
  <2>1. now' \in Nat /\ latest' \in Nat
    BY <1>1, <1>2 DEF Tick, StepBack, vars, clockVars, Start, Lifetime
  <2>2. setBack' = setBack \/ setBack' = TRUE
    BY <1>2 DEF Tick, StepBack, vars, clockVars
  <2>3. UNCHANGED <<enabled, pc, seen, priorityVars, raced>>
    BY <1>2 DEF Tick, StepBack, vars
  <2>. QED BY <1>1, <2>1, <2>2, <2>3 DEF AdmitTyped, priorityVars
<1>3. ASSUME NEW s \in Slots,
             LoadRequests(s) \/ CompareLimit(s) \/ ShedDisabled(s) \/ ReadClock(s)
      PROVE  AdmitTyped'
  <2>1. pc' \in [Slots -> PCs]
    BY <1>1, <1>3 DEF LoadRequests, CompareLimit, ShedDisabled, ReadClock, Goto, PCs
  <2>2. seen' \in [Slots -> Nat]
    BY <1>1, <1>3 DEF LoadRequests, CompareLimit, ShedDisabled, ReadClock, Remember
  <2>3. raced' \in BOOLEAN
    BY <1>1, <1>3 DEF LoadRequests, CompareLimit, ShedDisabled, ReadClock
  <2>4. UNCHANGED <<enabled, clockVars, priorityVars>>
    BY <1>3 DEF LoadRequests, CompareLimit, ShedDisabled, ReadClock
  <2>. QED BY <1>1, <2>1, <2>2, <2>3, <2>4 DEF AdmitTyped, priorityVars, clockVars
<1>4. ASSUME NEW s \in Slots, Recompute(s) \/ Reuse(s) PROVE AdmitTyped'
  <2>1. pc' \in [Slots -> PCs] /\ seen' \in [Slots -> Nat]
    BY <1>1, <1>4 DEF Recompute, Reuse, Decide, Goto, Remember, PCs
  <2>2. UNCHANGED <<enabled, clockVars, raced>>
    BY <1>4 DEF Recompute, Reuse
  <2>3. /\ lastThreshold' \in Int /\ lastThresholdTime' \in Nat
        /\ computations' \in Nat /\ computedAt' \in Nat
    BY <1>1, <1>4, ThresholdType DEF Recompute, Reuse, priorityVars
  <2>. QED BY <1>1, <2>1, <2>2, <2>3 DEF AdmitTyped, clockVars
<1>5. ASSUME NEW s \in Slots, Begin(s) \/ End(s) \/ Update(s) \/ Answer503(s) PROVE AdmitTyped'
  <2>1. pc' \in [Slots -> PCs]
    BY <1>1, <1>5 DEF Begin, End, Update, Answer503, Goto, PCs
  <2>2. UNCHANGED <<enabled, seen, clockVars, priorityVars, raced>>
    BY <1>5 DEF Begin, End, Update, Answer503
  <2>. QED BY <1>1, <2>1, <2>2 DEF AdmitTyped, priorityVars, clockVars
<1>. QED BY <1>2, <1>3, <1>4, <1>5 DEF Next

(* The step of a call that keeps its thresholds, its clock and every stamp *)
(* but perhaps its own keeps their invariant.                              *)
LEMMA StampsKeep ==
  ASSUME AdmitTyped, ThresholdInv, UNCHANGED <<priorityVars, clockVars>>, NEW s \in Slots,
         \A q \in Slots \ {s} : pc'[q] = pc[q] /\ seen'[q] = seen[q],
         pc'[s] = "stamped" => seen'[s] = now
  PROVE  ThresholdInv'
<1>1. now \in Nat /\ latest \in Nat
  BY DEF AdmitTyped
<1>2. ASSUME NEW q \in Slots, pc'[q] = "stamped"
      PROVE  /\ Start <= seen'[q] /\ seen'[q] <= latest
             /\ ~setBack => seen'[q] <= now
  <2>1. CASE q = s
    BY <1>1, <1>2, <2>1 DEF ThresholdInv
  <2>2. CASE q # s
    BY <1>2, <2>2 DEF ThresholdInv
  <2>. QED BY <2>1, <2>2
<1>. QED BY <1>2 DEF ThresholdInv, priorityVars, clockVars

(* A threshold is stamped later, by more than Lifetime, than the one it    *)
(* replaces, whatever the clock and the lock did meanwhile.                *)
LEMMA ThresholdStep == ASSUME AdmitTyped, ThresholdInv, [Next]_vars PROVE ThresholdInv'
<1>1. /\ pc \in [Slots -> PCs] /\ seen \in [Slots -> Nat]
      /\ now \in Nat /\ latest \in Nat /\ setBack \in BOOLEAN
      /\ lastThresholdTime \in Nat /\ computations \in Nat /\ computedAt \in Nat
  BY DEF AdmitTyped
<1>2. CASE Tick \/ StepBack
  <2>1. UNCHANGED <<pc, seen, lastThresholdTime, computations, computedAt>>
    BY <1>2 DEF Tick, StepBack, priorityVars
  <2>2. /\ Start <= now' /\ now' <= latest' /\ latest <= latest'
        /\ now' \in Nat /\ latest' \in Nat
        /\ ~setBack' => ~setBack /\ now <= now'
    BY <1>1, <1>2 DEF Tick, StepBack, ThresholdInv, Start, Lifetime
  <2>3. ASSUME NEW s \in Slots, pc[s] = "stamped"
        PROVE  /\ Start <= seen[s] /\ seen[s] <= latest'
               /\ ~setBack' => seen[s] <= now'
    BY <1>1, <2>2, <2>3 DEF ThresholdInv
  <2>4. lastThresholdTime <= latest'
    BY <1>1, <2>2 DEF ThresholdInv
  <2>. QED BY <2>1, <2>2, <2>3, <2>4 DEF ThresholdInv
<1>3. CASE UNCHANGED vars
  BY <1>3 DEF vars, priorityVars, clockVars, ThresholdInv
<1>4. ASSUME NEW s \in Slots,
             \/ LoadRequests(s) \/ CompareLimit(s) \/ ShedDisabled(s) \/ ReadClock(s)
             \/ Reuse(s) \/ Begin(s) \/ End(s) \/ Update(s) \/ Answer503(s)
      PROVE  ThresholdInv'
  <2>1. CASE Update(s)
    BY <2>1 DEF Update, ThresholdInv, priorityVars, clockVars
  <2>2. CASE ~Update(s)
    <3>1. /\ UNCHANGED <<priorityVars, clockVars>>
          /\ \A q \in Slots \ {s} : pc'[q] = pc[q] /\ seen'[q] = seen[q]
      BY <1>1, <1>4, <2>2 DEF LoadRequests, CompareLimit, ShedDisabled, ReadClock, Reuse, Decide,
         Begin, End, Answer503, Goto, Remember
    <3>2. pc'[s] = "stamped" => seen'[s] = now
      BY <1>1, <1>4, <2>2 DEF LoadRequests, CompareLimit, ShedDisabled, ReadClock, Reuse, Decide,
         Begin, End, Answer503, Goto, Remember
    <3>. QED BY <3>1, <3>2, StampsKeep
  <2>. QED BY <2>1, <2>2
<1>5. ASSUME NEW s \in Slots, Recompute(s) PROVE ThresholdInv'
  <2>1. /\ seen[s] \in Nat /\ seen[s] - lastThresholdTime > Lifetime
        /\ lastThresholdTime' = seen[s]
        /\ computations' = computations + 1 /\ computedAt' = now
        /\ UNCHANGED clockVars /\ pc[s] = "stamped" /\ pc'[s] # "stamped"
        /\ \A q \in Slots \ {s} : pc'[q] = pc[q] /\ seen'[q] = seen[q]
    BY <1>1, <1>5 DEF Recompute, Stale, Decide, Goto, Remember
  <2>2. /\ Start <= seen[s] /\ seen[s] <= latest
        /\ ~setBack => seen[s] <= now
    BY <2>1 DEF ThresholdInv
  <2>3. computations * (Lifetime + 1) <= seen[s] - Start
    BY <1>1, <2>1, <2>2 DEF ThresholdInv, Start, Lifetime
  <2>4. computations' # 0 /\ computations' - 1 = computations
    BY <1>1, <2>1
  <2>. QED BY <2>1, <2>2, <2>3, <2>4 DEF ThresholdInv, clockVars
<1>. QED BY <1>2, <1>3, <1>4, <1>5 DEF Next

(* Who is decided was given a threshold computed no more than Lifetime     *)
(* before it read the clock, unless the clock was set back.                *)
LEMMA FreshStep ==
  ASSUME AdmitTyped, ThresholdInv, [Next]_vars, NEW s \in Slots,
         pc[s] = "stamped", pc'[s] # "stamped", ~setBack
  PROVE  seen[s] - computedAt' <= Lifetime
<1>1. /\ seen[s] \in Nat /\ now \in Nat /\ lastThresholdTime \in Nat /\ computedAt \in Nat
      /\ seen[s] <= now /\ lastThresholdTime <= computedAt
      /\ pc \in [Slots -> PCs]
  BY DEF AdmitTyped, ThresholdInv
<1>2. PICK q \in Slots :
        \/ LoadRequests(q) \/ CompareLimit(q) \/ ShedDisabled(q) \/ ReadClock(q)
        \/ Recompute(q) \/ Reuse(q) \/ Begin(q) \/ End(q) \/ Update(q) \/ Answer503(q)
  BY DEF Next, vars, Tick, StepBack
<1>3. q = s /\ (Recompute(s) \/ Reuse(s))
  BY <1>1, <1>2 DEF LoadRequests, CompareLimit, ShedDisabled, ReadClock, Recompute, Reuse, Decide,
     Begin, End, Update, Answer503, Goto
<1>4. CASE Recompute(s)
  BY <1>1, <1>4 DEF Recompute, Lifetime
<1>5. CASE Reuse(s)
  BY <1>1, <1>5 DEF Reuse, Stale, priorityVars, Lifetime
<1>. QED BY <1>3, <1>4, <1>5

-----------------------------------------------------------------------------
(* One call of Admit at a time.                                            *)

(* Who is stamped has priorities to be scored by.                          *)
LEMMA StampedStep ==
  ASSUME AdmitTyped, RaceInv, [Next]_vars
  PROVE  (\A s \in Slots : pc[s] = "stamped" => enabled)' /\ enabled' = enabled
<1>1. pc \in [Slots -> PCs] /\ \A s \in Slots : pc[s] = "stamped" => enabled
  BY DEF AdmitTyped, RaceInv
<1>2. CASE Tick \/ StepBack \/ UNCHANGED vars
  BY <1>1, <1>2 DEF Tick, StepBack, vars
<1>3. ASSUME NEW s \in Slots,
             \/ LoadRequests(s) \/ CompareLimit(s) \/ ShedDisabled(s) \/ ReadClock(s)
             \/ Recompute(s) \/ Reuse(s) \/ Begin(s) \/ End(s) \/ Update(s) \/ Answer503(s)
      PROVE  (\A q \in Slots : pc[q] = "stamped" => enabled)' /\ enabled' = enabled
  <2>1. enabled' = enabled
    BY <1>3 DEF LoadRequests, CompareLimit, ShedDisabled, ReadClock, Recompute, Reuse,
                Begin, End, Update, Answer503
  <2>2. ASSUME NEW q \in Slots, pc'[q] = "stamped" PROVE pc[q] = "stamped" \/ enabled
    BY <1>1, <1>3, <2>2 DEF LoadRequests, CompareLimit, ShedDisabled, ReadClock, Recompute,
                Reuse, Decide, Begin, End, Update, Answer503, Goto, PCs
  <2>. QED BY <1>1, <2>1, <2>2
<1>. QED BY <1>2, <1>3 DEF Next

(* A step that counts nobody in, raises no old count and puts nobody       *)
(* inside Admit who was not, keeps the calls in single file.               *)
LEMMA QuietStep ==
  ASSUME D!DetectorInv, AdmitTyped, SingleFile,
         currentRequests' \in Int, currentRequests' <= currentRequests,
         \A q \in Slots : /\ InAdmit(q)' => InAdmit(q)
                          /\ pc'[q] = "loaded" => pc[q] = "loaded" /\ seen'[q] = seen[q]
                          /\ pc'[q] = "admitted" => pc[q] = "admitted"
  PROVE  SingleFile'
<1>1. currentRequests \in Nat /\ MaxLimit \in Nat /\ seen \in [Slots -> Nat]
  BY DetectorFacts DEF AdmitTyped
<1>2. PICK c \in Int : c = currentRequests'
  OBVIOUS
<1>3. c <= currentRequests
  BY <1>2
<1>4. /\ \A s, q \in Slots : InAdmit(s)' /\ InAdmit(q)' => s = q
      /\ \A s \in Slots : pc'[s] = "loaded" => c <= seen'[s]
      /\ \A s \in Slots : pc'[s] = "admitted" => c < MaxLimit
      /\ c <= MaxLimit
  BY <1>1, <1>3 DEF SingleFile
<1>. QED BY <1>2, <1>4 DEF SingleFile

(* Without priorities, calls that do not overlap stay in single file.      *)
LEMMA SingleFileStep ==
  ASSUME D!DetectorInv, AdmitTyped, RaceInv, ~enabled, ~raced, SingleFile,
         [Next]_vars, ~raced'
  PROVE  SingleFile'
<1>1. /\ pc \in [Slots -> PCs] /\ seen \in [Slots -> Nat]
      /\ currentRequests \in Nat /\ currentLimit \in Nat /\ MaxLimit \in Nat
      /\ currentLimit <= MaxLimit
  BY DetectorFacts DEF AdmitTyped
<1>2. /\ \A s, q \in Slots : InAdmit(s) /\ InAdmit(q) => s = q
      /\ \A s \in Slots : pc[s] = "loaded" => currentRequests <= seen[s]
      /\ \A s \in Slots : pc[s] = "admitted" => currentRequests < MaxLimit
      /\ currentRequests <= MaxLimit
  BY DEF SingleFile
<1>3. CASE Tick \/ StepBack \/ UNCHANGED vars
  <2>1. UNCHANGED <<pc, seen, currentRequests>>
    BY <1>3 DEF Tick, StepBack, vars, detectorVars
  <2>. QED BY <1>1, <2>1, QuietStep DEF InAdmit
<1>4. ASSUME NEW s \in Slots, LoadRequests(s) PROVE SingleFile'
  <2>1. /\ pc' = [pc EXCEPT ![s] = "loaded"] /\ seen' = [seen EXCEPT ![s] = currentRequests]
        /\ currentRequests' = currentRequests
        /\ \A q \in Slots \ {s} : ~InAdmit(q)
    BY <1>4 DEF LoadRequests, Goto, Remember, detectorVars
  <2>2. \A q \in Slots : InAdmit(q)' => q = s
    BY <1>1, <2>1 DEF InAdmit
  <2>3. \A q \in Slots : pc'[q] = "loaded" => currentRequests' <= seen'[q]
    BY <1>1, <1>2, <2>1
  <2>4. \A q \in Slots : pc'[q] = "admitted" => currentRequests' < MaxLimit
    BY <1>1, <1>2, <2>1
  <2>. QED BY <1>2, <2>1, <2>2, <2>3, <2>4 DEF SingleFile
<1>5. ASSUME NEW s \in Slots, CompareLimit(s) PROVE SingleFile'
  <2>1. /\ pc[s] = "loaded"
        /\ pc' = [pc EXCEPT ![s] = IF seen[s] >= currentLimit THEN "overloaded" ELSE "admitted"]
        /\ seen' = [seen EXCEPT ![s] = 0] /\ currentRequests' = currentRequests
    BY <1>5 DEF CompareLimit, Goto, Remember, detectorVars
  <2>2. \A q \in Slots : InAdmit(q)' => InAdmit(q)
    BY <1>1, <2>1 DEF InAdmit
  <2>3. \A q \in Slots : pc'[q] = "loaded" => currentRequests' <= seen'[q]
    BY <1>1, <1>2, <2>1
  <2>4. \A q \in Slots : pc'[q] = "admitted" => currentRequests' < MaxLimit
    <3>1. pc'[s] = "admitted" => currentRequests < MaxLimit
      BY <1>1, <1>2, <2>1
    <3>2. \A q \in Slots \ {s} : pc'[q] = pc[q]
      BY <1>1, <2>1
    <3>. QED BY <1>2, <2>1, <3>1, <3>2
  <2>. QED BY <1>2, <2>1, <2>2, <2>3, <2>4 DEF SingleFile
<1>6. ASSUME NEW s \in Slots, Begin(s) PROVE SingleFile'
  <2>1. /\ pc[s] = "admitted" /\ pc' = [pc EXCEPT ![s] = "in"]
        /\ currentRequests' = currentRequests + 1 /\ seen' = seen
    BY <1>6 DEF Begin, Goto, Detector!RequestBegin
  <2>2. \A q \in Slots : ~InAdmit(q)'
    BY <1>1, <1>2, <2>1 DEF InAdmit
  <2>3. currentRequests' <= MaxLimit
    BY <1>1, <1>2, <2>1
  <2>4. \A q \in Slots : pc'[q] # "loaded" /\ pc'[q] # "admitted"
    BY <2>2 DEF InAdmit
  <2>. QED BY <2>2, <2>3, <2>4 DEF SingleFile
<1>7. ASSUME NEW s \in Slots, ShedDisabled(s) \/ End(s) \/ Answer503(s) \/ Update(s)
      PROVE  SingleFile'
  <2>1. seen' = seen
    BY <1>7 DEF ShedDisabled, End, Answer503, Update
  <2>2. currentRequests' = currentRequests \/ currentRequests' = currentRequests - 1
    BY <1>7 DEF ShedDisabled, End, Answer503, Update, detectorVars, Detector!RequestLeave,
                Detector!Update, Detector!UpdateIgnored, Detector!UpdateProbe,
                Detector!UpdateLowest, Detector!UpdateIdle, Detector!UpdateLimit
  <2>3. currentRequests' \in Int /\ currentRequests' <= currentRequests
    BY <1>1, <2>2
  <2>4. \A q \in Slots : pc'[q] = pc[q] \/ pc'[q] \in {"out", "shed"}
    BY <1>1, <1>7 DEF ShedDisabled, End, Answer503, Update, Goto
  <2>. QED BY <2>1, <2>3, <2>4, QuietStep DEF InAdmit
<1>8. \A s \in Slots : ~ReadClock(s) /\ ~Recompute(s) /\ ~Reuse(s)
  BY DEF ReadClock, Recompute, Reuse, Decide, Goto, RaceInv
<1>. QED BY <1>3, <1>4, <1>5, <1>6, <1>7, <1>8 DEF Next

(* Once calls overlapped, they are known to have.                          *)
LEMMA RaceStep ==
  ASSUME D!DetectorInv, AdmitTyped, RaceInv, [Next]_vars
  PROVE  RaceInv'
<1>1. (\A s \in Slots : pc[s] = "stamped" => enabled)' /\ enabled' = enabled
  BY StampedStep
<1>2. raced => raced'
  BY DEF Next, vars, Tick, StepBack, LoadRequests, CompareLimit, ShedDisabled, ReadClock,
         Recompute, Reuse, Begin, End, Update, Answer503
<1>3. ASSUME ~enabled', ~raced' PROVE SingleFile'
  BY <1>1, <1>2, <1>3, SingleFileStep DEF RaceInv
<1>. QED BY <1>1, <1>3 DEF RaceInv

-----------------------------------------------------------------------------
(* The inductive invariant holds throughout.                               *)
THEOREM ShedderInvariant == Spec => []ShedderInv
<1>1. Init => ShedderInv
  BY InitShedder
<1>2. ShedderInv /\ [Next]_vars => ShedderInv'
  <2>1. ASSUME ShedderInv, [Next]_vars PROVE ShedderInv'
    <3>1. D!DetectorInv'
      BY <2>1, DetectorOnly, DetectorConfigured, D!DetectorStep DEF ShedderInv
    <3>. QED BY <2>1, <3>1, TypedStep, ThresholdStep, RaceStep DEF ShedderInv
  <2>. QED BY <2>1
<1>. QED BY <1>1, <1>2, PTL DEF Spec

(* A shedder runs its detector as a detector may be run (shedder.go,       *)
(* Admit and done): whatever holds of every detector holds of this one.    *)
THEOREM ShedderRunsDetector == Spec => Detector!Spec /\ D!Spec
<1>1. Init => Detector!Init /\ D!Init
  BY DetectorStarts DEF Init
<1>2. [Next]_vars => [D!Next]_(D!detectorVars)
  BY DetectorOnly
<1>3. [Next]_vars => [Detector!Next]_(Detector!detectorVars)
  <2>1. [Next]_vars => Detector!Next \/ UNCHANGED D!detectorVars
    BY DetectorUsed
  <2>. QED BY <2>1 DEF Detector!detectorVars, D!detectorVars
<1>. QED BY <1>1, <1>2, <1>3, PTL DEF Spec, D!Spec, Detector!Spec

(* Thresholds (priority.go, ShedLoad) are computed no faster than one per  *)
(* second of the clock after the first, whatever the order in which calls  *)
(* that read the clock early reach the lock, and however often the clock   *)
(* is set back.                                                            *)
THEOREM ThresholdRateBounded == Spec => []ThresholdRate
<1>1. ASSUME AdmitTyped, ThresholdInv PROVE ThresholdRate
  <2>1. /\ computations \in Nat /\ lastThresholdTime \in Nat /\ latest \in Nat
        /\ lastThresholdTime <= latest
        /\ computations > 0 => (computations - 1) * (Lifetime + 1) <= lastThresholdTime - Start
    BY <1>1 DEF AdmitTyped, ThresholdInv
  <2>. QED BY <2>1 DEF ThresholdRate, Lifetime, Start
<1>2. ShedderInv => ThresholdRate
  BY <1>1 DEF ShedderInv
<1>. QED BY <1>2, ShedderInvariant, PTL

(* While the clock is not set back, a call is decided by a threshold no    *)
(* more than a second older than its own reading of the clock              *)
(* (priority.go:116-129).                                                  *)
THEOREM ThresholdsAreFresh == Spec => DecidesByFreshThreshold
<1>. DEFINE Fresh == \A s \in Slots :
                       pc[s] = "stamped" /\ pc'[s] # "stamped" /\ ~setBack =>
                         seen[s] - computedAt' <= Lifetime
<1>1. ShedderInv /\ [Next]_vars => [Fresh]_vars
  BY FreshStep DEF ShedderInv
<1>. QED BY <1>1, ShedderInvariant, PTL DEF Spec, DecidesByFreshThreshold

(* No cohort number lifts a request over one of another priority, and no   *)
(* threshold sheds the more important of two requests alone (priority.go,  *)
(* normalizeCohort and ShedLoad).                                          *)
THEOREM PrioritiesApart == Spec => []BandsDisjoint
<1>1. ASSUME AdmitTyped, NEW s \in Slots, NEW q \in Slots, Priority[s] < Priority[q]
      PROVE  Score(s) < Score(q) /\ (Sheds(s, lastThreshold) => Sheds(q, lastThreshold))
  <2>1. /\ Score(s) \in Nat /\ Priority[s] \in Nat /\ Score(s) <= (Priority[s] + 1) * MaxCohort
        /\ Score(q) \in Nat /\ Priority[q] \in Nat /\ Priority[q] * MaxCohort < Score(q)
    BY ScoreInBand
  <2>2. (Priority[s] + 1) * MaxCohort <= Priority[q] * MaxCohort
    BY <1>1, <2>1 DEF MaxCohort
  <2>3. Score(s) < Score(q)
    BY <2>1, <2>2 DEF MaxCohort
  <2>4. lastThreshold \in Int
    BY <1>1 DEF AdmitTyped
  <2>. QED BY <2>1, <2>3, <2>4 DEF Sheds
<1>2. ShedderInv => BandsDisjoint
  BY <1>1 DEF ShedderInv, BandsDisjoint
<1>. QED BY <1>2, ShedderInvariant, PTL

(* Without priorities the concurrency passes MaxLimit only if two calls    *)
(* were inside Admit at once (shedder.go: IsOverloaded and RequestBegin    *)
(* are two steps), however the limit moves meanwhile.                      *)
THEOREM OvershootNeedsRace == Spec => []OvershootsOnlyByRace
<1>1. ShedderInv => OvershootsOnlyByRace
  BY DEF ShedderInv, RaceInv, SingleFile, OvershootsOnlyByRace
<1>. QED BY <1>1, ShedderInvariant, PTL
=============================================================================
