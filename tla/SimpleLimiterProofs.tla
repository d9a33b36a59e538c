------------------------ MODULE SimpleLimiterProofs ------------------------
(***************************************************************************)
(* SimpleLimiter keeps the concurrency of admitted calls within the limit  *)
(* for every number of calls and every set of limits, although it reads    *)
(* the counter and the limit in two steps and takes no lock.               *)
(***************************************************************************)
EXTENDS SimpleLimiter, TLAPS, FiniteSetTheorems

(* The calls counted in that saw a counter of k or less.                   *)
Early(k) == {c \in Counted : current[c] <= k}

(* The argument: a call that enters last sees the counter at its highest,  *)
(* so that at most k calls inside can have seen k or less.                 *)
Ranks == \A k \in Nat : Cardinality(Early(k)) <= k

LimiterInv == TypeOK /\ InflightExact /\ Ranks /\ AdmittedUnderLimit

(* Sets of calls are finite.                                               *)
LEMMA CallSetsFinite ==
  ASSUME NEW S \in SUBSET Calls
  PROVE  IsFiniteSet(S) /\ Cardinality(S) \in Nat
BY SimpleLimiterAssumption, FS_Subset, FS_CardinalityType

(* Every step keeps the types.                                             *)
LEMMA TypeStep ==
  ASSUME TypeOK, NEW c \in Calls, Step(c)
  PROVE  TypeOK'
<1>. USE DEF TypeOK, Places, Move
<1>1. CASE CountIn(c)  BY <1>1 DEF CountIn
<1>2. CASE Admit(c)    BY <1>2 DEF Admit
<1>3. CASE Exceed(c)   BY <1>3 DEF Exceed
<1>4. CASE CountOut(c) BY <1>4 DEF CountOut
<1>5. CASE Finish(c)   BY <1>5 DEF Finish, limiterVars
<1>6. CASE Sample(c)   BY <1>6 DEF Sample
<1>. QED BY <1>1, <1>2, <1>3, <1>4, <1>5, <1>6 DEF Step

(* A step counts its call in, counts it out, or leaves the counter alone;  *)
(* only the first gives a call a rank.                                     *)
LEMMA CountedStep ==
  ASSUME TypeOK, NEW c \in Calls, Step(c)
  PROVE  \/ /\ Counted' = Counted \cup {c} /\ c \notin Counted
            /\ inflight' = inflight + 1
            /\ current' = [current EXCEPT ![c] = inflight + 1]
         \/ /\ Counted' = Counted \ {c} /\ c \in Counted
            /\ inflight' = inflight - 1
            /\ current' = current
         \/ Counted' = Counted /\ inflight' = inflight /\ current' = current
<1>. USE DEF TypeOK, Places, Move, Counted
<1>1. CASE CountIn(c)  BY <1>1 DEF CountIn
<1>2. CASE Admit(c)    BY <1>2 DEF Admit
<1>3. CASE Exceed(c)   BY <1>3 DEF Exceed
<1>4. CASE CountOut(c) BY <1>4 DEF CountOut
<1>5. CASE Finish(c)   BY <1>5 DEF Finish, Issued, limiterVars
<1>6. CASE Sample(c)   BY <1>6 DEF Sample
<1>. QED BY <1>1, <1>2, <1>3, <1>4, <1>5, <1>6 DEF Step

(* The counter stays exact.                                                *)
LEMMA ExactStep ==
  ASSUME TypeOK, InflightExact, NEW c \in Calls, Step(c)
  PROVE  InflightExact'
<1>1. Counted \subseteq Calls
  BY DEF Counted
<1>2. IsFiniteSet(Counted) /\ Cardinality(Counted) \in Nat
  BY <1>1, CallSetsFinite
<1>3. CASE Counted' = Counted \cup {c} /\ c \notin Counted /\ inflight' = inflight + 1
  BY <1>2, <1>3, FS_AddElement DEF InflightExact
<1>4. CASE Counted' = Counted \ {c} /\ c \in Counted /\ inflight' = inflight - 1
  BY <1>2, <1>4, FS_RemoveElement DEF InflightExact
<1>5. CASE Counted' = Counted /\ inflight' = inflight
  BY <1>5 DEF InflightExact
<1>. QED BY <1>3, <1>4, <1>5, CountedStep

(* A call that is counted in gets the highest rank of all, and leaving     *)
(* only thins the ranks out.                                               *)
LEMMA RanksStep ==
  ASSUME TypeOK, InflightExact, Ranks, NEW c \in Calls, Step(c)
  PROVE  Ranks'
<1>. SUFFICES ASSUME NEW k \in Nat PROVE Cardinality(Early(k)') <= k
  BY DEF Ranks
<1>1. Counted \subseteq Calls /\ Early(k) \subseteq Calls /\ Early(k)' \subseteq Calls
  BY DEF Counted, Early
<1>2. /\ IsFiniteSet(Counted) /\ Cardinality(Counted) \in Nat
      /\ IsFiniteSet(Early(k)) /\ Cardinality(Early(k)) \in Nat
      /\ IsFiniteSet(Early(k)') /\ Cardinality(Early(k)') \in Nat
  BY <1>1, CallSetsFinite
<1>3. Cardinality(Early(k)) <= k
  BY DEF Ranks
<1>4. CASE Counted' = Counted \cup {c} /\ c \notin Counted
           /\ current' = [current EXCEPT ![c] = inflight + 1]
  <2>1. current'[c] = Cardinality(Counted) + 1
    BY <1>4 DEF InflightExact, TypeOK
  <2>2. CASE k >= Cardinality(Counted) + 1
    <3>1. Early(k)' \subseteq Counted \cup {c}
      BY <1>4 DEF Early
    <3>2. /\ IsFiniteSet(Counted \cup {c})
          /\ Cardinality(Counted \cup {c}) = Cardinality(Counted) + 1
      BY <1>2, <1>4, FS_AddElement
    <3>3. Cardinality(Early(k)') <= Cardinality(Counted \cup {c})
      BY <3>1, <3>2, FS_Subset
    <3>. QED BY <1>2, <2>2, <3>2, <3>3
  <2>3. CASE k < Cardinality(Counted) + 1
    <3>1. Early(k)' \subseteq Early(k)
      BY <1>2, <1>4, <2>1, <2>3 DEF Early, TypeOK, Counted
    <3>2. Cardinality(Early(k)') <= Cardinality(Early(k))
      BY <1>2, <3>1, FS_Subset
    <3>. QED BY <1>2, <1>3, <3>2
  <2>. QED BY <1>2, <2>2, <2>3
<1>5. CASE Counted' \subseteq Counted /\ current' = current
  <2>1. Early(k)' \subseteq Early(k)
    BY <1>5 DEF Early
  <2>2. Cardinality(Early(k)') <= Cardinality(Early(k))
    BY <1>2, <2>1, FS_Subset
  <2>. QED BY <1>2, <1>3, <2>2
<1>. QED BY <1>4, <1>5, CountedStep

(* Only Admit makes a holder, and it has just compared with a limit.       *)
LEMMA AdmittedStep ==
  ASSUME TypeOK, AdmittedUnderLimit, NEW c \in Calls, Step(c)
  PROVE  AdmittedUnderLimit'
<1>. USE DEF TypeOK, Places, Move, Holders, AdmittedUnderLimit
<1>1. CASE CountIn(c)  BY <1>1 DEF CountIn
<1>2. CASE Admit(c)    BY <1>2 DEF Admit
<1>3. CASE Exceed(c)   BY <1>3 DEF Exceed
<1>4. CASE CountOut(c) BY <1>4 DEF CountOut
<1>5. CASE Finish(c)   BY <1>5 DEF Finish, limiterVars
<1>6. CASE Sample(c)   BY <1>6 DEF Sample
<1>. QED BY <1>1, <1>2, <1>3, <1>4, <1>5, <1>6 DEF Step

(* The inductive invariant holds in every reachable state.                 *)
LEMMA LimiterInvariant == Spec => []LimiterInv
<1>1. Init => LimiterInv
  <2>. SUFFICES ASSUME Init PROVE LimiterInv
    OBVIOUS
  <2>1. TypeOK
    BY DEF Init, TypeOK, Places
  <2>2. Counted = {} /\ Holders = {}
    BY DEF Init, Counted, Holders
  <2>3. InflightExact
    BY <2>2, FS_EmptySet DEF Init, InflightExact
  <2>4. Ranks
    <3>. SUFFICES ASSUME NEW k \in Nat PROVE Cardinality(Early(k)) <= k
      BY DEF Ranks
    <3>1. Early(k) = {}
      BY <2>2 DEF Early
    <3>. QED BY <3>1, FS_EmptySet
  <2>5. AdmittedUnderLimit
    BY <2>2 DEF AdmittedUnderLimit
  <2>. QED BY <2>1, <2>3, <2>4, <2>5 DEF LimiterInv
<1>2. LimiterInv /\ [Next]_limiterVars => LimiterInv'
  <2>. SUFFICES ASSUME LimiterInv, [Next]_limiterVars PROVE LimiterInv'
    OBVIOUS
  <2>1. CASE UNCHANGED limiterVars
    BY <2>1 DEF limiterVars, LimiterInv, TypeOK, InflightExact, Ranks, Early, Counted,
                AdmittedUnderLimit, Holders
  <2>2. ASSUME NEW c \in Calls, Step(c) PROVE LimiterInv'
    BY <2>2, TypeStep, ExactStep, RanksStep, AdmittedStep DEF LimiterInv
  <2>. QED BY <2>1, <2>2 DEF Next
<1>. QED BY <1>1, <1>2, PTL DEF Spec

(* No permit leaks and none is given back twice: the counter is the number *)
(* of calls inside, in every reachable state.                              *)
THEOREM InflightIsExact == Spec => [](TypeOK /\ InflightExact)
<1>1. LimiterInv => TypeOK /\ InflightExact
  BY DEF LimiterInv
<1>. QED BY <1>1, LimiterInvariant, PTL

(* The calls that saw k or less never outnumber k.                         *)
THEOREM RanksAreBounded == Spec => []RanksBounded
<1>1. LimiterInv => RanksBounded
  BY CallSetsFinite DEF LimiterInv, Ranks, Early, RanksBounded
<1>. QED BY <1>1, LimiterInvariant, PTL

(* The concurrency of admitted calls never exceeds a bound on the limits   *)
(* the algorithm publishes.                                                *)
THEOREM ConcurrencyBounded == Spec => []HoldersWithinLimits
<1>1. ASSUME LimiterInv, NEW k \in 0 .. Cardinality(Calls), \A l \in Limits : l <= k
      PROVE  Cardinality(Holders) <= k
  <2>1. k \in Nat
    BY CallSetsFinite
  <2>2. Holders \subseteq Early(k)
    BY <1>1, <2>1, SimpleLimiterAssumption
       DEF LimiterInv, AdmittedUnderLimit, Early, Counted, Holders, TypeOK
  <2>3. Early(k) \subseteq Calls /\ Holders \subseteq Calls
    BY DEF Early, Counted, Holders
  <2>4. Cardinality(Holders) <= Cardinality(Early(k))
    BY <2>2, <2>3, CallSetsFinite, FS_Subset
  <2>5. Cardinality(Early(k)) <= k
    BY <1>1, <2>1 DEF LimiterInv, Ranks
  <2>6. Cardinality(Holders) \in Nat /\ Cardinality(Early(k)) \in Nat
    BY <2>3, CallSetsFinite
  <2>. QED BY <2>1, <2>4, <2>5, <2>6
<1>2. LimiterInv => HoldersWithinLimits
  BY <1>1 DEF HoldersWithinLimits
<1>. QED BY <1>2, LimiterInvariant, PTL
=============================================================================
