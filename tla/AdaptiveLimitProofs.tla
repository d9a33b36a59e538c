------------------------ MODULE AdaptiveLimitProofs ------------------------
(***************************************************************************)
(* The limit algorithms keep their limits in range, raise them only for a  *)
(* loaded service and renew their baselines, alone or under a window, and  *)
(* windows neither overlap nor lose or mix samples: for every sample,      *)
(* every configuration that the modules admit, and any number of callers   *)
(* of a window.                                                            *)
(***************************************************************************)
EXTENDS AdaptiveLimit, TLAPS, FiniteSetTheorems

-----------------------------------------------------------------------------
(* Sums over finite sets.                                                  *)

(* Of the subsets of a finite set that have a property, one is smallest:   *)
(* induction over finite sets, with a set in the place of the predicate.   *)
LEMMA SmallestSubset ==
  ASSUME NEW S, IsFiniteSet(S), NEW T \in SUBSET (SUBSET S), T # {}
  PROVE  \E A \in T : \A B \in T : B \subseteq A => B = A
<1>1. IsWellFoundedOn(StrictSubsetOrdering(S), SUBSET S)
  BY FS_StrictSubsetOrderingWellFounded, FS_FiniteSubsetsOfFinite
<1>2. PICK A \in T : \A B \in T : ~ <<B, A>> \in StrictSubsetOrdering(S)
  BY <1>1, WFMin
<1>. QED BY <1>2 DEF StrictSubsetOrdering

(* SumFunction adds the values one element after the other, in the order   *)
(* of CHOOSE: g holds the sums of f over the subsets of S.                 *)
First(s) == CHOOSE x \in s : TRUE
Others(s) == s \ {First(s)}

PartialSums(f, S, g) ==
  g = [s \in SUBSET S |-> IF s = {} THEN 0 ELSE f[First(s)] + g[Others(s)]]

(* What comes first is a member, what is left is less.                     *)
LEMMA FirstIsMember ==
  ASSUME NEW s, s # {}
  PROVE  First(s) \in s /\ Others(s) \subseteq s /\ Others(s) # s
BY DEF First, Others

(* The equation of the partial sums, one subset at a time.                 *)
LEMMA PartialSumsAt ==
  ASSUME NEW f, NEW S, NEW g, PartialSums(f, S, g), NEW s \in SUBSET S
  PROVE  g[s] = IF s = {} THEN 0 ELSE f[First(s)] + g[Others(s)]
BY DEF PartialSums

(* Two functions of partial sums agree wherever both are defined.          *)
LEMMA PartialSumsAgree ==
  ASSUME NEW S, IsFiniteSet(S), NEW A \in SUBSET S, NEW B \in SUBSET S,
         NEW f, NEW g, NEW h, PartialSums(f, A, g), PartialSums(f, B, h)
  PROVE  \A s \in SUBSET (A \cap B) : g[s] = h[s]
<1>. DEFINE T == {s \in SUBSET (A \cap B) : g[s] # h[s]}
<1>. SUFFICES ASSUME T # {} PROVE FALSE
  OBVIOUS
<1>1. PICK s \in T : \A t \in T : t \subseteq s => t = s
  <2>. T \in SUBSET (SUBSET S)
    OBVIOUS
  <2>. HIDE DEF T
  <2>. QED BY SmallestSubset
<1>2. s # {}
  BY PartialSumsAt
<1>3. Others(s) \subseteq s /\ Others(s) # s
  BY <1>2, FirstIsMember
<1>4. g[Others(s)] = h[Others(s)]
  BY <1>1, <1>3
<1>. QED BY <1>2, <1>4, PartialSumsAt

(* The recursion defines something: of the sets without partial sums, the  *)
(* smallest would get them from those of its subsets.                      *)
LEMMA PartialSumsExist ==
  ASSUME NEW S, IsFiniteSet(S), NEW f
  PROVE  \E g : PartialSums(f, S, g)
<1>. DEFINE T == {A \in SUBSET S : ~ \E g : PartialSums(f, A, g)}
<1>. SUFFICES ASSUME T # {} PROVE FALSE
  OBVIOUS
<1>1. PICK A \in T : \A B \in T : B \subseteq A => B = A
  <2>. T \in SUBSET (SUBSET S)
    OBVIOUS
  <2>. HIDE DEF T
  <2>. QED BY SmallestSubset
<1>. DEFINE SumsOf(s) == CHOOSE g : PartialSums(f, s, g)
            Total(s) == SumsOf(s)[s]
            h == [s \in SUBSET A |-> IF s = {} THEN 0 ELSE f[First(s)] + Total(Others(s))]
<1>2. \A s \in SUBSET A : s # A => PartialSums(f, s, SumsOf(s))
  BY <1>1
<1>. HIDE DEF SumsOf
<1>3. \A s \in SUBSET A : s # A => Total(s) = h[s]
  <2>1. SUFFICES ASSUME NEW s \in SUBSET A, s # A PROVE Total(s) = h[s]
    OBVIOUS
  <2>2. PartialSums(f, s, SumsOf(s))
    BY <1>2, <2>1
  <2>3. Total(s) = IF s = {} THEN 0 ELSE f[First(s)] + SumsOf(s)[Others(s)]
    BY <2>2, PartialSumsAt
  <2>4. ASSUME s # {} PROVE SumsOf(s)[Others(s)] = Total(Others(s))
    <3>1. Others(s) \subseteq s /\ Others(s) # A
      BY <2>4, <2>1, FirstIsMember
    <3>2. PartialSums(f, Others(s), SumsOf(Others(s)))
      BY <3>1, <1>2
    <3>3. s \in SUBSET S /\ Others(s) \in SUBSET S
      BY <3>1
    <3>4. Others(s) \in SUBSET (s \cap Others(s))
      BY <3>1
    <3>. HIDE DEF T
    <3>. QED BY <3>2, <3>3, <3>4, <2>2, PartialSumsAgree
  <2>. QED BY <2>3, <2>4
<1>4. \A s \in SUBSET A : h[s] = IF s = {} THEN 0 ELSE f[First(s)] + h[Others(s)]
  <2>1. \A s \in SUBSET A : s # {} => Others(s) \in SUBSET A /\ Others(s) # A
    BY FirstIsMember
  <2>2. \A s \in SUBSET A : s # {} => Total(Others(s)) = h[Others(s)]
    <3>. HIDE DEF h, Total
    <3>. QED BY <2>1, <1>3
  <2>. HIDE DEF Total
  <2>. QED BY <2>2
<1>5. h = [s \in SUBSET A |-> h[s]]
  OBVIOUS
<1>. HIDE DEF h
<1>6. PartialSums(f, A, h)
  BY <1>4, <1>5 DEF PartialSums
<1>. QED BY <1>1, <1>6

(* SumFunction is the partial sum over everything.                         *)
LEMMA SumIsPartial ==
  ASSUME NEW S, IsFiniteSet(S), NEW f, DOMAIN f = S
  PROVE  \E g : PartialSums(f, S, g) /\ SumFunction(f) = g[S]
<1>1. SumFunction(f) = (CHOOSE g : PartialSums(f, S, g))[S]
  BY DEF SumFunction, SumFunctionOnSet, FoldFunctionOnSet, MapThenFoldSet, PartialSums, First, Others
<1>. QED BY <1>1, PartialSumsExist

(* Sums of naturals are naturals.                                          *)
LEMMA PartialSumsTyped ==
  ASSUME NEW S, IsFiniteSet(S), NEW f \in [S -> Nat], NEW g, PartialSums(f, S, g)
  PROVE  \A s \in SUBSET S : g[s] \in Nat
<1>. DEFINE T == {s \in SUBSET S : g[s] \notin Nat}
<1>. SUFFICES ASSUME T # {} PROVE FALSE
  OBVIOUS
<1>1. PICK s \in T : \A t \in T : t \subseteq s => t = s
  <2>. T \in SUBSET (SUBSET S)
    OBVIOUS
  <2>. HIDE DEF T
  <2>. QED BY SmallestSubset
<1>2. s # {}
  BY PartialSumsAt
<1>3. First(s) \in S /\ g[Others(s)] \in Nat
  BY <1>1, <1>2, FirstIsMember
<1>4. f[First(s)] + g[Others(s)] \in Nat
  BY <1>3
<1>. QED BY <1>2, <1>4, PartialSumsAt

(* A sum grows by what one of its terms grows by.                          *)
LEMMA SumOfOneMore ==
  ASSUME NEW S, IsFiniteSet(S), NEW f \in [S -> Nat], NEW x \in S, NEW k \in Nat,
         NEW h \in [S -> Nat],
         h[x] = f[x] + k, \A y \in S : y # x => h[y] = f[y]
  PROVE  SumFunction(h) = SumFunction(f) + k
<1>1. PICK g : PartialSums(f, S, g) /\ SumFunction(f) = g[S]
  BY SumIsPartial
<1>2. PICK e : PartialSums(h, S, e) /\ SumFunction(h) = e[S]
  BY SumIsPartial
<1>. DEFINE Extra(s) == IF x \in s THEN k ELSE 0
            T == {s \in SUBSET S : e[s] # g[s] + Extra(s)}
<1>3. SUFFICES ASSUME T # {} PROVE FALSE
  BY <1>1, <1>2
<1>4. PICK s \in T : \A t \in T : t \subseteq s => t = s
  <2>. T \in SUBSET (SUBSET S)
    OBVIOUS
  <2>. HIDE DEF T
  <2>. QED BY SmallestSubset, <1>3
<1>5. /\ g[s] = IF s = {} THEN 0 ELSE f[First(s)] + g[Others(s)]
      /\ e[s] = IF s = {} THEN 0 ELSE h[First(s)] + e[Others(s)]
  <2>1. s \in SUBSET S
    BY <1>4
  <2>2. g[s] = IF s = {} THEN 0 ELSE f[First(s)] + g[Others(s)]
    BY <1>1, <2>1, PartialSumsAt
  <2>3. e[s] = IF s = {} THEN 0 ELSE h[First(s)] + e[Others(s)]
    BY <1>2, <2>1, PartialSumsAt
  <2>. QED BY <2>2, <2>3
<1>6. s # {}
  BY <1>4, <1>5
<1>7. /\ First(s) \in s /\ First(s) \in S /\ Others(s) = s \ {First(s)}
      /\ Others(s) \in SUBSET S
  BY <1>6, FirstIsMember DEF Others
<1>8. e[Others(s)] = g[Others(s)] + Extra(Others(s))
  BY <1>4, <1>7
<1>9. h[First(s)] = IF First(s) = x THEN f[First(s)] + k ELSE f[First(s)]
  BY <1>7
<1>10. g[Others(s)] \in Nat /\ f[First(s)] \in Nat
  BY <1>1, <1>7, PartialSumsTyped
<1>11. e[s] = g[s] + Extra(s)
  BY <1>5, <1>6, <1>7, <1>8, <1>9, <1>10
<1>. QED BY <1>11

(* The sum of zeros.                                                       *)
LEMMA SumOfZeros ==
  ASSUME NEW S, IsFiniteSet(S), NEW f, f = [x \in S |-> 0]
  PROVE  SumFunction(f) = 0
<1>1. PICK g : PartialSums(f, S, g) /\ SumFunction(f) = g[S]
  BY SumIsPartial
<1>. DEFINE T == {s \in SUBSET S : g[s] # 0}
<1>. SUFFICES ASSUME T # {} PROVE FALSE
  BY <1>1
<1>2. PICK s \in T : \A t \in T : t \subseteq s => t = s
  <2>. T \in SUBSET (SUBSET S)
    OBVIOUS
  <2>. HIDE DEF T
  <2>. QED BY SmallestSubset
<1>3. s # {}
  BY <1>1, PartialSumsAt
<1>4. First(s) \in S /\ g[Others(s)] = 0
  BY <1>2, <1>3, FirstIsMember
<1>. QED BY <1>1, <1>3, <1>4, PartialSumsAt

-----------------------------------------------------------------------------
(* WindowedLimit.                                                          *)

Sample == [rtt : Nat, inflight : Nat, didDrop : BOOLEAN]

Window == [minRtt : Nat, sumRtt : Nat, count : Nat, maxInFlight : Nat, didDrop : BOOLEAN]

(* The clock that a caller read is not ahead of the one all read, and      *)
(* never the zero time.                                                    *)
WindowInv ==
  /\ window \in Window
  /\ nextUpdate \in Nat /\ now \in Nat \ {0}
  /\ at \in [Callers -> {"idle", "stamped", "ready"}]
  /\ sample \in [Callers -> Sample]
  /\ stamp \in [Callers -> Nat]
  /\ \A c \in Callers : at[c] = "stamped" => stamp[c] \in 1 .. now

(* What a sample does to the window.                                       *)
LEMMA AddTyped ==
  ASSUME WindowInv, NEW c \in Callers
  PROVE  /\ add(sample[c]) \in Window /\ add(sample[c]).count \in Nat \ {0}
         /\ Length(add(sample[c])) \in minWindowTime .. maxWindowTime
<1>1. window \in Window /\ sample[c] \in Sample
  BY DEF WindowInv
<1>2. add(sample[c]) \in Window /\ add(sample[c]).count = window.count + 1
  BY <1>1 DEF add, Window, Sample
<1>3. PICK w \in Window : w = add(sample[c])
  BY <1>2
<1>4. Length(w) \in minWindowTime .. maxWindowTime
  BY WindowedAssumption DEF Window, Length, clampDuration
<1>. QED BY <1>1, <1>2, <1>3, <1>4 DEF Window

(* The window is delivered as one sample.                                  *)
LEMMA AggregateTyped ==
  ASSUME NEW w \in Window, w.count # 0
  PROVE  Aggregate(w) \in Sample
<1>1. w.sumRtt \div w.count \in Nat
  BY DEF Window
<1>. QED BY <1>1 DEF Aggregate, Window, Sample

(* The steps of a caller but the last, by what they do to the next update. *)
CallerStep(c) == Caller(c) \/ Deliver(c)

(* A caller keeps the invariant of windows.                                *)
LEMMA CallerKeepsWindow ==
  ASSUME WindowInv, NEW c \in Callers, CallerStep(c)
  PROVE  WindowInv'
<1>1. /\ window \in Window /\ nextUpdate \in Nat /\ now \in Nat \ {0}
      /\ at \in [Callers -> {"idle", "stamped", "ready"}]
      /\ sample \in [Callers -> Sample] /\ stamp \in [Callers -> Nat]
      /\ \A d \in Callers : at[d] = "stamped" => stamp[d] \in 1 .. now
  BY DEF WindowInv
<1>2. /\ add(sample[c]) \in Window /\ add(sample[c]).count \in Nat \ {0}
      /\ Length(add(sample[c])) \in Nat
  BY AddTyped, WindowedAssumption
<1>3. Empty \in Window /\ Nothing \in Sample
  BY DEF Empty, Window, Nothing, Sample
<1>4. CASE IgnoreTiny(c)
  BY <1>4 DEF IgnoreTiny, windowVars, WindowInv
<1>5. CASE ReadClock(c)
  <2>1. PICK x \in WindowSamples : sample' = [sample EXCEPT ![c] = x]
    BY <1>5 DEF ReadClock
  <2>2. x \in Sample
    BY WindowedAssumption DEF Sample
  <2>3. /\ at' = [at EXCEPT ![c] = "stamped"] /\ stamp' = [stamp EXCEPT ![c] = now]
        /\ window' = window /\ nextUpdate' = nextUpdate /\ now' = now
    BY <1>5 DEF ReadClock, Goto
  <2>. QED BY <1>1, <2>1, <2>2, <2>3 DEF WindowInv
<1>6. CASE StartWindow(c) \/ Accumulate(c) \/ Discard(c)
  <2>1. /\ at' = [at EXCEPT ![c] = "idle"] /\ sample' = [sample EXCEPT ![c] = Nothing]
        /\ stamp' = [stamp EXCEPT ![c] = 0] /\ now' = now
        /\ window' \in {add(sample[c]), Empty}
        /\ nextUpdate' \in {nextUpdate, stamp[c] + minWindowTime,
                            stamp[c] + Length(add(sample[c]))}
    BY <1>6 DEF StartWindow, Accumulate, Discard, Goto, Leave
  <2>2. window' \in Window /\ nextUpdate' \in Nat
    BY <1>1, <1>2, <1>3, <2>1, WindowedAssumption
  <2>. QED BY <1>1, <1>3, <2>1, <2>2 DEF WindowInv
<1>7. CASE Close(c)
  <2>1. /\ at' = [at EXCEPT ![c] = "ready"]
        /\ sample' = [sample EXCEPT ![c] = Aggregate(add(sample[c]))]
        /\ stamp' = [stamp EXCEPT ![c] = 0] /\ now' = now
        /\ window' = Empty /\ nextUpdate' = stamp[c] + Length(add(sample[c]))
    BY <1>7 DEF Close, Goto
  <2>2. Aggregate(add(sample[c])) \in Sample /\ nextUpdate' \in Nat
    BY <1>1, <1>2, <2>1, AggregateTyped
  <2>. QED BY <1>1, <1>3, <2>1, <2>2 DEF WindowInv
<1>8. CASE Deliver(c)
  <2>1. /\ at' = [at EXCEPT ![c] = "idle"] /\ sample' = [sample EXCEPT ![c] = Nothing]
        /\ stamp' = [stamp EXCEPT ![c] = 0] /\ now' = now
        /\ window' = window /\ nextUpdate' = nextUpdate
    BY <1>8 DEF Deliver, Goto, Leave
  <2>. QED BY <1>1, <1>3, <2>1 DEF WindowInv
<1>. QED BY <1>4, <1>5, <1>6, <1>7, <1>8 DEF CallerStep, Caller

(* A caller that sets the next update sets it to the end of a new window.  *)
LEMMA WindowMovesOn ==
  ASSUME WindowInv, NEW c \in Callers, CallerStep(c), nextUpdate' # nextUpdate
  PROVE  /\ nextUpdate # 0 => nextUpdate' > nextUpdate + minWindowTime
         /\ nextUpdate' <= now + maxWindowTime
<1>1. /\ nextUpdate \in Nat /\ now \in Nat /\ stamp[c] \in Nat
      /\ at[c] = "stamped" => stamp[c] \in 1 .. now
      /\ {minWindowTime, maxWindowTime} \subseteq Nat /\ minWindowTime <= maxWindowTime
  BY WindowedAssumption DEF WindowInv
<1>2. Length(add(sample[c])) \in minWindowTime .. maxWindowTime
  BY AddTyped
<1>3. CASE StartWindow(c)
  BY <1>1, <1>3 DEF StartWindow, Goto
<1>4. CASE Discard(c) \/ Close(c)
  <2>1. /\ at[c] = "stamped" /\ stamp[c] > nextUpdate
        /\ nextUpdate' = stamp[c] + Length(add(sample[c]))
    BY <1>4 DEF Discard, Close, Due, Goto
  <2>. QED BY <1>1, <1>2, <2>1
<1>. QED BY <1>3, <1>4 DEF CallerStep, Caller, IgnoreTiny, windowVars, ReadClock, Accumulate,
            Deliver

(* A window counts its samples and adds up their round trips.              *)
RttsOf(m) == [x \in WindowSamples |-> m[x] * x.rtt]

Totals(w, m) == w.count = SumFunction(m) /\ w.sumRtt = SumFunction(RttsOf(m))

(* A window is as bad as the worst of its samples.                         *)
In(m) == {x \in WindowSamples : m[x] > 0}

Worst(w, m) ==
  /\ \A x \in In(m) : x.inflight <= w.maxInFlight /\ x.rtt >= minRttThreshold
  /\ IF In(m) = {} THEN w.maxInFlight = 0 ELSE \E x \in In(m) : x.inflight = w.maxInFlight
  /\ w.didDrop <=> \E x \in In(m) : x.didDrop

Members == [WindowSamples -> Nat]

MembersInv ==
  /\ members \in Members /\ Worst(window, members) /\ Totals(window, members)
  /\ origin \in [Callers -> Members]
  /\ \A c \in Callers :
       /\ at[c] = "stamped" => sample[c] \in WindowSamples /\ sample[c].rtt >= minRttThreshold
       /\ at[c] = "ready" =>
            /\ In(origin[c]) # {}
            /\ \E w \in Window : /\ Worst(w, origin[c]) /\ Totals(w, origin[c])
                                 /\ w.count >= windowSize /\ sample[c] = Aggregate(w)

(* A sample makes the window worse by itself.                              *)
LEMMA WorseByOne ==
  ASSUME WindowInv, MembersInv, NEW c \in Callers, at[c] = "stamped"
  PROVE  /\ Joined(c) \in Members /\ Worst(add(sample[c]), Joined(c)) /\ In(Joined(c)) # {}
<1>1. window \in Window /\ members \in Members /\ Worst(window, members)
  BY DEF WindowInv, MembersInv
<1>2. PICK x \in WindowSamples : x = sample[c] /\ x.rtt >= minRttThreshold
  BY DEF MembersInv
<1>3. /\ WindowSamples \subseteq Sample
      /\ \A y \in WindowSamples : y.inflight \in Nat /\ y.rtt \in Nat /\ y.didDrop \in BOOLEAN
  BY WindowedAssumption DEF Sample
<1>4. PICK m \in Members : m = [members EXCEPT ![x] = members[x] + 1] /\ m = Joined(c)
  <2>1. members \in [WindowSamples -> Nat] /\ members[x] + 1 \in Nat
    BY <1>1 DEF Members
  <2>2. Joined(c) = [members EXCEPT ![x] = members[x] + 1]
    BY <1>2 DEF Joined
  <2>3. [members EXCEPT ![x] = members[x] + 1] \in [WindowSamples -> Nat]
    BY <2>1
  <2>. QED BY <2>2, <2>3 DEF Members
<1>5. In(m) = In(members) \cup {x}
  <2>1. \A y \in WindowSamples : members[y] \in Nat /\ m[y] = IF y = x THEN members[y] + 1 ELSE members[y]
    BY <1>1, <1>4 DEF Members
  <2>2. \A y \in WindowSamples : m[y] > 0 <=> members[y] > 0 \/ y = x
    BY <2>1
  <2>. QED BY <2>2 DEF In
<1>6. PICK w \in Window : w = add(sample[c])
  BY AddTyped
<1>7. /\ w.maxInFlight = IF x.inflight > window.maxInFlight THEN x.inflight ELSE window.maxInFlight
      /\ w.didDrop = (window.didDrop \/ x.didDrop)
  BY <1>2, <1>6 DEF add
<1>8. w.maxInFlight \in Nat /\ window.maxInFlight \in Nat
  BY <1>1 DEF Window
<1>9. \A y \in In(m) : y.inflight <= w.maxInFlight /\ y.rtt >= minRttThreshold
  BY <1>1, <1>2, <1>3, <1>5, <1>7, <1>8 DEF Worst, In
<1>10. \E y \in In(m) : y.inflight = w.maxInFlight
  BY <1>1, <1>2, <1>3, <1>5, <1>7, <1>8 DEF Worst, In
<1>11. w.didDrop <=> \E y \in In(m) : y.didDrop
  BY <1>1, <1>2, <1>5, <1>7 DEF Worst
<1>. QED BY <1>4, <1>5, <1>6, <1>9, <1>10, <1>11 DEF Worst

(* An empty window has no totals.                                          *)
LEMMA NobodyTotals == Totals(Empty, Nobody)
<1>1. RttsOf(Nobody) = [x \in WindowSamples |-> 0]
  <2>1. \A x \in WindowSamples : Nobody[x] * x.rtt = 0
    BY WindowedAssumption DEF Nobody
  <2>. QED BY <2>1 DEF RttsOf
<1>2. SumFunction(Nobody) = 0 /\ SumFunction(RttsOf(Nobody)) = 0
  BY <1>1, SumOfZeros, WindowedAssumption DEF Nobody
<1>. QED BY <1>2 DEF Totals, Empty

(* A sample adds itself to the totals.                                     *)
LEMMA OneMore ==
  ASSUME WindowInv, MembersInv, NEW c \in Callers, at[c] = "stamped"
  PROVE  Totals(add(sample[c]), Joined(c))
<1>1. window \in Window /\ members \in Members /\ Totals(window, members)
  BY DEF WindowInv, MembersInv
<1>2. PICK x \in WindowSamples : x = sample[c]
  BY DEF MembersInv
<1>3. IsFiniteSet(WindowSamples) /\ \A y \in WindowSamples : y.rtt \in Nat
  BY WindowedAssumption
<1>4. PICK m \in Members : m = Joined(c)
  BY WorseByOne
<1>5. \A y \in WindowSamples : /\ members[y] \in Nat
                               /\ m[y] = IF y = x THEN members[y] + 1 ELSE members[y]
  BY <1>1, <1>2, <1>4 DEF Joined, Members
<1>6. SumFunction(m) = SumFunction(members) + 1
  <2>1. m \in [WindowSamples -> Nat] /\ members \in [WindowSamples -> Nat]
    BY <1>1 DEF Members
  <2>2. m[x] = members[x] + 1 /\ \A y \in WindowSamples : y # x => m[y] = members[y]
    BY <1>5
  <2>. QED BY <1>3, <2>1, <2>2, SumOfOneMore
<1>7. SumFunction(RttsOf(m)) = SumFunction(RttsOf(members)) + x.rtt
  <2>1. \A y \in WindowSamples :
          /\ RttsOf(members)[y] = members[y] * y.rtt /\ RttsOf(m)[y] = m[y] * y.rtt
          /\ members[y] * y.rtt \in Nat /\ m[y] * y.rtt \in Nat
    BY <1>3, <1>5 DEF RttsOf
  <2>2. RttsOf(members) \in [WindowSamples -> Nat] /\ RttsOf(m) \in [WindowSamples -> Nat]
    BY <2>1 DEF RttsOf
  <2>3. m[x] * x.rtt = members[x] * x.rtt + x.rtt
    BY <1>3, <1>5
  <2>4. \A y \in WindowSamples :
          RttsOf(m)[y] = IF y = x THEN RttsOf(members)[y] + x.rtt ELSE RttsOf(members)[y]
    BY <1>5, <2>1, <2>3
  <2>5. PICK k \in Nat : k = x.rtt
    BY <1>3
  <2>6. PICK f \in [WindowSamples -> Nat], h \in [WindowSamples -> Nat] :
          f = RttsOf(members) /\ h = RttsOf(m)
    BY <2>2
  <2>7. h[x] = f[x] + k /\ \A y \in WindowSamples : y # x => h[y] = f[y]
    BY <2>4, <2>5, <2>6
  <2>8. SumFunction(h) = SumFunction(f) + k
    BY <1>3, <2>7, SumOfOneMore
  <2>. QED BY <2>5, <2>6, <2>8
<1>8. /\ add(sample[c]).count = window.count + 1
      /\ add(sample[c]).sumRtt = window.sumRtt + x.rtt
  BY <1>2 DEF add
<1>. QED BY <1>1, <1>4, <1>6, <1>7, <1>8 DEF Totals

(* A caller keeps the windows apart from each other.                       *)
LEMMA CallerKeepsMembers ==
  ASSUME WindowInv, MembersInv, NEW c \in Callers, CallerStep(c)
  PROVE  MembersInv'
<1>1. /\ members \in Members /\ Worst(window, members) /\ Totals(window, members)
      /\ origin \in [Callers -> Members]
      /\ at \in [Callers -> {"idle", "stamped", "ready"}] /\ sample \in [Callers -> Sample]
      /\ \A d \in Callers :
           /\ at[d] = "stamped" => sample[d] \in WindowSamples /\ sample[d].rtt >= minRttThreshold
           /\ at[d] = "ready" =>
                /\ In(origin[d]) # {}
                /\ \E w \in Window : /\ Worst(w, origin[d]) /\ Totals(w, origin[d])
                                     /\ w.count >= windowSize /\ sample[d] = Aggregate(w)
  BY DEF WindowInv, MembersInv
<1>2. Nobody \in Members /\ Worst(Empty, Nobody) /\ Totals(Empty, Nobody)
  BY NobodyTotals DEF Nobody, Members, Worst, In, Empty
<1>3. CASE IgnoreTiny(c)
  BY <1>1, <1>3 DEF IgnoreTiny, windowVars, MembersInv
<1>4. CASE ReadClock(c)
  <2>1. PICK x \in WindowSamples : /\ x.rtt >= minRttThreshold
                                   /\ sample' = [sample EXCEPT ![c] = x]
    BY <1>4 DEF ReadClock
  <2>2. /\ at' = [at EXCEPT ![c] = "stamped"]
        /\ window' = window /\ members' = members /\ origin' = origin
    BY <1>4 DEF ReadClock, Goto
  <2>. QED BY <1>1, <2>1, <2>2 DEF MembersInv
<1>5. CASE StartWindow(c) \/ Accumulate(c) \/ Discard(c)
  <2>1. /\ at[c] = "stamped" /\ at' = [at EXCEPT ![c] = "idle"]
        /\ sample' = [sample EXCEPT ![c] = Nothing] /\ origin' = origin
        /\ \/ window' = add(sample[c]) /\ members' = Joined(c)
           \/ window' = Empty /\ members' = Nobody
    BY <1>5 DEF StartWindow, Accumulate, Discard, Goto, Leave
  <2>2. members' \in Members /\ Worst(window', members') /\ Totals(window', members')
    BY <1>2, <2>1, WorseByOne, OneMore
  <2>. QED BY <1>1, <2>1, <2>2 DEF MembersInv
<1>6. CASE Close(c)
  <2>1. /\ at[c] = "stamped" /\ at' = [at EXCEPT ![c] = "ready"]
        /\ sample' = [sample EXCEPT ![c] = Aggregate(add(sample[c]))]
        /\ origin' = [origin EXCEPT ![c] = Joined(c)]
        /\ window' = Empty /\ members' = Nobody
    BY <1>6 DEF Close, Goto
  <2>2. /\ Joined(c) \in Members /\ Worst(add(sample[c]), Joined(c)) /\ In(Joined(c)) # {}
        /\ Totals(add(sample[c]), Joined(c)) /\ add(sample[c]) \in Window
        /\ add(sample[c]).count >= windowSize
    BY <1>6, <2>1, WorseByOne, OneMore, AddTyped DEF Close
  <2>. QED BY <1>1, <1>2, <2>1, <2>2 DEF MembersInv
<1>7. CASE Deliver(c)
  <2>1. /\ at' = [at EXCEPT ![c] = "idle"] /\ sample' = [sample EXCEPT ![c] = Nothing]
        /\ origin' = [origin EXCEPT ![c] = Nobody]
        /\ window' = window /\ members' = members
    BY <1>7 DEF Deliver, Goto, Leave
  <2>. QED BY <1>1, <1>2, <2>1 DEF MembersInv
<1>. QED BY <1>3, <1>4, <1>5, <1>6, <1>7 DEF CallerStep, Caller

(* What a caller delivers is as bad as its window.                         *)
LEMMA DeliversWorst ==
  ASSUME WindowInv, MembersInv, NEW c \in Callers, at[c] = "ready"
  PROVE  WindowWorst(c)
<1>1. In(origin[c]) = Among(c)
  BY DEF In, Among
<1>2. PICK w \in Window : Worst(w, origin[c]) /\ sample[c] = Aggregate(w)
  BY DEF MembersInv
<1>3. /\ Among(c) # {}
      /\ \A x \in Among(c) : x.inflight <= w.maxInFlight /\ x.rtt >= minRttThreshold
      /\ \E x \in Among(c) : x.inflight = w.maxInFlight
      /\ w.didDrop <=> \E x \in Among(c) : x.didDrop
  BY <1>1, <1>2 DEF Worst, MembersInv
<1>4. w.maxInFlight \in Nat /\ \A x \in Among(c) : x.inflight \in Nat /\ x.didDrop \in BOOLEAN
  BY WindowedAssumption DEF Among, Window
<1>5. sample[c].inflight = w.maxInFlight /\ sample[c].didDrop = w.didDrop /\ w.didDrop \in BOOLEAN
  BY <1>2 DEF Aggregate, Window
<1>6. w.maxInFlight = Max({x.inflight : x \in Among(c)})
  <2>. DEFINE S == {x.inflight : x \in Among(c)}
  <2>1. w.maxInFlight \in S /\ \A y \in S : w.maxInFlight >= y /\ y \in Nat
    BY <1>3, <1>4
  <2>. HIDE DEF S
  <2>2. \A z \in S : (\A y \in S : z >= y) => z = w.maxInFlight
    BY <1>4, <2>1
  <2>3. Max(S) = w.maxInFlight
    BY <2>1, <2>2 DEF Max
  <2>. QED BY <2>3 DEF S
<1>. QED BY <1>3, <1>5, <1>6 DEF WindowWorst

(* What a caller delivers is the mean of its window.                       *)
LEMMA DeliversMean ==
  ASSUME WindowInv, MembersInv, NEW c \in Callers, at[c] = "ready"
  PROVE  WindowMean(c)
<1>1. PICK w \in Window : /\ Totals(w, origin[c])
                          /\ w.count >= windowSize /\ sample[c] = Aggregate(w)
  BY DEF MembersInv
<1>2. sample[c].rtt = w.sumRtt \div w.count
  BY <1>1 DEF Aggregate
<1>. QED BY <1>1, <1>2 DEF WindowMean, Totals, RttsOf

-----------------------------------------------------------------------------
(* Arithmetic of the algorithms.                                           *)

(* The largest of a few numbers.                                           *)
LEMMA HighestOfTwo ==
  ASSUME NEW a \in Int, NEW b \in Int
  PROVE  LET h == Highest({a, b}) IN h \in {a, b} /\ a <= h /\ b <= h
<1>1. \E x \in {a, b} : \A y \in {a, b} : x >= y
  <2>1. CASE a >= b
    BY <2>1
  <2>2. CASE b >= a
    BY <2>2
  <2>. QED BY <2>1, <2>2
<1>. QED BY <1>1 DEF Highest, Max

(* The same of four.                                                       *)
LEMMA HighestOfFour ==
  ASSUME NEW a \in Int, NEW b \in Int, NEW c \in Int, NEW d \in Int
  PROVE  LET h == Highest({a, b, c, d})
         IN  h \in {a, b, c, d} /\ a <= h /\ b <= h /\ c <= h /\ d <= h
<1>1. \E x \in {a, b, c, d} : \A y \in {a, b, c, d} : x >= y
  <2>1. PICK m \in {a, b} : a <= m /\ b <= m
    BY HighestOfTwo
  <2>2. PICK n \in {c, d} : c <= n /\ d <= n
    BY HighestOfTwo
  <2>3. CASE m >= n
    BY <2>1, <2>2, <2>3
  <2>4. CASE n >= m
    BY <2>1, <2>2, <2>4
  <2>. QED BY <2>1, <2>2, <2>3, <2>4
<1>. QED BY <1>1 DEF Highest, Max

(* And of three.                                                           *)
LEMMA HighestOfThree ==
  ASSUME NEW a \in Int, NEW b \in Int, NEW c \in Int
  PROVE  LET h == Highest({a, b, c}) IN h \in {a, b, c} /\ a <= h /\ b <= h /\ c <= h
<1>1. {a, b, c} = {a, b, c, c}
  OBVIOUS
<1>. QED BY <1>1, HighestOfFour

(* Smoothing stays between the old limit and the new one.                  *)
LEMMA SmoothedBetween ==
  ASSUME NEW s \in 1 .. 10, NEW e \in Int, NEW n \in Int
  PROVE  LET m == ((10 - s) * e + s * n) \div 10
         IN  /\ m \in Int
             /\ \A lo \in Int : lo <= e /\ lo <= n => lo <= m
             /\ \A hi \in Int : e <= hi /\ n <= hi => m <= hi
<1>1. \/ s = 1 \/ s = 2 \/ s = 3 \/ s = 4 \/ s = 5
      \/ s = 6 \/ s = 7 \/ s = 8 \/ s = 9 \/ s = 10
  OBVIOUS
<1>2. (10 - s) * e \in Int /\ s * n \in Int
  OBVIOUS
<1>3. ASSUME NEW lo \in Int, lo <= e, lo <= n PROVE 10 * lo <= (10 - s) * e + s * n
  BY <1>1, <1>3
<1>4. ASSUME NEW hi \in Int, e <= hi, n <= hi PROVE (10 - s) * e + s * n <= 10 * hi
  BY <1>1, <1>4
<1>5. PICK x \in Int : x = (10 - s) * e + s * n
  BY <1>2
<1>6. /\ x \div 10 \in Int
      /\ \A lo \in Int : 10 * lo <= x => lo <= x \div 10
      /\ \A hi \in Int : x <= 10 * hi => x \div 10 <= hi
  OBVIOUS
<1>. QED BY <1>3, <1>4, <1>5, <1>6

(* A nonempty set of natural numbers has a least element.                  *)
LEMMA LeastNatural ==
  ASSUME NEW T, T \subseteq Nat, T # {}
  PROVE  \E x \in T : \A y \in T : x <= y
<1>1. IsWellFoundedOn({p \in Nat \X Nat : p[1] < p[2]}, Nat)
  BY NatLessThanWellFounded DEF OpToRel
<1>2. PICK x \in T : \A y \in T : ~ (<<y, x>> \in {p \in Nat \X Nat : p[1] < p[2]})
  BY <1>1, WFMin
<1>3. ASSUME NEW y \in T PROVE x <= y
  <2>1. x \in Nat /\ y \in Nat /\ <<y, x>> \in Nat \X Nat
    OBVIOUS
  <2>2. ~ (y < x)
    BY <1>2, <2>1
  <2>. QED BY <2>1, <2>2
<1>. QED BY <1>3

(* GradientLimit's queue size is the square root it is meant to be, and no *)
(* larger than a limit unless it is the least queue size.                  *)
LEMMA QueueSizeIs ==
  ASSUME estimatedLimit \in Nat
  PROVE  /\ G!queueSize \in Nat /\ G!queueSize >= 40
         /\ \A h \in Nat : 4 <= h /\ estimatedLimit <= 10 * h => G!queueSize <= 10 * h
         /\ estimatedLimit >= 10 => G!queueSize = 40 \/ G!queueSize <= estimatedLimit
<1>. DEFINE m == estimatedLimit \div 10
<1>. DEFINE T == {r \in Nat : (r + 1) * (r + 1) > 100 * m}
<1>1. m \in Nat /\ 10 * m <= estimatedLimit /\ \A h \in Nat : estimatedLimit <= 10 * h => m <= h
  OBVIOUS
<1>. HIDE DEF m
<1>2. 100 * m \in T
  <2>1. PICK x \in Nat : x = 100 * m
    BY <1>1
  <2>2. (x + 1) * (x + 1) = x * x + 2 * x + 1 /\ x * x \in Nat
    BY <2>1
  <2>. QED BY <2>1, <2>2
<1>3. PICK r \in T : \A k \in T : r <= k
  BY <1>2, LeastNatural
<1>4. r * r <= 100 * m
  <2>1. CASE r = 0
    BY <1>1, <2>1
  <2>2. CASE r # 0
    <3>1. r - 1 \in Nat /\ r - 1 \notin T /\ (r - 1) + 1 = r
      BY <1>3, <2>2
    <3>. QED BY <1>1, <1>3, <3>1
  <2>. QED BY <2>1, <2>2
<1>5. \E q \in 0 .. 100 * m : q * q <= 100 * m /\ (q + 1) * (q + 1) > 100 * m
  BY <1>1, <1>2, <1>3, <1>4
<1>6. PICK root \in Nat : G!queueSize = (IF 40 >= root THEN 40 ELSE root) /\ root * root <= 100 * m
  <2>. DEFINE q == CHOOSE r0 \in 0 .. 100 * m : r0 * r0 <= 100 * m /\ (r0 + 1) * (r0 + 1) > 100 * m
  <2>1. q \in 0 .. 100 * m /\ q * q <= 100 * m
    BY <1>5
  <2>2. G!queueSize = G!Greatest(40, q)
    BY DEF G!queueSize, m
  <2>. HIDE DEF q
  <2>. QED BY <1>1, <2>1, <2>2 DEF G!Greatest
<1>7. ASSUME NEW h \in Nat, m <= h, 1 <= h PROVE root <= 10 * h
  <2>1. CASE root >= 10 * h + 1
    <3>1. PICK d \in Nat : root = (10 * h + 1) + d
      <4>1. root - (10 * h + 1) \in Nat
        BY <1>7, <2>1
      <4>. QED BY <4>1
    <3>2. /\ root * root = 100 * (h * h) + 20 * h + 1 + 2 * (10 * (h * d) + d) + d * d
          /\ h * h \in Nat /\ h * d \in Nat /\ d * d \in Nat
      BY <3>1
    <3>3. h * h >= h
      BY <1>7
    <3>. QED BY <1>1, <1>6, <1>7, <3>2, <3>3
  <2>. QED BY <1>7, <2>1
<1>8. ASSUME NEW h \in Nat, 4 <= h, estimatedLimit <= 10 * h PROVE G!queueSize <= 10 * h
  BY <1>1, <1>6, <1>7, <1>8
<1>9. ASSUME estimatedLimit >= 10 PROVE G!queueSize = 40 \/ G!queueSize <= estimatedLimit
  <2>1. m >= 1
    BY <1>9 DEF m
  <2>2. root <= 10 * m
    BY <1>1, <1>7, <2>1
  <2>. QED BY <1>1, <1>6, <1>9, <2>2
<1>. QED BY <1>6, <1>8, <1>9

-----------------------------------------------------------------------------
(* One sample of each algorithm.                                           *)

(* The logarithm that VegasLimit counts its steps by is at least one.      *)
LEMMA LogPositive == \A n : V!log10Int(n) \in Nat \ {0}
<1>. SUFFICES ASSUME NEW n PROVE V!log10Int(n) \in Nat \ {0}
  OBVIOUS
<1>. DEFINE D == {k \in 1 .. 9 : 10 ^ k <= n}
<1>1. IsFiniteSet(1 .. 9) /\ D \subseteq 1 .. 9
  <2>1. \A m \in Nat : IsFiniteSet(1 .. m) /\ Cardinality(1 .. m) = m
    BY FS_Interval
  <2>. QED BY <2>1
<1>2. Cardinality(D) \in Nat
  BY <1>1, FS_Subset, FS_CardinalityType
<1>3. V!Cardinality(D) = Cardinality(D)
  BY DEF V!Cardinality, Cardinality
<1>4. V!log10Int(n) = V!Greatest(1, V!Cardinality(D))
  BY DEF V!log10Int
<1>5. PICK c \in Nat : c = V!Cardinality(D)
  BY <1>2, <1>3
<1>. HIDE DEF D
<1>6. V!log10Int(n) = V!Greatest(1, c)
  BY <1>4, <1>5
<1>. QED BY <1>5, <1>6 DEF V!Greatest

(* VegasLimit changes its limit by whole steps that a drop or an idle      *)
(* service never makes upward.                                             *)
LEMMA VegasChange ==
  ASSUME NEW q \in Int, NEW inflight \in Nat, NEW didDrop \in BOOLEAN
  PROVE  LET change == V!Change(q, inflight, didDrop)
         IN  change \in Int /\ (change > 0 => ~didDrop /\ ~V!Idle(inflight))
<1>1. V!threshold \in Nat \ {0} /\ V!alpha \in Nat /\ V!beta \in Nat
  BY LogPositive DEF V!threshold, V!alpha, V!beta
<1>2. CASE didDrop
  BY <1>1, <1>2 DEF V!Change
<1>3. CASE ~didDrop /\ V!Idle(inflight)
  BY <1>1, <1>3 DEF V!Change
<1>4. CASE ~didDrop /\ ~V!Idle(inflight)
  BY <1>1, <1>4 DEF V!Change
<1>. QED BY <1>2, <1>3, <1>4

(* The limit of VegasLimit after a sample.                                 *)
LEMMA VegasLimitMoves ==
  ASSUME NEW rtt \in Nat \ {0}, NEW inflight \in Nat, NEW didDrop \in BOOLEAN,
         maxLimit \in Nat, estimatedLimit \in Nat, estimatedLimit >= 10, rttNoLoad \in Nat,
         V!updateEstimatedLimit(rtt, inflight, didDrop)
  PROVE  /\ estimatedLimit' \in Nat /\ estimatedLimit' >= 10
         /\ \A h \in Nat : estimatedLimit <= 10 * h /\ maxLimit <= h => estimatedLimit' <= 10 * h
         /\ estimatedLimit' > estimatedLimit => ~didDrop /\ ~V!Idle(inflight)
<1>1. \A q \in V!QueueSizes(rtt) : q \in Int
  <2>1. PICK p \in Int : p = estimatedLimit * (rtt - rttNoLoad)
    OBVIOUS
  <2>2. (p + 10 * rtt - 1) \div (10 * rtt) \in Int
    <3>1. PICK d \in Nat \ {0} : d = 10 * rtt
      OBVIOUS
    <3>2. (p + d - 1) \div d \in Int
      BY <2>1, <3>1
    <3>. QED BY <3>1, <3>2
  <2>. QED BY <2>1, <2>2 DEF V!QueueSizes
<1>2. PICK q \in V!QueueSizes(rtt) :
        estimatedLimit' = IF V!Change(q, inflight, didDrop) = 0 THEN estimatedLimit
                          ELSE V!Smoothed(V!Clamped(estimatedLimit
                                                    + 10 * V!Change(q, inflight, didDrop)))
  BY DEF V!updateEstimatedLimit
<1>3. PICK change \in Int : change = V!Change(q, inflight, didDrop)
  BY <1>1, VegasChange
<1>4. change > 0 => ~didDrop /\ ~V!Idle(inflight)
  BY <1>1, <1>3, VegasChange
<1>5. CASE change = 0
  BY <1>2, <1>3, <1>5
<1>6. CASE change # 0
  <2>1. PICK n \in Int : n = V!Clamped(estimatedLimit + 10 * change)
    BY <1>3 DEF V!Clamped, V!Least, V!Greatest
  <2>2. n >= 10 /\ (\A h \in Nat : maxLimit <= h /\ 1 <= h => n <= 10 * h)
        /\ (change < 0 => n <= estimatedLimit)
    BY <1>3, <2>1 DEF V!Clamped, V!Least, V!Greatest
  <2>3. estimatedLimit' = ((10 - VegasSmoothing) * estimatedLimit + VegasSmoothing * n) \div 10
    BY <1>2, <1>3, <1>6, <2>1 DEF V!Smoothed
  <2>4. /\ estimatedLimit' \in Int
        /\ \A lo \in Int : lo <= estimatedLimit /\ lo <= n => lo <= estimatedLimit'
        /\ \A hi \in Int : estimatedLimit <= hi /\ n <= hi => estimatedLimit' <= hi
    BY <2>3, SmoothedBetween, AdaptiveAssumption
  <2>5. PICK e \in Int : e = estimatedLimit'
    BY <2>4
  <2>6. e >= 10
    BY <2>2, <2>4, <2>5
  <2>7. ASSUME NEW h \in Nat, estimatedLimit <= 10 * h, maxLimit <= h PROVE e <= 10 * h
    <3>1. 1 <= h
      BY <2>7
    <3>2. 10 * h \in Int /\ n <= 10 * h
      BY <2>2, <2>7, <3>1
    <3>. QED BY <2>4, <2>5, <2>7, <3>2
  <2>8. change < 0 => e <= estimatedLimit
    BY <2>2, <2>4, <2>5
  <2>. QED BY <1>3, <1>4, <1>6, <2>5, <2>6, <2>7, <2>8
<1>. QED BY <1>3, <1>5, <1>6

(* A sample of VegasLimit is nothing, a probe, or a step of its count.     *)
LEMMA VegasSample ==
  ASSUME NEW rtt \in Nat, NEW inflight \in Nat, NEW didDrop \in BOOLEAN,
         maxLimit \in Nat, estimatedLimit \in Nat, estimatedLimit >= 10, rttNoLoad \in Nat,
         probeCount \in Nat, probeJitter \in Jitters,
         V!OnSample(rtt, inflight, didDrop)
  PROVE  /\ estimatedLimit' \in Nat /\ estimatedLimit' >= 10
         /\ \A h \in Nat : estimatedLimit <= 10 * h /\ maxLimit <= h => estimatedLimit' <= 10 * h
         /\ estimatedLimit' > estimatedLimit => ~didDrop /\ ~V!Idle(inflight)
         /\ rttNoLoad' \in Nat /\ probeCount' \in Nat /\ probeJitter' \in Jitters
         /\ \/ rtt = 0 /\ UNCHANGED <<rttNoLoad, probeCount>>
            \/ /\ rtt # 0 /\ V!shouldProbe(probeCount + 1)
               /\ probeCount' = 0 /\ rttNoLoad' = rtt
            \/ /\ rtt # 0 /\ ~V!shouldProbe(probeCount + 1)
               /\ probeCount' = probeCount + 1
               /\ rttNoLoad' = IF rttNoLoad = 0 \/ rtt < rttNoLoad THEN rtt ELSE rttNoLoad
<1>1. CASE rtt = 0
  BY <1>1 DEF V!OnSample
<1>2. CASE rtt # 0 /\ V!Probe(rtt)
  BY <1>2 DEF V!Probe
<1>3. CASE rtt # 0 /\ V!LowerBaseline(rtt)
  BY <1>3 DEF V!LowerBaseline
<1>4. CASE rtt # 0 /\ V!Update(rtt, inflight, didDrop)
  <2>1. /\ V!updateEstimatedLimit(rtt, inflight, didDrop) /\ ~V!shouldProbe(probeCount + 1)
        /\ rttNoLoad # 0 /\ ~(rtt < rttNoLoad) /\ rtt \in Nat \ {0}
        /\ probeCount' = probeCount + 1 /\ rttNoLoad' = rttNoLoad /\ probeJitter' = probeJitter
    BY <1>4 DEF V!Update
  <2>. QED BY <2>1, VegasLimitMoves
<1>. QED BY <1>1, <1>2, <1>3, <1>4 DEF V!OnSample

(* The limit that GradientLimit computes from a sample is within its       *)
(* bounds, and a drop lifts it at most to its floor.                       *)
LEMMA GradientClamps ==
  ASSUME estimatedLimit \in Nat, estimatedLimit >= 10, maxLimit \in Nat, NEW n \in Int
  PROVE  LET e == G!Clamped(G!Smoothed(n))
         IN  /\ e \in Nat /\ e >= 40
             /\ \A h \in Nat : 4 <= h /\ maxLimit <= h /\ estimatedLimit <= 10 * h => e <= 10 * h
             /\ n <= estimatedLimit => e <= estimatedLimit \/ e <= 10 * MinLimit \/ e <= 40
<1>1. /\ G!queueSize \in Nat /\ G!queueSize >= 40
      /\ G!queueSize = 40 \/ G!queueSize <= estimatedLimit
      /\ \A h \in Nat : 4 <= h /\ estimatedLimit <= 10 * h => G!queueSize <= 10 * h
  BY QueueSizeIs
<1>2. MinLimit \in Nat
  BY AdaptiveAssumption
<1>3. PICK s \in Int : /\ s = G!Smoothed(n)
                       /\ n <= estimatedLimit => s <= estimatedLimit \/ s <= 10 * MinLimit
  BY <1>2 DEF G!Smoothed, G!Greatest
<1>4. PICK e \in Int : e = G!Clamped(s)
  BY <1>1, <1>3 DEF G!Clamped, G!Least, G!Greatest
<1>5. /\ e >= 40
      /\ e <= G!queueSize \/ e <= 10 * maxLimit
      /\ e <= G!queueSize \/ e <= s
  BY <1>1, <1>3, <1>4 DEF G!Clamped, G!Least, G!Greatest
<1>6. ASSUME NEW h \in Nat, 4 <= h, maxLimit <= h, estimatedLimit <= 10 * h PROVE e <= 10 * h
  <2>1. G!queueSize <= 10 * h
    BY <1>1, <1>6
  <2>. QED BY <1>1, <1>5, <1>6, <2>1
<1>7. n <= estimatedLimit => e <= estimatedLimit \/ e <= 10 * MinLimit \/ e <= 40
  BY <1>1, <1>2, <1>3, <1>5
<1>. QED BY <1>3, <1>4, <1>5, <1>6, <1>7

(* A sample of GradientLimit.                                              *)
LEMMA GradientSample ==
  ASSUME NEW rtt \in Nat, NEW inflight \in Nat, NEW didDrop \in BOOLEAN,
         maxLimit \in Nat, estimatedLimit \in Nat, estimatedLimit >= 10, rttNoLoad \in Nat,
         resetRttCounter \in Nat \ {0},
         G!OnSample(rtt, inflight, didDrop)
  PROVE  /\ estimatedLimit' \in Nat /\ estimatedLimit' >= 10
         /\ \A h \in Nat : 4 <= h /\ maxLimit <= h /\ MinLimit <= h /\ estimatedLimit <= 10 * h =>
              estimatedLimit' <= 10 * h
         /\ estimatedLimit' > estimatedLimit =>
              \/ ~didDrop /\ ~G!Idle(inflight)
              \/ estimatedLimit' <= 10 * MinLimit
              \/ estimatedLimit' <= 40
         /\ rttNoLoad' \in Nat
         /\ \/ rtt = 0 /\ UNCHANGED <<rttNoLoad, resetRttCounter>>
            \/ /\ rtt # 0 /\ resetRttCounter <= 1 /\ rttNoLoad' = 0
               /\ resetRttCounter' \in ProbeInterval .. 2 * ProbeInterval - 1
            \/ /\ rtt # 0 /\ resetRttCounter > 1
               /\ resetRttCounter' = resetRttCounter - 1
               /\ rttNoLoad' = IF rttNoLoad = 0 \/ rtt < rttNoLoad THEN rtt ELSE rttNoLoad
<1>1. MinLimit \in Nat /\ ProbeInterval \in Nat /\ RttTolerance \in Nat
  BY AdaptiveAssumption
<1>2. /\ G!queueSize \in Nat /\ G!queueSize >= 40
      /\ G!queueSize = 40 \/ G!queueSize <= estimatedLimit
      /\ \A h \in Nat : 4 <= h /\ estimatedLimit <= 10 * h => G!queueSize <= 10 * h
  BY QueueSizeIs
<1>3. CASE rtt = 0
  BY <1>3 DEF G!OnSample
<1>4. CASE rtt # 0 /\ G!Probe
  <2>1. /\ estimatedLimit' = G!Greatest(10 * MinLimit, G!queueSize) /\ rttNoLoad' = 0
        /\ resetRttCounter' \in ProbeInterval .. 2 * ProbeInterval - 1
        /\ resetRttCounter <= 1
    BY <1>4 DEF G!Probe, G!nextProbeCountdown
  <2>2. PICK e \in Nat : /\ e = estimatedLimit' /\ e >= 40
                         /\ e = 10 * MinLimit \/ e = G!queueSize
    BY <1>1, <1>2, <2>1 DEF G!Greatest
  <2>3. ASSUME NEW h \in Nat, 4 <= h, MinLimit <= h, estimatedLimit <= 10 * h PROVE e <= 10 * h
    <3>1. G!queueSize <= 10 * h
      BY <1>2, <2>3
    <3>. QED BY <1>1, <2>2, <2>3, <3>1
  <2>4. e <= estimatedLimit \/ e <= 10 * MinLimit \/ e <= 40
    BY <1>1, <1>2, <2>2
  <2>. QED BY <1>1, <1>4, <2>1, <2>2, <2>3, <2>4
<1>5. CASE rtt # 0 /\ G!Update(rtt, inflight, didDrop)
  <2>1. /\ resetRttCounter > 1 /\ resetRttCounter' = resetRttCounter - 1
        /\ rttNoLoad' = IF rttNoLoad = 0 \/ rtt < rttNoLoad THEN rtt ELSE rttNoLoad
        /\ rttNoLoad' \in Nat
    BY <1>5 DEF G!Update
  <2>2. PICK noLoad \in Nat : noLoad = rttNoLoad'
    BY <2>1
  <2>3. CASE ~didDrop /\ G!Idle(inflight)
    BY <1>5, <2>1, <2>3 DEF G!Update
  <2>4. CASE ~(~didDrop /\ G!Idle(inflight))
    <3>1. PICK n : /\ n = (IF didDrop THEN G!backoff ELSE G!Grown(noLoad, rtt))
                   /\ estimatedLimit' = G!Clamped(G!Smoothed(n))
      BY <1>5, <2>2, <2>4 DEF G!Update
    <3>2. G!backoff \in Int /\ G!backoff <= estimatedLimit
      BY DEF G!backoff
    <3>3. G!Grown(noLoad, rtt) \in Int
      <4>1. PICK d \in Nat \ {0} : d = rtt
        BY <1>5
      <4>2. PICK p \in Nat : p = 100 * RttTolerance * noLoad
        BY <1>1
      <4>3. p \div d \in Int
        BY <4>1, <4>2
      <4>4. PICK g \in Int : g = G!gradient(noLoad, rtt)
        BY <4>1, <4>2, <4>3 DEF G!gradient, G!Least, G!Greatest
      <4>5. (estimatedLimit * g) \div 1000 \in Int
        OBVIOUS
      <4>. QED BY <1>2, <4>4, <4>5 DEF G!Grown
    <3>4. n \in Int /\ (didDrop => n <= estimatedLimit)
      BY <3>1, <3>2, <3>3
    <3>5. PICK e \in Nat :
            /\ e = estimatedLimit' /\ e >= 40
            /\ \A h \in Nat : 4 <= h /\ maxLimit <= h /\ estimatedLimit <= 10 * h => e <= 10 * h
            /\ n <= estimatedLimit => e <= estimatedLimit \/ e <= 10 * MinLimit \/ e <= 40
      BY <3>1, <3>4, GradientClamps
    <3>6. didDrop => e <= estimatedLimit \/ e <= 10 * MinLimit \/ e <= 40
      BY <3>4, <3>5
    <3>. QED BY <1>1, <1>5, <2>1, <2>4, <3>5, <3>6
  <2>. QED BY <2>3, <2>4
<1>. QED BY <1>3, <1>4, <1>5 DEF G!OnSample

Average == [count : Nat, sum : Nat, value : Nat]

(* The moving average keeps its type.                                      *)
LEMMA AverageTyped ==
  ASSUME NEW avg \in Average, NEW rtt \in Nat
  PROVE  G2!Relaxed(G2!add(avg, rtt), rtt) \in Average
<1>1. LongWindow \in Nat \ {0}
  BY AdaptiveAssumption
<1>2. avg.count \in Nat /\ avg.sum \in Nat /\ avg.value \in Nat
  BY DEF Average
<1>3. (avg.sum + 10 * rtt) \div (avg.count + 1) \in Nat
  <2>1. PICK p \in Nat : p = avg.sum + 10 * rtt
    BY <1>2
  <2>2. PICK d \in Nat \ {0} : d = avg.count + 1
    BY <1>2
  <2>. QED BY <2>1, <2>2
<1>4. (avg.value * (LongWindow - 1) + 20 * rtt) \div (LongWindow + 1) \in Nat
  <2>1. PICK p \in Nat : p = avg.value * (LongWindow - 1) + 20 * rtt
    <3>1. PICK l \in Nat : l = LongWindow - 1
      BY <1>1
    <3>2. avg.value * l \in Nat
      BY <1>2
    <3>. QED BY <3>1, <3>2
  <2>2. PICK d \in Nat \ {0} : d = LongWindow + 1
    BY <1>1
  <2>. QED BY <2>1, <2>2
<1>5. PICK a \in Average : a = G2!add(avg, rtt)
  <2>1. CASE avg.count < Warmup
    <3>1. G2!add(avg, rtt) = [count |-> avg.count + 1, sum |-> avg.sum + 10 * rtt,
                              value |-> (avg.sum + 10 * rtt) \div (avg.count + 1)]
      BY <2>1 DEF G2!add
    <3>. QED BY <1>2, <1>3, <3>1 DEF Average
  <2>2. CASE ~(avg.count < Warmup)
    <3>1. PICK v \in Nat : v = (avg.value * (LongWindow - 1) + 20 * rtt) \div (LongWindow + 1)
      BY <1>4
    <3>2. G2!add(avg, rtt) = [avg EXCEPT !.value = v]
      BY <2>2, <3>1 DEF G2!add
    <3>. QED BY <3>1, <3>2 DEF Average
  <2>. QED BY <2>1, <2>2
<1>6. a.value \in Nat /\ (95 * a.value) \div 100 \in Nat
  BY <1>5 DEF Average
<1>. QED BY <1>5, <1>6 DEF G2!Relaxed, Average

(* A sample of Gradient2Limit.                                             *)
LEMMA Gradient2Sample ==
  ASSUME NEW rtt \in Nat, NEW inflight \in Nat, NEW didDrop \in BOOLEAN,
         maxLimit \in Nat, estimatedLimit \in Nat, estimatedLimit >= 10,
         longRtt \in Average,
         G2!OnSample(rtt, inflight, didDrop)
  PROVE  /\ estimatedLimit' \in Nat
         /\ estimatedLimit' >= 10 * MinLimit \/ estimatedLimit' = estimatedLimit
         /\ \A h \in Nat : maxLimit <= h /\ MinLimit <= h /\ estimatedLimit <= 10 * h =>
              estimatedLimit' <= 10 * h
         /\ estimatedLimit' > estimatedLimit => ~G2!Idle(inflight)
         /\ longRtt' \in Average
<1>1. MinLimit \in Nat /\ QueueSize \in Nat /\ RttTolerance \in Nat
  BY AdaptiveAssumption
<1>2. CASE rtt = 0
  BY <1>2 DEF G2!OnSample
<1>3. CASE rtt # 0 /\ G2!Idle(inflight)
  BY <1>3, AverageTyped DEF G2!OnSample
<1>4. CASE rtt # 0 /\ ~G2!Idle(inflight)
  <2>1. estimatedLimit' = G2!Update(rtt) /\ longRtt' = G2!Relaxed(G2!add(longRtt, rtt), rtt)
    BY <1>4 DEF G2!OnSample
  <2>2. PICK avg \in Average : avg = longRtt'
    BY <2>1, AverageTyped
  <2>3. PICK g \in Int : g = G2!gradient(avg, rtt)
    <3>1. PICK d \in Nat \ {0} : d = rtt
      BY <1>4
    <3>2. PICK p \in Nat : p = 10 * RttTolerance * avg.value
      BY <1>1, <2>2 DEF Average
    <3>3. p \div d \in Int
      BY <3>1, <3>2
    <3>. QED BY <3>1, <3>2, <3>3 DEF G2!gradient, G2!Least, G2!Greatest
  <2>4. PICK n \in Int : n = (estimatedLimit * g) \div 1000 + 10 * QueueSize
    BY <1>1
  <2>5. PICK s \in Int : s = G2!Smoothed(n)
    BY SmoothedBetween, AdaptiveAssumption DEF G2!Smoothed
  <2>6. estimatedLimit' = G2!Clamped(s)
    BY <2>1, <2>2, <2>3, <2>4, <2>5 DEF G2!Update
  <2>7. PICK e \in Nat : /\ e = estimatedLimit' /\ e >= 10 * MinLimit
                         /\ e = 10 * MinLimit \/ e <= 10 * maxLimit
    BY <1>1, <2>6 DEF G2!Clamped, G2!Least, G2!Greatest
  <2>. QED BY <1>1, <1>4, <2>2, <2>7
<1>. QED BY <1>2, <1>3, <1>4

-----------------------------------------------------------------------------
(* The inductive invariant.                                                *)

AlgorithmTyped ==
  /\ stack \in Stacks /\ maxLimit \in MaxLimits
  /\ estimatedLimit \in Nat /\ rttNoLoad \in Nat
  /\ probeCount \in Nat /\ probeJitter \in Jitters
  /\ longRtt \in Average
  /\ sinceProbe \in Nat

(* What is left of the wait for the next probe.                            *)
BaselineInv ==
  /\ BaselineRenewed
  /\ Runs("gradient") => /\ resetRttCounter \in Nat \ {0}
                         /\ sinceProbe + resetRttCounter < 2 * ProbeInterval
  /\ Runs("vegas") => sinceProbe = probeCount

AdaptiveInv == AlgorithmTyped /\ LimitInRange /\ BaselineInv /\ WindowInv /\ MembersInv

(* The bounds that the limits are held to.                                 *)
LEMMA BoundFacts ==
  ASSUME maxLimit \in MaxLimits
  PROVE  /\ maxLimit \in Nat /\ InitialLimit \in Nat \ {0} /\ MinLimit \in Nat \ {0}
         /\ LET h == Highest({InitialLimit, maxLimit})
            IN  h \in Nat /\ InitialLimit <= h /\ maxLimit <= h
         /\ LET h == Highest({InitialLimit, maxLimit, MinLimit})
            IN  h \in Nat /\ InitialLimit <= h /\ maxLimit <= h /\ MinLimit <= h
         /\ LET h == Highest({InitialLimit, maxLimit, MinLimit, 4})
            IN  h \in Nat /\ InitialLimit <= h /\ maxLimit <= h /\ MinLimit <= h /\ 4 <= h
<1>1. maxLimit \in Nat /\ InitialLimit \in Nat \ {0} /\ MinLimit \in Nat \ {0}
  BY AdaptiveAssumption
<1>0. InitialLimit \in Int /\ maxLimit \in Int /\ MinLimit \in Int /\ 4 \in Int
  BY <1>1
<1>2. LET h == Highest({InitialLimit, maxLimit})
      IN  h \in {InitialLimit, maxLimit} /\ InitialLimit <= h /\ maxLimit <= h
  BY <1>0, HighestOfTwo
<1>3. LET h == Highest({InitialLimit, maxLimit, MinLimit})
      IN  h \in {InitialLimit, maxLimit, MinLimit}
          /\ InitialLimit <= h /\ maxLimit <= h /\ MinLimit <= h
  BY <1>0, HighestOfThree, Zenon
<1>4. LET h == Highest({InitialLimit, maxLimit, MinLimit, 4})
      IN  h \in {InitialLimit, maxLimit, MinLimit, 4}
          /\ InitialLimit <= h /\ maxLimit <= h /\ MinLimit <= h /\ 4 <= h
  BY <1>0, HighestOfFour, Zenon
<1>. QED BY <1>1, <1>2, <1>3, <1>4

(* The states that the program starts in.                                  *)
LEMMA InitInv == Init => AdaptiveInv
<1>. SUFFICES ASSUME Init PROVE AdaptiveInv
  OBVIOUS
<1>1. maxLimit \in MaxLimits /\ stack \in Stacks
  BY DEF Init
<1>2. /\ estimatedLimit = 10 * InitialLimit /\ rttNoLoad = 0 /\ probeCount = 0
      /\ probeJitter \in Jitters /\ longRtt = [count |-> 0, sum |-> 0, value |-> 0]
      /\ observed = 0 /\ sinceProbe = 0
      /\ Runs("gradient") => resetRttCounter \in ProbeInterval .. 2 * ProbeInterval - 1
  BY DEF Init, V!Init, G!Init, G2!Init, G!nextProbeCountdown
<1>3. AlgorithmTyped
  BY <1>1, <1>2, BoundFacts DEF AlgorithmTyped, Average
<1>4. LimitInRange
  BY <1>1, <1>2, BoundFacts DEF LimitInRange
<1>5. BaselineInv
  <2>1. ProbeInterval \in Nat \ {0} /\ ProbeMultiplier \in Nat \ {0}
    BY AdaptiveAssumption
  <2>2. PICK h \in Nat \ {0} : h = Highest({InitialLimit, maxLimit})
    BY <1>1, BoundFacts
  <2>3. 0 < ProbeMultiplier * h
    BY <2>1, <2>2
  <2>. QED BY <1>2, <2>1, <2>2, <2>3 DEF BaselineInv, BaselineRenewed
<1>6. WindowInv
  BY DEF Init, WindowInit, WindowInv, Empty, Window, Nothing, Sample
<1>7. MembersInv
  <2>1. In(Nobody) = {} /\ Nobody \in Members
    BY DEF In, Nobody, Members
  <2>. QED BY <2>1, NobodyTotals DEF Init, WindowInit, MembersInv, Worst, Empty
<1>. QED BY <1>3, <1>4, <1>5, <1>6, <1>7 DEF AdaptiveInv

(* A product grows with either factor.                                     *)
LEMMA ProductMonotone ==
  ASSUME NEW a \in Nat, NEW b \in Nat, NEW c \in Nat, NEW d \in Nat, a <= b, c <= d
  PROVE  a * c <= b * d /\ a * c \in Nat /\ b * d \in Nat
<1>1. PICK x \in Nat : b = a + x
  <2>1. b - a \in Nat /\ b = a + (b - a)
    OBVIOUS
  <2>. QED BY <2>1
<1>2. PICK y \in Nat : d = c + y
  <2>1. d - c \in Nat /\ d = c + (d - c)
    OBVIOUS
  <2>. QED BY <2>1
<1>3. b * d = a * c + a * y + x * c + x * y
  BY <1>1, <1>2
<1>4. a * c \in Nat /\ a * y \in Nat /\ x * c \in Nat /\ x * y \in Nat
  BY <1>1, <1>2
<1>. QED BY <1>3, <1>4

(* VegasLimit waits no longer for its next probe than the largest limit    *)
(* asks for.                                                               *)
LEMMA ProbeComes ==
  ASSUME NEW h \in Nat, estimatedLimit \in Nat, estimatedLimit <= 10 * h,
         probeJitter \in Jitters, NEW n \in Nat, ~V!shouldProbe(n)
  PROVE  n < ProbeMultiplier * h
<1>1. /\ probeJitter \in Nat /\ JitterUnit \in Nat /\ probeJitter <= JitterUnit
      /\ ProbeMultiplier \in Nat
  BY AdaptiveAssumption DEF JitterRange
<1>2. PICK p \in Nat : p = ProbeMultiplier * estimatedLimit
  BY <1>1
<1>3. PICK m \in Nat : m = ProbeMultiplier * h
  BY <1>1
<1>4. probeJitter * ProbeMultiplier * estimatedLimit = probeJitter * p
  BY <1>1, <1>2
<1>5. p <= 10 * m
  <2>1. ProbeMultiplier * estimatedLimit <= ProbeMultiplier * (10 * h)
    BY <1>1, ProductMonotone
  <2>2. ProbeMultiplier * (10 * h) = 10 * (ProbeMultiplier * h)
    BY <1>1
  <2>. QED BY <1>2, <1>3, <2>1, <2>2
<1>6. probeJitter * p <= JitterUnit * (10 * m)
  BY <1>1, <1>2, <1>3, <1>5, ProductMonotone
<1>7. ~(m <= n)
  <2>. SUFFICES ASSUME m <= n PROVE FALSE
    OBVIOUS
  <2>1. JitterUnit * (10 * m) <= JitterUnit * (10 * n)
    BY <1>1, <1>3, ProductMonotone
  <2>2. JitterUnit * (10 * n) = 10 * JitterUnit * n
    BY <1>1
  <2>3. ~(probeJitter * p <= 10 * JitterUnit * n)
    BY <1>4 DEF V!shouldProbe
  <2>4. /\ probeJitter * p \in Nat /\ JitterUnit * (10 * m) \in Nat /\ JitterUnit * (10 * n) \in Nat
    BY <1>1, <1>2, <1>3
  <2>. QED BY <1>6, <2>1, <2>2, <2>3, <2>4
<1>. QED BY <1>3, <1>7

(* A sample that the algorithm takes note of.                              *)
AlgorithmInv == AlgorithmTyped /\ LimitInRange /\ BaselineInv

RaisedForLoad ==
  estimatedLimit' > estimatedLimit =>
    \/ verdict' = "loaded"
    \/ Runs("gradient2") /\ verdict' = "drop"
    \/ Runs("gradient") /\ estimatedLimit' <= 10 * Highest({MinLimit, 4})

(* What the verdict says of a sample.                                      *)
LEMMA VerdictIs ==
  ASSUME NEW x \in Sample, OnSample(x), estimatedLimit \in Nat
  PROVE  /\ ~x.didDrop /\ ~(20 * x.inflight < estimatedLimit) => verdict' = "loaded"
         /\ ~(20 * x.inflight < estimatedLimit) => verdict' \in {"drop", "loaded"}
         /\ x.rtt \in Nat /\ x.inflight \in Nat /\ x.didDrop \in BOOLEAN
<1>1. x.rtt \in Nat /\ x.inflight \in Nat /\ x.didDrop \in BOOLEAN
  BY DEF Sample
<1>2. verdict' = Verdict(x)
  BY DEF OnSample
<1>. QED BY <1>1, <1>2 DEF Verdict

(* A sample of VegasLimit.                                                 *)
LEMMA VegasKeeps ==
  ASSUME AlgorithmInv, Runs("vegas"), NEW x \in Sample, OnSample(x), UNCHANGED <<stack, maxLimit>>
  PROVE  AlgorithmInv' /\ RaisedForLoad
<1>1. /\ stack' = stack /\ maxLimit' = maxLimit
      /\ Runs("vegas")' /\ ~Runs("gradient") /\ ~Runs("gradient2") /\ ~Runs("fixed")
      /\ ~Runs("gradient")' /\ ~Runs("gradient2")'
  BY DEF Runs
<1>2. /\ stack \in Stacks /\ maxLimit \in MaxLimits /\ maxLimit \in Nat
      /\ estimatedLimit \in Nat /\ estimatedLimit >= 10 /\ rttNoLoad \in Nat
      /\ probeCount \in Nat /\ probeJitter \in Jitters /\ longRtt \in Average /\ sinceProbe \in Nat
      /\ rttNoLoad = observed /\ sinceProbe = probeCount
  BY <1>1, BoundFacts
     DEF AlgorithmInv, AlgorithmTyped, LimitInRange, BaselineInv, BaselineRenewed
<1>3. V!OnSample(x.rtt, x.inflight, x.didDrop) /\ longRtt' = longRtt /\ Observe(x)
  BY <1>1 DEF OnSample
<1>4. /\ estimatedLimit' \in Nat /\ estimatedLimit' >= 10
      /\ \A h \in Nat : estimatedLimit <= 10 * h /\ maxLimit <= h => estimatedLimit' <= 10 * h
      /\ estimatedLimit' > estimatedLimit => ~x.didDrop /\ ~V!Idle(x.inflight)
      /\ rttNoLoad' \in Nat /\ probeCount' \in Nat /\ probeJitter' \in Jitters
      /\ \/ x.rtt = 0 /\ UNCHANGED <<rttNoLoad, probeCount>>
         \/ /\ x.rtt # 0 /\ V!shouldProbe(probeCount + 1)
            /\ probeCount' = 0 /\ rttNoLoad' = x.rtt
         \/ /\ x.rtt # 0 /\ ~V!shouldProbe(probeCount + 1)
            /\ probeCount' = probeCount + 1
            /\ rttNoLoad' = IF rttNoLoad = 0 \/ x.rtt < rttNoLoad THEN x.rtt ELSE rttNoLoad
  BY <1>2, <1>3, VerdictIs, VegasSample
<1>5. PICK h \in Nat : /\ h = Highest({InitialLimit, maxLimit}) /\ maxLimit <= h /\ h # 0
                       /\ estimatedLimit <= 10 * h
                       /\ sinceProbe < ProbeMultiplier * h
  BY <1>1, <1>2, BoundFacts
     DEF AlgorithmInv, LimitInRange, BaselineInv, BaselineRenewed
<1>6. LimitInRange'
  BY <1>1, <1>4, <1>5 DEF LimitInRange
<1>7. RaisedForLoad
  BY <1>2, <1>4, VerdictIs DEF RaisedForLoad, V!Idle
<1>8. Probes <=> V!shouldProbe(probeCount + 1)
  BY <1>1 DEF Probes
<1>9. /\ rttNoLoad' = observed' /\ sinceProbe' = probeCount'
      /\ sinceProbe' \in {sinceProbe, 0, sinceProbe + 1}
  BY <1>1, <1>2, <1>3, <1>4, <1>8, VerdictIs DEF Observe
<1>10. ProbeMultiplier \in Nat \ {0} /\ ProbeMultiplier * h \in Nat \ {0}
  BY <1>5, AdaptiveAssumption
<1>11. sinceProbe' < ProbeMultiplier * h
  <2>1. CASE V!shouldProbe(probeCount + 1) \/ x.rtt = 0
    BY <1>2, <1>4, <1>5, <1>9, <1>10, <2>1
  <2>2. CASE ~V!shouldProbe(probeCount + 1) /\ x.rtt # 0
    <3>1. probeCount + 1 < ProbeMultiplier * h
      BY <1>2, <1>5, <2>2, ProbeComes
    <3>. QED BY <1>4, <1>9, <2>2, <3>1
  <2>. QED BY <2>1, <2>2
<1>12. BaselineInv'
  BY <1>1, <1>5, <1>9, <1>11 DEF BaselineInv, BaselineRenewed
<1>13. AlgorithmTyped'
  BY <1>1, <1>2, <1>3, <1>4, <1>9 DEF AlgorithmTyped
<1>. QED BY <1>6, <1>7, <1>12, <1>13 DEF AlgorithmInv

(* A sample of GradientLimit.                                              *)
LEMMA GradientKeeps ==
  ASSUME AlgorithmInv, Runs("gradient"), NEW x \in Sample, OnSample(x),
         UNCHANGED <<stack, maxLimit>>
  PROVE  AlgorithmInv' /\ RaisedForLoad
<1>1. /\ stack' = stack /\ maxLimit' = maxLimit
      /\ Runs("gradient")' /\ ~Runs("vegas") /\ ~Runs("gradient2") /\ ~Runs("fixed")
      /\ ~Runs("vegas")' /\ ~Runs("gradient2")'
  BY DEF Runs
<1>2. /\ stack \in Stacks /\ maxLimit \in MaxLimits
      /\ maxLimit \in Nat /\ MinLimit \in Nat \ {0}
      /\ estimatedLimit \in Nat /\ estimatedLimit >= 10 /\ rttNoLoad \in Nat
      /\ probeCount \in Nat /\ probeJitter \in Jitters /\ longRtt \in Average /\ sinceProbe \in Nat
      /\ rttNoLoad = observed /\ resetRttCounter \in Nat \ {0}
      /\ sinceProbe + resetRttCounter < 2 * ProbeInterval
  BY <1>1, BoundFacts
     DEF AlgorithmInv, AlgorithmTyped, LimitInRange, BaselineInv, BaselineRenewed
<1>3. /\ G!OnSample(x.rtt, x.inflight, x.didDrop) /\ Observe(x)
      /\ UNCHANGED <<probeCount, probeJitter, longRtt>>
  BY <1>1 DEF OnSample
<1>4. /\ estimatedLimit' \in Nat /\ estimatedLimit' >= 10
      /\ \A h \in Nat : 4 <= h /\ maxLimit <= h /\ MinLimit <= h /\ estimatedLimit <= 10 * h =>
           estimatedLimit' <= 10 * h
      /\ estimatedLimit' > estimatedLimit =>
           \/ ~x.didDrop /\ ~G!Idle(x.inflight)
           \/ estimatedLimit' <= 10 * MinLimit
           \/ estimatedLimit' <= 40
      /\ rttNoLoad' \in Nat
      /\ \/ x.rtt = 0 /\ UNCHANGED <<rttNoLoad, resetRttCounter>>
         \/ /\ x.rtt # 0 /\ resetRttCounter <= 1 /\ rttNoLoad' = 0
            /\ resetRttCounter' \in ProbeInterval .. 2 * ProbeInterval - 1
         \/ /\ x.rtt # 0 /\ resetRttCounter > 1
            /\ resetRttCounter' = resetRttCounter - 1
            /\ rttNoLoad' = IF rttNoLoad = 0 \/ x.rtt < rttNoLoad THEN x.rtt ELSE rttNoLoad
  BY <1>2, <1>3, VerdictIs, GradientSample
<1>5. PICK h \in Nat : /\ h = Highest({InitialLimit, maxLimit, MinLimit, 4})
                       /\ maxLimit <= h /\ MinLimit <= h /\ 4 <= h
                       /\ estimatedLimit <= 10 * h
  BY <1>1, <1>2, BoundFacts DEF AlgorithmInv, LimitInRange
<1>6. LimitInRange'
  BY <1>1, <1>4, <1>5 DEF LimitInRange
<1>7. RaisedForLoad
  <2>1. PICK f \in Int : f = Highest({MinLimit, 4}) /\ MinLimit <= f /\ 4 <= f
    <3>1. MinLimit \in Int /\ 4 \in Int
      BY <1>2
    <3>2. LET f == Highest({MinLimit, 4}) IN f \in {MinLimit, 4} /\ MinLimit <= f /\ 4 <= f
      BY <3>1, HighestOfTwo
    <3>. QED BY <3>1, <3>2
  <2>2. estimatedLimit' <= 10 * MinLimit \/ estimatedLimit' <= 40 =>
          estimatedLimit' <= 10 * Highest({MinLimit, 4})
    BY <1>2, <1>4, <2>1
  <2>3. ASSUME estimatedLimit' > estimatedLimit, ~x.didDrop /\ ~G!Idle(x.inflight)
        PROVE  verdict' = "loaded"
    BY <1>2, <2>3, VerdictIs DEF G!Idle
  <2>. QED BY <1>1, <1>4, <2>2, <2>3 DEF RaisedForLoad
<1>8. Probes <=> resetRttCounter <= 1
  BY <1>1 DEF Probes
<1>9. ProbeInterval \in Nat \ {0}
  BY AdaptiveAssumption
<1>10. /\ rttNoLoad' = observed' /\ sinceProbe' \in Nat /\ resetRttCounter' \in Nat \ {0}
       /\ sinceProbe' + resetRttCounter' < 2 * ProbeInterval
  <2>1. CASE x.rtt = 0
    BY <1>1, <1>2, <1>3, <1>4, <2>1 DEF Observe
  <2>2. CASE x.rtt # 0 /\ resetRttCounter <= 1
    <3>1. observed' = 0 /\ sinceProbe' = 0
      BY <1>1, <1>2, <1>3, <1>8, <2>2, VerdictIs DEF Observe
    <3>. QED BY <1>2, <1>4, <1>9, <2>2, <3>1
  <2>3. CASE x.rtt # 0 /\ resetRttCounter > 1
    <3>1. /\ sinceProbe' = sinceProbe + 1
          /\ observed' = IF observed = 0 \/ x.rtt < observed THEN x.rtt ELSE observed
      BY <1>1, <1>2, <1>3, <1>8, <2>3, VerdictIs DEF Observe
    <3>. QED BY <1>2, <1>4, <2>3, <3>1
  <2>. QED BY <1>2, <2>1, <2>2, <2>3
<1>11. BaselineInv'
  <2>1. PICK s \in Nat : s = sinceProbe'
    BY <1>10
  <2>2. PICK r \in Nat \ {0} : r = resetRttCounter'
    BY <1>10
  <2>3. s + r < 2 * ProbeInterval
    BY <1>10, <2>1, <2>2
  <2>4. s < 2 * ProbeInterval
    BY <1>9, <2>3
  <2>. QED BY <1>1, <1>10, <2>1, <2>4 DEF BaselineInv, BaselineRenewed
<1>12. AlgorithmTyped'
  BY <1>1, <1>2, <1>3, <1>4, <1>10 DEF AlgorithmTyped
<1>. QED BY <1>6, <1>7, <1>11, <1>12 DEF AlgorithmInv

(* A sample of Gradient2Limit, or of FixedLimit.                           *)
LEMMA OthersKeep ==
  ASSUME AlgorithmInv, Runs("gradient2") \/ Runs("fixed"), NEW x \in Sample, OnSample(x),
         UNCHANGED <<stack, maxLimit>>
  PROVE  AlgorithmInv' /\ RaisedForLoad
<1>1. /\ stack' = stack /\ maxLimit' = maxLimit
      /\ ~Runs("vegas") /\ ~Runs("gradient") /\ ~Runs("vegas")' /\ ~Runs("gradient")'
      /\ Runs("gradient2")' <=> Runs("gradient2")
      /\ ~Runs("gradient2") \/ ~Runs("fixed")
  BY DEF Runs
<1>2. /\ stack \in Stacks /\ maxLimit \in MaxLimits
      /\ maxLimit \in Nat /\ MinLimit \in Nat \ {0}
      /\ estimatedLimit \in Nat /\ estimatedLimit >= 10 /\ rttNoLoad \in Nat
      /\ probeCount \in Nat /\ probeJitter \in Jitters /\ longRtt \in Average /\ sinceProbe \in Nat
  BY <1>1, BoundFacts
     DEF AlgorithmInv, AlgorithmTyped, LimitInRange
<1>3. sinceProbe' = sinceProbe
  BY <1>1 DEF OnSample, Observe
<1>4. BaselineInv'
  BY <1>1 DEF BaselineInv, BaselineRenewed
<1>5. CASE Runs("fixed")
  <2>1. UNCHANGED algorithmVars
    BY <1>1, <1>5 DEF OnSample
  <2>2. LimitInRange'
    BY <1>1, <1>2, <1>5, <2>1 DEF LimitInRange, algorithmVars
  <2>3. AlgorithmTyped'
    BY <1>1, <1>2, <1>3, <2>1 DEF AlgorithmTyped, algorithmVars
  <2>. QED BY <1>2, <1>4, <2>1, <2>2, <2>3 DEF AlgorithmInv, RaisedForLoad, algorithmVars
<1>6. CASE Runs("gradient2")
  <2>1. /\ G2!OnSample(x.rtt, x.inflight, x.didDrop)
        /\ UNCHANGED <<rttNoLoad, probeCount, probeJitter>>
    BY <1>1, <1>6 DEF OnSample
  <2>2. /\ estimatedLimit' \in Nat
        /\ estimatedLimit' >= 10 * MinLimit \/ estimatedLimit' = estimatedLimit
        /\ \A h \in Nat : maxLimit <= h /\ MinLimit <= h /\ estimatedLimit <= 10 * h =>
             estimatedLimit' <= 10 * h
        /\ estimatedLimit' > estimatedLimit => ~G2!Idle(x.inflight)
        /\ longRtt' \in Average
    BY <1>2, <1>6, <2>1, VerdictIs, Gradient2Sample
  <2>3. PICK h \in Nat : /\ h = Highest({InitialLimit, maxLimit, MinLimit})
                         /\ maxLimit <= h /\ MinLimit <= h
                         /\ estimatedLimit <= 10 * h
    BY <1>2, <1>6, BoundFacts DEF AlgorithmInv, LimitInRange
  <2>4. LimitInRange'
    <3>1. /\ estimatedLimit' >= 10
          /\ estimatedLimit' >= 10 * MinLimit \/ estimatedLimit' = 10 * InitialLimit
      BY <1>2, <1>6, <2>2 DEF AlgorithmInv, LimitInRange
    <3>. QED BY <1>1, <1>2, <1>6, <2>2, <2>3, <3>1 DEF LimitInRange
  <2>5. RaisedForLoad
    BY <1>2, <1>6, <2>2, VerdictIs DEF RaisedForLoad, G2!Idle
  <2>6. AlgorithmTyped'
    BY <1>1, <1>2, <1>3, <2>1, <2>2 DEF AlgorithmTyped
  <2>. QED BY <1>4, <2>4, <2>5, <2>6 DEF AlgorithmInv
<1>. QED BY <1>5, <1>6

(* A sample, whatever the algorithm.                                       *)
LEMMA SampleKeeps ==
  ASSUME AlgorithmInv, NEW x \in Sample, OnSample(x), UNCHANGED <<stack, maxLimit>>
  PROVE  AlgorithmInv' /\ RaisedForLoad
<1>1. Runs("fixed") \/ Runs("vegas") \/ Runs("gradient") \/ Runs("gradient2")
  BY DEF OnSample
<1>. QED BY <1>1, VegasKeeps, GradientKeeps, OthersKeep

-----------------------------------------------------------------------------
(* Theorems.                                                               *)

(* A step of the composition is a sample of the algorithm or leaves it     *)
(* alone, and a step of the window or leaves that alone.                   *)
LEMMA StepIs ==
  ASSUME AdaptiveInv, [Next]_vars
  PROVE  /\ UNCHANGED <<stack, maxLimit>>
         /\ UNCHANGED <<algorithmVars, historyVars>> \/ \E x \in Sample : OnSample(x)
         /\ \/ UNCHANGED windowVars
            \/ Tick
            \/ \E c \in Callers : CallerStep(c)
<1>1. CASE Direct
  <2>1. Samples \subseteq Sample
    BY AdaptiveAssumption DEF Sample
  <2>. QED BY <1>1, <2>1 DEF Direct
<1>2. CASE InWindow
  BY <1>2 DEF InWindow, CallerStep
<1>3. ASSUME NEW c \in Callers, DeliverWindow(c)
      PROVE  /\ UNCHANGED <<stack, maxLimit>>
             /\ \E x \in Sample : OnSample(x)
             /\ CallerStep(c)
  BY <1>3 DEF DeliverWindow, CallerStep, AdaptiveInv, WindowInv
<1>4. CASE UNCHANGED vars
  BY <1>4 DEF vars
<1>. QED BY <1>1, <1>2, <1>3, <1>4 DEF Next

(* A step of any caller, or of none, keeps the invariant.                   *)
LEMMA NextInv == AdaptiveInv /\ [Next]_vars => AdaptiveInv'
<1>. SUFFICES ASSUME AdaptiveInv, [Next]_vars PROVE AdaptiveInv'
  OBVIOUS
<1>1. UNCHANGED <<stack, maxLimit>>
  BY StepIs
<1>2. AlgorithmInv'
  <2>1. CASE UNCHANGED <<algorithmVars, historyVars>>
    BY <1>1, <2>1
       DEF algorithmVars, historyVars, AdaptiveInv, AlgorithmInv, AlgorithmTyped, LimitInRange,
           BaselineInv, BaselineRenewed, Runs
  <2>. QED BY <1>1, <2>1, StepIs, SampleKeeps DEF AdaptiveInv, AlgorithmInv
<1>3. WindowInv'
  <2>1. CASE UNCHANGED windowVars
    BY <2>1 DEF windowVars, AdaptiveInv, WindowInv
  <2>2. CASE Tick
    BY <2>2 DEF Tick, AdaptiveInv, WindowInv
  <2>. QED BY <2>1, <2>2, StepIs, CallerKeepsWindow DEF AdaptiveInv
<1>4. MembersInv'
  <2>1. CASE UNCHANGED windowVars
    BY <2>1 DEF windowVars, AdaptiveInv, MembersInv
  <2>2. CASE Tick
    BY <2>2 DEF Tick, AdaptiveInv, MembersInv
  <2>. QED BY <2>1, <2>2, StepIs, CallerKeepsMembers DEF AdaptiveInv
<1>. QED BY <1>2, <1>3, <1>4 DEF AdaptiveInv, AlgorithmInv

(* The algorithms and the window keep their invariants.                    *)
THEOREM AdaptiveInvariant == Spec => []AdaptiveInv
BY InitInv, NextInv, PTL DEF Spec

(* The published limit stays positive and under its bound: OnSample of     *)
(* every algorithm, for every sequence of samples.                         *)
THEOREM LimitsStayInRange == Spec => []LimitInRange
<1>1. AdaptiveInv => LimitInRange
  BY DEF AdaptiveInv
<1>. QED BY <1>1, AdaptiveInvariant, PTL

(* The baseline of VegasLimit and of GradientLimit is the least round trip *)
(* since the last probe, and the next probe comes in time.                 *)
THEOREM BaselineIsRenewed == Spec => []BaselineRenewed
<1>1. AdaptiveInv => BaselineRenewed
  BY DEF AdaptiveInv, BaselineInv
<1>. QED BY <1>1, AdaptiveInvariant, PTL

(* A drop or an idle service raises no limit.                              *)
THEOREM LoadRaisesTheLimit == Spec => RaisedOnlyWhenLoaded
<1>1. AdaptiveInv /\ [Next]_vars => [RaisedForLoad]_vars
  <2>. SUFFICES ASSUME AdaptiveInv, [Next]_vars PROVE RaisedForLoad
    OBVIOUS
  <2>1. CASE UNCHANGED <<algorithmVars, historyVars>>
    BY <2>1 DEF algorithmVars, RaisedForLoad, AdaptiveInv, AlgorithmTyped
  <2>. QED BY <2>1, StepIs, SampleKeeps DEF AdaptiveInv, AlgorithmInv
<1>. QED BY <1>1, AdaptiveInvariant, PTL DEF Spec, RaisedOnlyWhenLoaded, RaisedForLoad

(* What a caller delivers is its window and nothing of another: the mean   *)
(* round trip of enough samples, the largest concurrency, and a drop if    *)
(* there was one.                                                          *)
THEOREM WindowsAreFaithful == Spec => []WindowFaithful
<1>1. AdaptiveInv => WindowFaithful
  BY DeliversWorst, DeliversMean DEF AdaptiveInv, WindowFaithful
<1>. QED BY <1>1, AdaptiveInvariant, PTL

(* Windows do not overlap, whatever the order in which their callers come  *)
(* to the lock.                                                            *)
THEOREM WindowsStayApart == Spec => WindowsApart
<1>. DEFINE Apart == nextUpdate' # nextUpdate =>
                       /\ nextUpdate # 0 => nextUpdate' > nextUpdate + minWindowTime
                       /\ nextUpdate' <= now + maxWindowTime
<1>1. AdaptiveInv /\ [Next]_vars => [Apart]_windowVars
  <2>. SUFFICES ASSUME AdaptiveInv, [Next]_vars PROVE UNCHANGED windowVars \/ Apart
    OBVIOUS
  <2>1. CASE Tick
    BY <2>1 DEF Tick
  <2>. QED BY <2>1, StepIs, WindowMovesOn DEF AdaptiveInv
<1>. QED BY <1>1, AdaptiveInvariant, PTL DEF Spec, WindowsApart
=============================================================================
