----------------------------- MODULE CodelProofs -----------------------------
(***************************************************************************)
(* Proofs about Codel for every number of calls, workers and places, every *)
(* target and interval, and with or without adaptive LIFO.                 *)
(***************************************************************************)
EXTENDS Codel, TLAPS, FiniteSetTheorems, SequenceTheorems, WellFoundedInduction

(* The buffer as a sequence.                                               *)

(* What is left, place by place, when one element is taken out.            *)
LEMMA RemoveElements ==
  ASSUME NEW S, NEW s \in Seq(S), NEW k \in 1 .. Len(s)
  PROVE  LET t == SubSeq(s, 1, k - 1) \o SubSeq(s, k + 1, Len(s))
         IN  /\ DOMAIN s = 1 .. Len(s) /\ Len(s) \in Nat
             /\ t \in Seq(S) /\ Len(t) = Len(s) - 1 /\ DOMAIN t = 1 .. Len(s) - 1
             /\ \A i \in 1 .. Len(s) - 1 : t[i] = IF i < k THEN s[i] ELSE s[i + 1]
             /\ \A i \in 1 .. Len(s) : s[i] \in S
<1>1. DOMAIN s = 1 .. Len(s) /\ Len(s) \in Nat /\ \A i \in 1 .. Len(s) : s[i] \in S
  OBVIOUS
<1>. DEFINE a == SubSeq(s, 1, k - 1)
<1>. DEFINE b == SubSeq(s, k + 1, Len(s))
<1>2. a \in Seq(S) /\ Len(a) = k - 1 /\ \A i \in 1 .. k - 1 : a[i] = s[i]
  OBVIOUS
<1>3. b \in Seq(S) /\ Len(b) = Len(s) - k /\ \A i \in 1 .. Len(s) - k : b[i] = s[i + k]
  OBVIOUS
<1>. HIDE DEF a, b
<1>4. /\ a \o b \in Seq(S) /\ Len(a \o b) = Len(a) + Len(b)
      /\ \A i \in 1 .. Len(a) + Len(b) :
           (a \o b)[i] = IF i <= Len(a) THEN a[i] ELSE b[i - Len(a)]
  BY <1>2, <1>3, ConcatProperties
<1>5. Len(a) + Len(b) = Len(s) - 1 /\ Len(a) = k - 1
  BY <1>1, <1>2, <1>3
<1>6. DOMAIN (a \o b) = 1 .. Len(s) - 1
  BY <1>4, <1>5
<1>7. ASSUME NEW i \in 1 .. Len(s) - 1
      PROVE  (a \o b)[i] = IF i < k THEN s[i] ELSE s[i + 1]
  <2>1. (a \o b)[i] = IF i <= k - 1 THEN a[i] ELSE b[i - (k - 1)]
    BY <1>4, <1>5
  <2>2. CASE i < k
    <3>1. i \in 1 .. k - 1
      BY <2>2
    <3>. QED BY <1>2, <2>1, <3>1, <2>2
  <2>3. CASE ~(i < k)
    <3>1. i - (k - 1) \in 1 .. Len(s) - k /\ (i - (k - 1)) + k = i + 1 /\ ~(i <= k - 1)
      BY <1>1, <2>3
    <3>2. b[i - (k - 1)] = s[i + 1]
      BY <1>3, <3>1
    <3>. QED BY <2>1, <2>3, <3>1, <3>2
  <2>. QED BY <2>2, <2>3
<1>. QED BY <1>1, <1>4, <1>5, <1>6, <1>7 DEF a, b

-----------------------------------------------------------------------------
(* A worker holds a task exactly while it is busy with one.                *)
JobOK ==
  \A w \in Workers :
    job[w] # None <=> worker[w] \in {"discarding", "took", "running", "ended"}

Typed == TypeOK /\ JobOK

(* The queue is in the order of its time stamps and within its capacity.   *)
Ordered ==
  /\ Len(buf) <= QueueCapacity
  /\ \A i \in DOMAIN buf : buf[i].enq <= now
  /\ \A i, j \in DOMAIN buf : i <= j => buf[i].enq <= buf[j].enq

(* The timer of the standing queue was set no earlier than the last time   *)
(* the oldest task was found below the target.                             *)
ControlInv ==
  /\ ControlConsistent
  /\ lastBelow <= now
  /\ firstAbove # 0 => lastBelow + Interval <= firstAbove

(* Stop wakes everybody, and only a drained pool loses workers.            *)
StopInv ==
  /\ closed <=> OnceTaken
  /\ closed => Parked = {}
  /\ \A w \in Workers : worker[w] = "exited" => closed /\ buf = <<>>

(* Where a request can be: it has not entered the queue;                   *)
Outside(r) ==
  /\ pc[r] \in {"new", "gated"} /\ result[r] = "none"
  /\ verdicts[r] = <<>> /\ outcome[r] = "none" /\ r \notin Queued /\ ~OnWorker(r)

(* it was answered with an error;                                          *)
Refused(r) ==
  /\ pc[r] = "returned" /\ result[r] \in Sheds
  /\ verdicts[r] = IF result[r] = "overloaded" THEN <<>> ELSE <<FALSE>>
  /\ outcome[r] = "none" /\ r \notin Queued /\ ~OnWorker(r)

Inside(r) == pc[r] \in {"waiting", "returned"} /\ result[r] \notin Sheds

(* it is queued;                                                           *)
InBuffer(r) ==
  /\ Inside(r)
  /\ verdicts[r] = <<>> /\ outcome[r] = "none" /\ r \in Queued /\ ~OnWorker(r)

(* a worker holds it, and no other does;                                   *)
HeldBy(r, w) ==
  /\ Inside(r) /\ r \notin Queued
  /\ \A v \in Workers : job[v] = r <=> v = w
  /\ verdicts[r] = <<>>
  /\ outcome[r] = IF worker[w] = "ended" THEN "ran" ELSE "none"

(* or it is over, one way or the other.                                    *)
Past(r) ==
  /\ Inside(r)
  /\ Len(verdicts[r]) = 1 /\ outcome[r] \in {"ran", "dropped"}
  /\ outcome[r] = "dropped" => verdicts[r] = <<FALSE>>
  /\ r \notin Queued /\ ~OnWorker(r)

PlaceOK(r) ==
  \/ Outside(r) \/ Refused(r) \/ InBuffer(r) \/ Past(r)
  \/ \E w \in Workers : HeldBy(r, w)

QueuedOnce == \A i, j \in DOMAIN buf : buf[i].task = buf[j].task => i = j

Placed == QueuedOnce /\ \A r \in Requests : PlaceOK(r)

-----------------------------------------------------------------------------
(* The control law's square root.                                          *)

(* A nonempty set of natural numbers has a least element.                  *)
LEMMA LeastElement ==
  ASSUME NEW T, T \subseteq Nat, T # {}
  PROVE  \E x \in T : \A y \in T : x <= y
<1>1. IsWellFoundedOn({p \in Nat \X Nat : p[1] < p[2]}, Nat)
  BY NatLessThanWellFounded DEF OpToRel
<1>2. PICK x \in T : \A y \in T : ~ (<<y, x>> \in {p \in Nat \X Nat : p[1] < p[2]})
  BY <1>1, WFMin
<1>3. ASSUME NEW y \in T PROVE x <= y
  <2>1. x \in Nat /\ y \in Nat /\ <<y, x>> \in Nat \X Nat
    OBVIOUS
  <2>2. ~ (y < x)
    BY <1>2, <2>1
  <2>. QED BY <2>1, <2>2
<1>. QED BY <1>3

(* The delay before the next drop exists, never exceeds the interval, and  *)
(* is the interval itself for the first drop.                              *)
LEMMA DropDelayIs ==
  ASSUME NEW n \in Nat, n >= 1
  PROVE  DropDelay(n) \in 0 .. Interval /\ (n = 1 => DropDelay(n) = Interval)
<1>. DEFINE T == {d \in Nat : (d + 1) * (d + 1) * n > Interval * Interval}
<1>0. Interval \in Nat
  BY CodelAssumption
<1>1. Interval \in T
  <2>1. (Interval + 1) * (Interval + 1) * n >= (Interval + 1) * (Interval + 1)
    BY <1>0
  <2>2. (Interval + 1) * (Interval + 1) = Interval * Interval + 2 * Interval + 1
    BY <1>0
  <2>. QED BY <1>0, <2>1, <2>2
<1>2. PICK m \in T : \A k \in T : m <= k
  BY <1>1, LeastElement
<1>3. m * m * n <= Interval * Interval
  <2>1. CASE m = 0
    BY <1>0, <2>1
  <2>2. CASE m # 0
    <3>1. m - 1 \in Nat /\ m - 1 \notin T /\ (m - 1) + 1 = m
      BY <1>2, <2>2
    <3>. QED BY <1>0, <1>2, <3>1
  <2>. QED BY <2>1, <2>2
<1>4. \E d \in 0 .. Interval :
        d * d * n <= Interval * Interval /\ (d + 1) * (d + 1) * n > Interval * Interval
  BY <1>0, <1>1, <1>2, <1>3
<1>5. /\ DropDelay(n) \in 0 .. Interval
      /\ (DropDelay(n) + 1) * (DropDelay(n) + 1) * n > Interval * Interval
  BY <1>4 DEF DropDelay
<1>6. ASSUME n = 1 PROVE DropDelay(n) = Interval
  <2>1. PICK d \in 0 .. Interval : d = DropDelay(n)
    BY <1>5
  <2>2. (d + 1) * (d + 1) > Interval * Interval
    BY <1>0, <1>5, <1>6, <2>1
  <2>3. CASE d + 1 <= Interval
    <3>1. (d + 1) * (d + 1) <= Interval * Interval
      BY <1>0, <2>3
    <3>. QED BY <1>0, <2>2, <3>1
  <2>. QED BY <1>0, <2>1, <2>3
<1>. QED BY <1>5, <1>6

-----------------------------------------------------------------------------
(* Types.                                                                  *)

(* The control law is one of five cases.                                   *)
LEMMA ControlLawCases ==
  ASSUME ControlLaw
  PROVE  \/ Below /\ firstAbove' = 0 /\ dropping' = FALSE /\ UNCHANGED <<dropNext, count>>
         \/ ~Below /\ firstAbove = 0 /\ firstAbove' = now + Interval
            /\ UNCHANGED <<dropping, dropNext, count>>
         \/ ShouldDrop /\ ~dropping /\ dropping' = TRUE /\ count' = 1
            /\ dropNext' = now + Interval /\ UNCHANGED firstAbove
         \/ ShouldDrop /\ dropping /\ count' = count + 1
            /\ dropNext' = now + DropDelay(count + 1) /\ UNCHANGED <<dropping, firstAbove>>
         \/ ~Below /\ ~ShouldDrop /\ UNCHANGED control
<1>1. CASE Below
  BY <1>1 DEF ControlLaw, ShouldDrop, Standing
<1>2. CASE ~Below /\ firstAbove = 0
  BY <1>2 DEF ControlLaw, ShouldDrop, Standing
<1>3. CASE ~Below /\ firstAbove # 0
  BY <1>3 DEF ControlLaw, ShouldDrop, Standing
<1>. QED BY <1>1, <1>2, <1>3

(* The control state keeps its type, and with it what ControlInv says.     *)
LEMMA ControlLawKeeps ==
  ASSUME Typed, ControlInv, Ordered, buf # <<>>, ControlLaw, NoteDequeue, now' = now
  PROVE  /\ dropping' \in BOOLEAN /\ firstAbove' \in Nat /\ dropNext' \in Nat /\ count' \in Nat
         /\ lastBelow' \in Nat /\ lastEmpty' \in Nat
         /\ ControlInv'
<1>1. /\ now \in Nat /\ dropping \in BOOLEAN /\ firstAbove \in Nat /\ dropNext \in Nat
      /\ count \in Nat /\ lastBelow \in Nat /\ lastEmpty \in Nat
      /\ Interval \in Nat
  BY CodelAssumption DEF Typed, TypeOK
<1>2. lastBelow' = (IF Below THEN now ELSE lastBelow) /\ lastEmpty' \in {now, lastEmpty}
  BY DEF NoteDequeue
<1>3. lastBelow' <= now /\ lastBelow' \in Nat /\ lastEmpty' \in Nat
  BY <1>1, <1>2 DEF ControlInv
<1>4. CASE Below /\ firstAbove' = 0 /\ dropping' = FALSE /\ UNCHANGED <<dropNext, count>>
  BY <1>1, <1>3, <1>4 DEF ControlInv, ControlConsistent
<1>5. CASE ~Below /\ firstAbove = 0 /\ firstAbove' = now + Interval
           /\ UNCHANGED <<dropping, dropNext, count>>
  <2>1. dropping' = FALSE
    BY <1>1, <1>5 DEF ControlInv, ControlConsistent
  <2>2. ControlConsistent'
    BY <2>1 DEF ControlConsistent
  <2>3. firstAbove' \in Nat
    BY <1>1, <1>5
  <2>4. lastBelow' + Interval <= firstAbove'
    <3>1. PICK t \in Nat : t = lastBelow' /\ t <= now
      BY <1>3
    <3>2. t <= now
      BY <3>1
    <3>3. t + Interval <= now + Interval
      BY <1>1, <3>2
    <3>. QED BY <1>5, <3>1, <3>3
  <2>. QED BY <1>1, <1>3, <1>5, <2>2, <2>3, <2>4 DEF ControlInv
<1>6. CASE ShouldDrop /\ ~dropping /\ dropping' = TRUE /\ count' = 1
           /\ dropNext' = now + Interval /\ UNCHANGED firstAbove
  <2>1. ~Below /\ firstAbove # 0 /\ firstAbove <= now
    BY <1>1, <1>6 DEF ShouldDrop, Standing
  <2>2. DropDelay(1) = Interval /\ count' = 1
    BY <1>6, DropDelayIs
  <2>3. dropNext' <= now' + DropDelay(count')
    BY <1>1, <1>6, <2>2
  <2>. QED BY <1>1, <1>2, <1>3, <1>6, <2>1, <2>3 DEF ControlInv, ControlConsistent
<1>7. CASE ShouldDrop /\ dropping /\ count' = count + 1
           /\ dropNext' = now + DropDelay(count + 1) /\ UNCHANGED <<dropping, firstAbove>>
  <2>1. ~Below /\ firstAbove # 0 /\ firstAbove <= now
    BY <1>1, <1>7 DEF ShouldDrop, Standing
  <2>2. DropDelay(count + 1) \in Nat
    BY <1>1, DropDelayIs
  <2>3. dropNext' <= now' + DropDelay(count') /\ dropNext' \in Nat
    BY <1>1, <1>7, <2>2
  <2>. QED BY <1>1, <1>2, <1>3, <1>7, <2>1, <2>3 DEF ControlInv, ControlConsistent
<1>8. CASE ~Below /\ ~ShouldDrop /\ UNCHANGED control
  BY <1>1, <1>2, <1>3, <1>8 DEF control, ControlInv, ControlConsistent
<1>. QED BY <1>4, <1>5, <1>6, <1>7, <1>8, ControlLawCases

(* What taking task k out of the queue does to it.                         *)
LEMMA RemoveAtIs ==
  ASSUME Typed, NEW k \in 1 .. Len(buf)
  PROVE  /\ DOMAIN buf = 1 .. Len(buf) /\ Len(buf) \in Nat
         /\ RemoveAt(buf, k) \in Seq([task : Requests, enq : Nat])
         /\ Len(RemoveAt(buf, k)) = Len(buf) - 1
         /\ DOMAIN RemoveAt(buf, k) = 1 .. Len(buf) - 1
         /\ \A i \in 1 .. Len(buf) - 1 :
              RemoveAt(buf, k)[i] = IF i < k THEN buf[i] ELSE buf[i + 1]
         /\ \A i \in 1 .. Len(buf) : buf[i].task \in Requests /\ buf[i].enq \in Nat
<1>. DEFINE Entries == [task : Requests, enq : Nat]
<1>1. buf \in Seq(Entries)
  BY DEF Typed, TypeOK
<1>2. \A e \in Entries : e.task \in Requests /\ e.enq \in Nat
  OBVIOUS
<1>. HIDE DEF Entries
<1>3. /\ DOMAIN buf = 1 .. Len(buf) /\ Len(buf) \in Nat
      /\ RemoveAt(buf, k) \in Seq(Entries)
      /\ Len(RemoveAt(buf, k)) = Len(buf) - 1
      /\ DOMAIN RemoveAt(buf, k) = 1 .. Len(buf) - 1
      /\ \A i \in 1 .. Len(buf) - 1 :
           RemoveAt(buf, k)[i] = IF i < k THEN buf[i] ELSE buf[i + 1]
      /\ \A i \in 1 .. Len(buf) : buf[i] \in Entries
  BY <1>1, RemoveElements DEF RemoveAt
<1>4. \A i \in 1 .. Len(buf) : buf[i].task \in Requests /\ buf[i].enq \in Nat
  BY <1>2, <1>3
<1>. QED BY <1>3, <1>4 DEF Entries

(* A dequeue takes the oldest task or, under adaptive LIFO, the newest.    *)
LEMMA DequeueTakes ==
  ASSUME Typed, NEW w \in Workers, DropOldest(w) \/ Serve(w)
  PROVE  \E k \in 1 .. Len(buf) :
           /\ Take(w, k) /\ buf[k].task \in Requests
           /\ buf' = RemoveAt(buf, k) /\ job' = [job EXCEPT ![w] = buf[k].task]
           /\ DropOldest(w) => k = 1
<1>1. buf \in Seq([task : Requests, enq : Nat]) /\ buf # <<>>
  BY DEF Typed, TypeOK, DropOldest, Serve
<1>2. Len(buf) \in Nat \ {0} /\ 1 \in 1 .. Len(buf) /\ Len(buf) \in 1 .. Len(buf)
  BY <1>1
<1>3. buf[1].task \in Requests /\ buf[Len(buf)].task \in Requests
  BY <1>2, RemoveAtIs
<1>4. CASE DropOldest(w)
  <2>1. Take(w, 1)
    BY <1>4 DEF DropOldest
  <2>. QED BY <1>2, <1>3, <2>1 DEF Take
<1>5. CASE Serve(w)
  <2>1. \/ Take(w, Len(buf)) \/ Take(w, 1)
    BY <1>5 DEF Serve
  <2>2. ~DropOldest(w)
    BY <1>5 DEF Serve, DropOldest
  <2>. QED BY <1>2, <1>3, <2>1, <2>2 DEF Take
<1>. QED BY <1>4, <1>5

(* The initial state is well typed.                                        *)
LEMMA InitTyped == Init => Typed
<1>. SUFFICES ASSUME Init PROVE Typed
  OBVIOUS
<1>1. /\ pc \in [Requests -> CallPCs] /\ worker \in [Workers -> WorkerPCs]
      /\ stop \in [Stoppers -> StopPCs]
  BY DEF Init, CallPCs, WorkerPCs, StopPCs
<1>2. buf \in Seq([task : Requests, enq : Nat]) /\ verdicts \in [Requests -> Seq(BOOLEAN)]
  BY DEF Init
<1>3. /\ result \in [Requests -> Sheds \cup {"none", "ok", "dropped"}]
      /\ job \in [Workers -> Requests \cup {None}] /\ outcome \in [Requests -> {"none", "ran", "dropped"}]
  BY DEF Init
<1>4. /\ now \in Nat /\ firstAbove \in Nat /\ dropNext \in Nat /\ count \in Nat
      /\ lastBelow \in Nat /\ lastEmpty \in Nat
  BY DEF Init
<1>5. active \in Int /\ accepted \in Nat /\ rejected \in Nat /\ dropped \in Nat
  BY DEF Init
<1>6. closed \in BOOLEAN /\ dropping \in BOOLEAN
  BY DEF Init
<1>7. JobOK
  BY DEF Init, JobOK
<1>. QED BY <1>1, <1>2, <1>3, <1>4, <1>5, <1>6, <1>7 DEF Typed, TypeOK

(* Every step of a call keeps the state well typed.                        *)
LEMMA CallTyped ==
  ASSUME Typed, NEW r \in Requests, GateAllow(r) \/ GateRefuse(r) \/ CallStep(r)
  PROVE  Typed'
<1>. USE CodelAssumption
<1>. USE DEF Typed, TypeOK, JobOK, control, history, counters, CallPCs, WorkerPCs, StopPCs, Sheds,
             Goto, Return, Settled
<1>1. CASE GateAllow(r)     BY <1>1 DEF GateAllow
<1>2. CASE GateRefuse(r)    BY <1>2 DEF GateRefuse
<1>3. CASE SubmitStopped(r) BY <1>3 DEF SubmitStopped
<1>4. CASE SubmitFull(r)    BY <1>4 DEF SubmitFull
<1>5. CASE WaitDone(r)      BY <1>5 DEF WaitDone
<1>6. CASE Enqueue(r)
  <2>1. [task |-> r, enq |-> now] \in [task : Requests, enq : Nat]
    OBVIOUS
  <2>2. buf' \in Seq([task : Requests, enq : Nat])
    BY <1>6, <2>1 DEF Enqueue
  <2>3. worker' = worker \/ \E w \in Workers : worker[w] = "parked" /\ worker' = [worker EXCEPT ![w] = "idle"]
    BY <1>6 DEF Enqueue, Signal, Parked
  <2>4. worker' \in [Workers -> WorkerPCs] /\ JobOK'
    <3>1. job' = job /\ worker \in [Workers -> WorkerPCs] /\ JobOK
      BY <1>6 DEF Enqueue
    <3>2. ASSUME NEW w \in Workers, worker[w] = "parked", worker' = [worker EXCEPT ![w] = "idle"]
          PROVE  worker' \in [Workers -> WorkerPCs] /\ JobOK'
      BY <3>1, <3>2
    <3>3. worker' = worker => worker' \in [Workers -> WorkerPCs] /\ JobOK'
      BY <3>1
    <3>. QED BY <2>3, <3>2, <3>3
  <2>5. /\ pc' \in [Requests -> CallPCs]
        /\ result' \in [Requests -> Sheds \cup {"none", "ok", "dropped"}]
    <3>1. CASE Return(r, "gated", "ok") BY <3>1
    <3>2. CASE Goto(r, "gated", "waiting") /\ UNCHANGED result BY <3>2
    <3>. QED BY <1>6, <3>1, <3>2 DEF Enqueue
  <2>. QED BY <1>6, <2>2, <2>4, <2>5 DEF Enqueue
<1>. QED BY <1>1, <1>2, <1>3, <1>4, <1>5, <1>6 DEF CallStep

(* Every step of a worker keeps the state well typed.                      *)
LEMMA WorkerTyped ==
  ASSUME Typed, Ordered, ControlInv, NEW w \in Workers, WorkerStep(w)
  PROVE  Typed'
<1>1. CASE DropOldest(w) \/ Serve(w)
  <2>1. PICK k \in 1 .. Len(buf) : /\ Take(w, k) /\ buf[k].task \in Requests
                                   /\ buf' = RemoveAt(buf, k)
                                   /\ job' = [job EXCEPT ![w] = buf[k].task]
    BY <1>1, DequeueTakes
  <2>2. buf' \in Seq([task : Requests, enq : Nat])
    BY <2>1, RemoveAtIs
  <2>3. /\ dropping' \in BOOLEAN /\ firstAbove' \in Nat /\ dropNext' \in Nat /\ count' \in Nat
        /\ lastBelow' \in Nat /\ lastEmpty' \in Nat
    BY <1>1, ControlLawKeeps DEF DropOldest, Serve
  <2>4. /\ worker' \in [Workers -> WorkerPCs] /\ job' \in [Workers -> Requests \cup {None}]
        /\ JobOK'
    <3>1. /\ worker \in [Workers -> WorkerPCs] /\ job \in [Workers -> Requests \cup {None}]
          /\ JobOK
      BY DEF Typed, TypeOK
    <3>2. \/ worker' = [worker EXCEPT ![w] = "discarding"]
          \/ worker' = [worker EXCEPT ![w] = "took"]
      BY <1>1 DEF DropOldest, Serve, Step
    <3>. QED BY <2>1, <3>1, <3>2, CodelAssumption DEF JobOK, WorkerPCs
  <2>5. /\ UNCHANGED <<now, closed, callVars, outcome, verdicts, active, accepted, rejected, stop>>
        /\ dropped' \in {dropped, dropped + 1}
    BY <1>1 DEF DropOldest, Serve, counters
  <2>. QED BY <2>2, <2>3, <2>4, <2>5 DEF Typed, TypeOK, callVars
<1>2. CASE ~(DropOldest(w) \/ Serve(w))
  <2>. USE CodelAssumption
  <2>. USE DEF Typed, TypeOK, JobOK, control, history, counters, callVars, CallPCs, WorkerPCs,
               StopPCs, Sheds, Step, Settled
  <2>1. CASE Park(w)    BY <2>1 DEF Park
  <2>2. CASE Exit(w)    BY <2>2 DEF Exit
  <2>3. CASE Discard(w) BY <2>3 DEF Discard
  <2>4. CASE Start(w)   BY <2>4 DEF Start
  <2>5. CASE BodyEnd(w) BY <2>5 DEF BodyEnd
  <2>6. CASE Settle(w)  BY <2>6 DEF Settle
  <2>. QED BY <1>2, <2>1, <2>2, <2>3, <2>4, <2>5, <2>6 DEF WorkerStep
<1>. QED BY <1>1, <1>2

(* The steps of Stop and of the clock keep the state well typed.           *)
LEMMA StopTyped ==
  ASSUME Typed, NEW s \in Stoppers, StopClose(s) \/ StopJoin(s) \/ StopStep(s)
  PROVE  Typed'
<1>1. /\ worker' = worker \/ worker' = [w \in Workers |-> IF w \in Parked THEN "idle" ELSE worker[w]]
      /\ UNCHANGED <<now, buf, control, callVars, job, outcome, verdicts, counters, history>>
      /\ closed' \in {closed, TRUE}
      /\ \E p \in StopPCs : stop' = [stop EXCEPT ![s] = p]
  BY DEF StopClose, StopJoin, StopStep, StopReturn, StopJoined, StopGoto, StopPCs
<1>2. worker' \in [Workers -> WorkerPCs] /\ JobOK'
  BY <1>1 DEF Typed, TypeOK, JobOK, Parked, WorkerPCs
<1>3. stop' \in [Stoppers -> StopPCs] /\ closed' \in BOOLEAN
  BY <1>1 DEF Typed, TypeOK
<1>. QED BY <1>1, <1>2, <1>3 DEF Typed, TypeOK, control, callVars, counters, history

-----------------------------------------------------------------------------
(* The queue and the control state.                                        *)

(* The queue changes only when a task is added or a worker takes one, and  *)
(* the clock moves only between such steps.                                *)
LEMMA BufferSteps ==
  ASSUME [Next]_vars
  PROVE  \/ UNCHANGED <<buf, now, control, history, dropped>>
         \/ Tick
         \/ \E r \in Requests : Enqueue(r)
         \/ \E w \in Workers : DropOldest(w) \/ Serve(w)
<1>1. CASE UNCHANGED vars
  BY <1>1 DEF vars, counters
<1>2. ASSUME NEW r \in Requests, GateAllow(r) \/ GateRefuse(r) \/ CallStep(r)
      PROVE  UNCHANGED <<buf, now, control, history, dropped>> \/ Enqueue(r)
  BY <1>2 DEF counters, GateAllow, GateRefuse, CallStep, SubmitStopped, SubmitFull, WaitDone
<1>3. ASSUME NEW w \in Workers, WorkerStep(w)
      PROVE  UNCHANGED <<buf, now, control, history, dropped>> \/ DropOldest(w) \/ Serve(w)
  BY <1>3 DEF counters, WorkerStep, Park, Exit, Discard, Start, BodyEnd, Settle
<1>4. ASSUME NEW s \in Stoppers, StopClose(s) \/ StopJoin(s) \/ StopStep(s)
      PROVE  UNCHANGED <<buf, now, control, history, dropped>>
  BY <1>4 DEF counters, StopClose, StopJoin, StopStep, StopReturn, StopJoined
<1>. QED BY <1>1, <1>2, <1>3, <1>4 DEF Next, Rest

(* Tasks join at the end with the present time and leave without changing  *)
(* the order of the others.                                                *)
LEMMA OrderedStep ==
  ASSUME Typed, Ordered, [Next]_vars
  PROVE  Ordered'
<1>1. /\ buf \in Seq([task : Requests, enq : Nat]) /\ now \in Nat /\ QueueCapacity \in Nat
      /\ Len(buf) \in Nat /\ DOMAIN buf = 1 .. Len(buf)
  BY CodelAssumption DEF Typed, TypeOK
<1>2. \A i \in 1 .. Len(buf) : buf[i].enq \in Nat
  BY RemoveAtIs
<1>3. CASE buf' = buf /\ (now' = now \/ Tick)
  <2>1. PICK t \in Nat : t = now' /\ now <= t
    BY <1>1, <1>3 DEF Tick
  <2>2. \A i \in DOMAIN buf : buf[i].enq <= t
    BY <1>1, <1>2, <2>1 DEF Ordered
  <2>. QED BY <1>3, <2>1, <2>2 DEF Ordered
<1>4. ASSUME NEW r \in Requests, Enqueue(r) PROVE Ordered'
  <2>1. buf' = Append(buf, [task |-> r, enq |-> now]) /\ Len(buf) < QueueCapacity /\ now' = now
    BY <1>4 DEF Enqueue
  <2>2. PICK b : b = buf'
    OBVIOUS
  <2>3. /\ Len(b) = Len(buf) + 1 /\ DOMAIN b = 1 .. Len(buf) + 1
        /\ \A i \in 1 .. Len(buf) : b[i] = buf[i]
        /\ b[Len(buf) + 1].enq = now
    BY <1>1, <2>1, <2>2
  <2>4. ASSUME NEW i \in DOMAIN b PROVE b[i].enq <= now
    BY <1>1, <2>3, <2>4 DEF Ordered
  <2>5. ASSUME NEW i \in DOMAIN b, NEW j \in DOMAIN b, i <= j PROVE b[i].enq <= b[j].enq
    <3>1. CASE j = Len(buf) + 1
      BY <2>3, <2>4, <3>1
    <3>2. CASE j # Len(buf) + 1
      <4>1. i \in DOMAIN buf /\ j \in DOMAIN buf
        BY <1>1, <2>3, <2>5, <3>2
      <4>. QED BY <1>1, <2>3, <2>5, <4>1 DEF Ordered
    <3>. QED BY <3>1, <3>2
  <2>6. Len(b) <= QueueCapacity
    BY <1>1, <2>1, <2>3
  <2>. QED BY <2>1, <2>2, <2>4, <2>5, <2>6 DEF Ordered
<1>5. ASSUME NEW w \in Workers, DropOldest(w) \/ Serve(w) PROVE Ordered'
  <2>1. PICK k \in 1 .. Len(buf) : buf' = RemoveAt(buf, k)
    BY <1>5, DequeueTakes
  <2>2. PICK b : b = buf'
    OBVIOUS
  <2>3. /\ Len(b) = Len(buf) - 1 /\ DOMAIN b = 1 .. Len(buf) - 1
        /\ \A i \in 1 .. Len(buf) - 1 : b[i] = IF i < k THEN buf[i] ELSE buf[i + 1]
    BY <2>1, <2>2, RemoveAtIs
  <2>4. ASSUME NEW i \in DOMAIN b
        PROVE  \E m \in DOMAIN buf : b[i] = buf[m] /\ m = IF i < k THEN i ELSE i + 1
    BY <1>1, <2>3
  <2>5. ASSUME NEW i \in DOMAIN b PROVE b[i].enq <= now
    BY <2>4 DEF Ordered
  <2>6. ASSUME NEW i \in DOMAIN b, NEW j \in DOMAIN b, i <= j PROVE b[i].enq <= b[j].enq
    <3>1. PICK m \in DOMAIN buf : b[i] = buf[m] /\ m = IF i < k THEN i ELSE i + 1
      BY <2>4
    <3>2. PICK n \in DOMAIN buf : b[j] = buf[n] /\ n = IF j < k THEN j ELSE j + 1
      BY <2>4
    <3>3. m <= n
      BY <1>1, <2>3, <2>6, <3>1, <3>2
    <3>. QED BY <3>1, <3>2, <3>3 DEF Ordered
  <2>7. Len(b) <= QueueCapacity
    BY <1>1, <2>3 DEF Ordered
  <2>8. now' = now
    BY <1>5 DEF DropOldest, Serve
  <2>. QED BY <2>2, <2>5, <2>6, <2>7, <2>8 DEF Ordered
<1>6. Tick => buf' = buf
  BY DEF Tick
<1>. QED BY <1>3, <1>4, <1>5, <1>6, BufferSteps

(* The control state moves only at a dequeue, by the control law.          *)
LEMMA ControlStep ==
  ASSUME Typed, Ordered, ControlInv, [Next]_vars
  PROVE  ControlInv'
<1>1. CASE UNCHANGED <<now, control, history>>
  BY <1>1 DEF control, history, ControlInv, ControlConsistent
<1>2. CASE Tick
  <2>1. PICK t \in Nat : t = now' /\ now <= t /\ now \in Nat
    BY <1>2 DEF Tick, Typed, TypeOK
  <2>2. /\ lastBelow \in Nat /\ firstAbove \in Nat /\ dropNext \in Nat /\ count \in Nat
    BY DEF Typed, TypeOK
  <2>3. lastBelow <= t
    BY <2>1, <2>2 DEF ControlInv
  <2>4. ASSUME dropping
        PROVE  firstAbove # 0 /\ firstAbove <= t /\ count >= 1 /\ dropNext <= t + DropDelay(count)
    <3>1. /\ firstAbove # 0 /\ firstAbove <= now
          /\ count >= 1
          /\ dropNext <= now + DropDelay(count)
      BY <2>4 DEF ControlInv, ControlConsistent
    <3>2. DropDelay(count) \in Nat
      BY <2>2, <3>1, DropDelayIs, CodelAssumption
    <3>. QED BY <2>1, <2>2, <3>1, <3>2
  <2>5. UNCHANGED <<control, lastBelow>>
    BY <1>2 DEF Tick
  <2>. QED BY <2>1, <2>3, <2>4, <2>5 DEF control, ControlInv, ControlConsistent
<1>3. ASSUME NEW r \in Requests, Enqueue(r) PROVE UNCHANGED <<now, control, history>>
  BY <1>3 DEF Enqueue
<1>4. ASSUME NEW w \in Workers, DropOldest(w) \/ Serve(w) PROVE ControlInv'
  BY <1>4, ControlLawKeeps DEF DropOldest, Serve
<1>. QED BY <1>1, <1>2, <1>3, <1>4, BufferSteps

-----------------------------------------------------------------------------
(* The condition variable and Stop.                                        *)

(* What a call does to the workers: nothing, or one wakes up.              *)
LEMMA CallWakes ==
  ASSUME NEW r \in Requests, GateAllow(r) \/ GateRefuse(r) \/ CallStep(r)
  PROVE  /\ UNCHANGED <<closed, stop, job>>
         /\ \/ UNCHANGED <<buf, worker>>
            \/ Enqueue(r) /\ Parked = {} /\ worker' = worker
            \/ Enqueue(r) /\ \E w \in Parked : worker' = [worker EXCEPT ![w] = "idle"]
<1>1. UNCHANGED <<closed, stop, job>>
  BY DEF GateAllow, GateRefuse, CallStep, SubmitStopped, SubmitFull, WaitDone, Enqueue
<1>2. UNCHANGED <<buf, worker>> \/ Enqueue(r)
  BY DEF GateAllow, GateRefuse, CallStep, SubmitStopped, SubmitFull, WaitDone
<1>3. CASE Enqueue(r)
  BY <1>1, <1>3 DEF Enqueue, Signal
<1>. QED BY <1>1, <1>2, <1>3

(* A worker moves alone.                                                   *)
LEMMA WorkerAlone ==
  ASSUME Typed, NEW w \in Workers, WorkerStep(w)
  PROVE  /\ UNCHANGED <<closed, stop, callVars>>
         /\ \A v \in Workers : v # w => worker'[v] = worker[v] /\ job'[v] = job[v]
         /\ worker[w] # worker'[w]
         /\ worker[w] \notin {"parked", "exited"}
<1>1. worker \in [Workers -> WorkerPCs] /\ job \in [Workers -> Requests \cup {None}]
  BY DEF Typed, TypeOK
<1>2. UNCHANGED <<closed, stop, callVars>>
  BY DEF WorkerStep, Park, Exit, DropOldest, Serve, Discard, Start, BodyEnd, Settle
<1>3. \E j : job' = job \/ job' = [job EXCEPT ![w] = j]
  BY DEF WorkerStep, Park, Exit, DropOldest, Serve, Discard, Start, BodyEnd, Settle, Take
<1>4. \E from, to \in WorkerPCs : /\ worker[w] = from /\ worker' = [worker EXCEPT ![w] = to]
                                  /\ from # to /\ from \notin {"parked", "exited"}
  BY DEF WorkerStep, Park, Exit, DropOldest, Serve, Discard, Start, BodyEnd, Settle, Step, WorkerPCs
<1>5. \A v \in Workers : v # w => job'[v] = job[v]
  BY <1>1, <1>3
<1>. QED BY <1>1, <1>2, <1>4, <1>5

(* Nobody sleeps in a closed pool, and only its workers leave.             *)
LEMMA StopKept ==
  ASSUME Typed, StopInv, [Next]_vars
  PROVE  StopInv'
<1>1. worker \in [Workers -> WorkerPCs] /\ stop \in [Stoppers -> StopPCs]
  BY DEF Typed, TypeOK
<1>2. CASE UNCHANGED <<closed, stop, worker, buf>>
  BY <1>2 DEF StopInv, OnceTaken, Parked
<1>3. ASSUME NEW r \in Requests, GateAllow(r) \/ GateRefuse(r) \/ CallStep(r)
      PROVE  StopInv'
  <2>1. CASE UNCHANGED <<buf, worker>>
    BY <1>2, <1>3, <2>1, CallWakes
  <2>2. CASE Enqueue(r)
    <3>1. ~closed /\ ~closed' /\ stop' = stop
      BY <2>2 DEF Enqueue
    <3>2. \A w \in Workers : worker'[w] = "exited" => worker[w] = "exited"
      BY <1>1, <1>3, CallWakes
    <3>. QED BY <3>1, <3>2 DEF StopInv, OnceTaken
  <2>. QED BY <1>3, <2>1, <2>2, CallWakes
<1>4. ASSUME NEW w \in Workers, WorkerStep(w) PROVE StopInv'
  <2>1. closed' = closed /\ stop' = stop
    BY <1>4, WorkerAlone
  <2>2. closed => Parked' = {}
    <3>1. ASSUME closed PROVE worker'[w] # "parked"
      BY <1>1, <1>4, <3>1 DEF WorkerStep, Park, Exit, DropOldest, Serve, Discard, Start, BodyEnd,
         Settle, Step
    <3>. QED BY <1>4, <3>1, WorkerAlone DEF Parked, StopInv
  <2>3. ASSUME NEW v \in Workers, worker'[v] = "exited" PROVE closed /\ buf' = <<>>
    <3>1. CASE v = w
      <4>1. Exit(w)
        BY <1>1, <1>4, <2>3, <3>1 DEF WorkerStep, Park, DropOldest, Serve, Discard, Start, BodyEnd,
           Settle, Step
      <4>. QED BY <4>1 DEF Exit
    <3>2. CASE v # w
      <4>1. closed /\ buf = <<>>
        BY <1>4, <2>3, <3>2, WorkerAlone DEF StopInv
      <4>. QED BY <1>4, <4>1 DEF WorkerStep, Park, Exit, DropOldest, Serve, Discard, Start, BodyEnd, Settle
    <3>. QED BY <3>1, <3>2
  <2>. QED BY <2>1, <2>2, <2>3 DEF StopInv, OnceTaken
<1>5. ASSUME NEW s \in Stoppers, StopClose(s) \/ StopJoin(s) \/ StopStep(s) PROVE StopInv'
  <2>1. CASE StopClose(s)
    <3>1. /\ closed' = TRUE /\ OnceTaken' /\ buf' = buf
          /\ worker' = [w \in Workers |-> IF w \in Parked THEN "idle" ELSE worker[w]]
      BY <1>1, <2>1 DEF StopClose, StopGoto, OnceTaken
    <3>2. Parked' = {} /\ \A w \in Workers : worker'[w] = "exited" => worker[w] = "exited"
      BY <3>1 DEF Parked
    <3>. QED BY <3>1, <3>2 DEF StopInv
  <2>2. CASE StopJoin(s) \/ StopStep(s)
    <3>1. UNCHANGED <<closed, worker, buf>> /\ OnceTaken /\ OnceTaken'
      BY <1>1, <2>2 DEF StopJoin, StopStep, StopReturn, StopJoined, StopGoto, OnceTaken, StopReturned
    <3>. QED BY <3>1 DEF StopInv, Parked
  <2>. QED BY <1>5, <2>1, <2>2
<1>6. UNCHANGED vars \/ Tick => UNCHANGED <<closed, stop, worker, buf>>
  BY DEF vars, Tick
<1>. QED BY <1>2, <1>3, <1>4, <1>5, <1>6 DEF Next, Rest

(* The workers that are on their way to the queue.                         *)
Awake == {w \in Workers : worker[w] = "idle"}

(* A worker goes to sleep on an empty queue only, a new task wakes one, and *)
(* whoever takes a task was awake.                                         *)
LEMMA WakeupKept ==
  ASSUME Typed, NoLostWakeup, StopInv, [Next]_vars
  PROVE  NoLostWakeup'
<1>1. /\ worker \in [Workers -> WorkerPCs] /\ buf \in Seq([task : Requests, enq : Nat])
      /\ Len(buf) \in Nat
  BY DEF Typed, TypeOK
<1>2. /\ IsFiniteSet(Awake) /\ Cardinality(Awake) \in Nat
      /\ NoLostWakeup <=> (Parked # {} => Len(buf) <= Cardinality(Awake))
  BY CodelAssumption, FS_Subset, FS_CardinalityType DEF Awake, NoLostWakeup
<1>3. NoLostWakeup' <=> (Parked' # {} => Len(buf') <= Cardinality(Awake'))
  BY DEF Awake, NoLostWakeup
<1>4. CASE UNCHANGED <<worker, buf>>
  BY <1>4 DEF NoLostWakeup, Parked
<1>5. ASSUME NEW r \in Requests, GateAllow(r) \/ GateRefuse(r) \/ CallStep(r)
      PROVE  NoLostWakeup'
  <2>1. ASSUME Enqueue(r), Parked = {}, worker' = worker PROVE NoLostWakeup'
    BY <1>3, <2>1 DEF Parked
  <2>2. ASSUME Enqueue(r), NEW w \in Parked, worker' = [worker EXCEPT ![w] = "idle"]
        PROVE  NoLostWakeup'
    <3>1. Awake' = Awake \cup {w} /\ w \notin Awake
      BY <1>1, <2>2 DEF Awake, Parked
    <3>2. Cardinality(Awake') = Cardinality(Awake) + 1
      BY <1>2, <3>1, FS_AddElement
    <3>3. Len(buf') = Len(buf) + 1
      BY <1>1, <2>2 DEF Enqueue
    <3>4. Len(buf) <= Cardinality(Awake)
      BY <1>2, <2>2
    <3>. QED BY <1>1, <1>2, <1>3, <3>2, <3>3, <3>4
  <2>. QED BY <1>4, <1>5, <2>1, <2>2, CallWakes
<1>6. ASSUME NEW w \in Workers, WorkerStep(w) PROVE NoLostWakeup'
  <2>1. CASE Park(w)
    <3>1. buf' = <<>> /\ IsFiniteSet(Awake')
      BY <2>1, CodelAssumption, FS_Subset DEF Park, Awake
    <3>2. Cardinality(Awake') \in Nat /\ Len(<<>>) = 0
      BY <3>1, FS_CardinalityType
    <3>. QED BY <1>3, <3>1, <3>2
  <2>2. CASE Exit(w)
    <3>1. Parked = {} /\ \A v \in Workers : worker'[v] = "parked" => worker[v] = "parked"
      BY <1>1, <2>2 DEF Exit, Step, StopInv
    <3>. QED BY <1>3, <3>1 DEF Parked
  <2>3. CASE DropOldest(w) \/ Serve(w)
    <3>1. worker[w] = "idle" /\ worker'[w] \in {"discarding", "took"} /\ Parked' = Parked
          /\ Awake' = Awake \ {w} /\ w \in Awake
      BY <1>1, <2>3 DEF DropOldest, Serve, Step, Parked, Awake
    <3>2. Cardinality(Awake') = Cardinality(Awake) - 1
      BY <1>2, <3>1, FS_RemoveElement
    <3>3. Len(buf') = Len(buf) - 1
      BY <2>3, DequeueTakes, RemoveAtIs
    <3>. QED BY <1>1, <1>2, <1>3, <3>1, <3>2, <3>3
  <2>4. CASE Discard(w) \/ Settle(w)
    <3>1. Awake' = Awake \cup {w} /\ w \notin Awake /\ Parked' = Parked /\ buf' = buf
      BY <1>1, <2>4 DEF Discard, Settle, Step, Awake, Parked
    <3>2. Cardinality(Awake') = Cardinality(Awake) + 1
      BY <1>2, <3>1, FS_AddElement
    <3>. QED BY <1>1, <1>2, <1>3, <3>1, <3>2
  <2>5. CASE Start(w) \/ BodyEnd(w)
    <3>1. Awake' = Awake /\ Parked' = Parked /\ buf' = buf
      BY <1>1, <2>5 DEF Start, BodyEnd, Step, Awake, Parked
    <3>. QED BY <1>2, <1>3, <3>1
  <2>. QED BY <1>6, <2>1, <2>2, <2>3, <2>4, <2>5 DEF WorkerStep
<1>7. ASSUME NEW s \in Stoppers, StopClose(s) \/ StopJoin(s) \/ StopStep(s) PROVE NoLostWakeup'
  <2>1. CASE StopClose(s)
    <3>1. Parked' = {}
      BY <2>1 DEF StopClose, Parked
    <3>. QED BY <1>3, <3>1
  <2>2. CASE StopJoin(s) \/ StopStep(s)
    BY <1>4, <2>2 DEF StopJoin, StopStep, StopReturn, StopJoined
  <2>. QED BY <1>7, <2>1, <2>2
<1>8. UNCHANGED vars \/ Tick => UNCHANGED <<worker, buf>>
  BY DEF vars, Tick
<1>. QED BY <1>4, <1>5, <1>6, <1>7, <1>8 DEF Next, Rest

-----------------------------------------------------------------------------
(* Where the requests are.                                                 *)

(* Nothing that says where q is has changed.                               *)
Untouched(q) ==
  /\ pc'[q] = pc[q] /\ result'[q] = result[q]
  /\ verdicts'[q] = verdicts[q] /\ outcome'[q] = outcome[q]
  /\ q \in Queued' <=> q \in Queued
  /\ \A w \in Workers : job'[w] = q <=> job[w] = q
  /\ \A w \in Workers : job[w] = q => worker'[w] = worker[w]

(* A request that nothing moved stays where it was.                        *)
LEMMA UntouchedStays ==
  ASSUME NEW q \in Requests, PlaceOK(q), Untouched(q)
  PROVE  PlaceOK(q)'
<1>. USE DEF Untouched, Inside, OnWorker
<1>1. CASE Outside(q)   BY <1>1 DEF Outside, PlaceOK
<1>2. CASE Refused(q)   BY <1>2 DEF Refused, PlaceOK
<1>3. CASE InBuffer(q)  BY <1>3 DEF InBuffer, PlaceOK
<1>4. CASE Past(q)      BY <1>4 DEF Past, PlaceOK
<1>5. ASSUME NEW w \in Workers, HeldBy(q, w) PROVE PlaceOK(q)'
  <2>1. HeldBy(q, w)'
    BY <1>5 DEF HeldBy
  <2>. QED BY <2>1 DEF PlaceOK
<1>. QED BY <1>1, <1>2, <1>3, <1>4, <1>5 DEF PlaceOK

(* A new task joins the queue, once if it was not there.                   *)
LEMMA QueuedAppend ==
  ASSUME Typed, NEW r \in Requests, Enqueue(r)
  PROVE  /\ Queued' = Queued \cup {r}
         /\ QueuedOnce /\ r \notin Queued => QueuedOnce'
<1>1. /\ buf \in Seq([task : Requests, enq : Nat]) /\ Len(buf) \in Nat
      /\ DOMAIN buf = 1 .. Len(buf)
  BY DEF Typed, TypeOK
<1>2. PICK b : b = buf' /\ b = Append(buf, [task |-> r, enq |-> now])
  BY DEF Enqueue
<1>3. /\ DOMAIN b = 1 .. Len(buf) + 1
      /\ \A i \in 1 .. Len(buf) : b[i] = buf[i]
      /\ b[Len(buf) + 1].task = r
  BY <1>1, <1>2
<1>4. {b[i].task : i \in DOMAIN b} = {buf[i].task : i \in DOMAIN buf} \cup {r}
  <2>1. ASSUME NEW i \in DOMAIN b PROVE b[i].task \in {buf[j].task : j \in DOMAIN buf} \cup {r}
    <3>1. i \in DOMAIN buf \/ i = Len(buf) + 1
      BY <1>1, <1>3
    <3>. QED BY <1>1, <1>3, <3>1
  <2>2. ASSUME NEW i \in DOMAIN buf PROVE i \in DOMAIN b /\ b[i].task = buf[i].task
    BY <1>1, <1>3
  <2>3. Len(buf) + 1 \in DOMAIN b /\ b[Len(buf) + 1].task = r
    BY <1>1, <1>3
  <2>. QED BY <2>1, <2>2, <2>3
<1>5. ASSUME QueuedOnce, r \notin Queued PROVE QueuedOnce'
  <2>. SUFFICES ASSUME NEW i \in DOMAIN b, NEW j \in DOMAIN b, b[i].task = b[j].task PROVE i = j
    BY <1>2 DEF QueuedOnce
  <2>1. \A k \in DOMAIN buf : buf[k].task # r
    BY <1>5 DEF Queued
  <2>2. \A k \in DOMAIN b : k \in DOMAIN buf \/ k = Len(buf) + 1
    BY <1>1, <1>3
  <2>. QED BY <1>1, <1>3, <1>5, <2>1, <2>2 DEF QueuedOnce
<1>. QED BY <1>2, <1>4, <1>5 DEF Queued

(* A task that is taken leaves the queue, and no other does.               *)
LEMMA QueuedRemove ==
  ASSUME Typed, QueuedOnce, NEW k \in 1 .. Len(buf), buf' = RemoveAt(buf, k)
  PROVE  /\ buf[k].task \in Queued
         /\ Queued' = Queued \ {buf[k].task}
         /\ QueuedOnce'
<1>1. /\ DOMAIN buf = 1 .. Len(buf) /\ Len(buf) \in Nat
  BY RemoveAtIs
<1>2. PICK b : b = buf' /\ b = RemoveAt(buf, k)
  OBVIOUS
<1>3. /\ DOMAIN b = 1 .. Len(buf) - 1
      /\ \A i \in 1 .. Len(buf) - 1 : b[i] = IF i < k THEN buf[i] ELSE buf[i + 1]
  BY <1>2, RemoveAtIs
<1>4. \A i, j \in 1 .. Len(buf) : buf[i].task = buf[j].task => i = j
  BY <1>1 DEF QueuedOnce
<1>5. ASSUME NEW i \in DOMAIN b
      PROVE  \E m \in DOMAIN buf : b[i] = buf[m] /\ m # k /\ m = IF i < k THEN i ELSE i + 1
  <2>1. CASE i < k
    BY <1>1, <1>3, <2>1
  <2>2. CASE ~(i < k)
    <3>1. i + 1 \in DOMAIN buf /\ i + 1 # k /\ b[i] = buf[i + 1]
      BY <1>1, <1>3, <2>2
    <3>. QED BY <2>2, <3>1
  <2>. QED BY <2>1, <2>2
<1>6. ASSUME NEW m \in DOMAIN buf, m # k
      PROVE  \E i \in DOMAIN b : b[i] = buf[m]
  <2>1. CASE m < k
    BY <1>1, <1>3, <2>1
  <2>2. CASE m > k
    <3>1. m - 1 \in 1 .. Len(buf) - 1 /\ ~(m - 1 < k) /\ (m - 1) + 1 = m
      BY <1>1, <2>2
    <3>2. b[m - 1] = buf[m]
      BY <1>3, <3>1
    <3>. QED BY <1>3, <3>1, <3>2
  <2>. QED BY <1>1, <1>6, <2>1, <2>2
<1>7. {b[i].task : i \in DOMAIN b} = {buf[i].task : i \in DOMAIN buf} \ {buf[k].task}
  <2>1. ASSUME NEW i \in DOMAIN b
        PROVE  b[i].task \in {buf[j].task : j \in DOMAIN buf} \ {buf[k].task}
    BY <1>1, <1>4, <1>5, <2>1
  <2>2. ASSUME NEW m \in DOMAIN buf, buf[m].task # buf[k].task
        PROVE  buf[m].task \in {b[i].task : i \in DOMAIN b}
    BY <1>6, <2>2
  <2>. QED BY <2>1, <2>2
<1>8. ASSUME NEW i \in DOMAIN b, NEW j \in DOMAIN b, b[i].task = b[j].task PROVE i = j
  <2>1. PICK m \in DOMAIN buf : b[i] = buf[m] /\ m = IF i < k THEN i ELSE i + 1
    BY <1>5
  <2>2. PICK n \in DOMAIN buf : b[j] = buf[n] /\ n = IF j < k THEN j ELSE j + 1
    BY <1>5
  <2>3. m = n
    BY <1>1, <1>4, <1>8, <2>1, <2>2
  <2>. QED BY <1>3, <2>1, <2>2, <2>3
<1>9. buf[k].task \in Queued
  BY <1>1 DEF Queued
<1>10. Queued' = Queued \ {buf[k].task}
  BY <1>2, <1>7 DEF Queued
<1>11. QueuedOnce'
  BY <1>2, <1>8 DEF QueuedOnce
<1>. QED BY <1>9, <1>10, <1>11

(* A call moves only its own request.                                      *)
LEMMA CallTouchesOne ==
  ASSUME Typed, Placed, NEW r \in Requests, GateAllow(r) \/ GateRefuse(r) \/ CallStep(r),
         NEW q \in Requests, q # r
  PROVE  Untouched(q)
<1>. USE DEF Goto, Return, Settled
<1>1. /\ pc \in [Requests -> CallPCs] /\ result \in [Requests -> Sheds \cup {"none", "ok", "dropped"}]
      /\ verdicts \in [Requests -> Seq(BOOLEAN)] /\ worker \in [Workers -> WorkerPCs]
      /\ job \in [Workers -> Requests \cup {None}] /\ JobOK
  BY DEF Typed, TypeOK
<1>2. job' = job /\ outcome' = outcome
  BY DEF GateAllow, GateRefuse, CallStep, SubmitStopped, SubmitFull, WaitDone, Enqueue
<1>3. pc'[q] = pc[q] /\ result'[q] = result[q] /\ verdicts'[q] = verdicts[q]
  BY <1>1 DEF GateAllow, GateRefuse, CallStep, SubmitStopped, SubmitFull, WaitDone, Enqueue
<1>4. q \in Queued' <=> q \in Queued
  <2>1. CASE Enqueue(r)
    BY <2>1, QueuedAppend
  <2>2. CASE buf' = buf
    BY <2>2 DEF Queued
  <2>. QED BY <2>1, <2>2, CallWakes
<1>5. ASSUME NEW w \in Workers, job[w] = q PROVE worker'[w] = worker[w]
  <2>1. w \notin Parked
    BY <1>1, <1>5, CodelAssumption DEF JobOK, Parked
  <2>. QED BY <1>1, <2>1, CallWakes
<1>. QED BY <1>2, <1>3, <1>4, <1>5 DEF Untouched

(* The request itself moves as its program counter says.                   *)
LEMMA CallPlaced ==
  ASSUME Typed, Placed, NEW r \in Requests, GateAllow(r) \/ GateRefuse(r) \/ CallStep(r)
  PROVE  Placed'
<1>1. \A q \in Requests : q # r => PlaceOK(q)'
  BY CallTouchesOne, UntouchedStays DEF Placed
<1>. USE DEF Goto, Return, Settled
<1>2. /\ pc \in [Requests -> CallPCs] /\ result \in [Requests -> Sheds \cup {"none", "ok", "dropped"}]
      /\ verdicts \in [Requests -> Seq(BOOLEAN)] /\ outcome \in [Requests -> {"none", "ran", "dropped"}]
      /\ job \in [Workers -> Requests \cup {None}]
  BY DEF Typed, TypeOK
<1>3. job' = job /\ outcome' = outcome
  BY DEF GateAllow, GateRefuse, CallStep, SubmitStopped, SubmitFull, WaitDone, Enqueue
<1>4. CASE Enqueue(r)
  <2>1. Outside(r)
    BY <1>2, <1>4 DEF Enqueue, Placed, PlaceOK, Refused, InBuffer, Past, HeldBy, Inside
  <2>2. Queued' = Queued \cup {r} /\ QueuedOnce'
    BY <1>4, <2>1, QueuedAppend DEF Placed, Outside
  <2>3. pc'[r] \in {"waiting", "returned"} /\ result'[r] \in {"none", "ok"} /\ verdicts' = verdicts
    BY <1>2, <1>4, <2>1 DEF Enqueue, Outside
  <2>4. InBuffer(r)'
    BY <1>3, <2>1, <2>2, <2>3 DEF Outside, InBuffer, Inside, OnWorker, Sheds
  <2>. QED BY <1>1, <2>2, <2>4 DEF Placed, PlaceOK
<1>5. CASE ~Enqueue(r)
  <2>1. buf' = buf /\ worker' = worker
    BY <1>5, CallWakes
  <2>2. Queued' = Queued /\ QueuedOnce'
    BY <2>1 DEF Queued, QueuedOnce, Placed
  <2>3. ASSUME GateAllow(r) PROVE PlaceOK(r)'
    <3>1. Outside(r)
      BY <1>2, <2>3 DEF GateAllow, Placed, PlaceOK, Refused, InBuffer, Past, HeldBy, Inside
    <3>2. Outside(r)'
      BY <1>2, <1>3, <2>2, <2>3, <3>1 DEF GateAllow, Outside, OnWorker
    <3>. QED BY <3>2 DEF PlaceOK
  <2>4. ASSUME GateRefuse(r) \/ SubmitStopped(r) \/ SubmitFull(r)
        PROVE  PlaceOK(r)'
    <3>1. Outside(r)
      BY <1>2, <2>4 DEF GateRefuse, SubmitStopped, SubmitFull, Placed, PlaceOK, Refused, InBuffer,
         Past, HeldBy, Inside
    <3>2. /\ pc'[r] = "returned" /\ result'[r] \in Sheds
          /\ verdicts'[r] = IF result'[r] = "overloaded" THEN <<>> ELSE <<FALSE>>
      <4>1. CASE GateRefuse(r)
        BY <1>2, <3>1, <4>1 DEF GateRefuse, Outside, Sheds
      <4>2. CASE SubmitStopped(r) \/ SubmitFull(r)
        <5>1. Append(verdicts[r], FALSE) = <<FALSE>>
          BY <3>1 DEF Outside
        <5>2. result'[r] \in {"full", "stopped"} /\ pc'[r] = "returned"
          BY <1>2, <4>2 DEF SubmitStopped, SubmitFull
        <5>3. verdicts'[r] = <<FALSE>>
          BY <1>2, <4>2, <5>1 DEF SubmitStopped, SubmitFull
        <5>. QED BY <5>2, <5>3 DEF Sheds
      <4>. QED BY <2>4, <4>1, <4>2
    <3>3. Refused(r)'
      BY <1>3, <2>2, <3>1, <3>2 DEF Outside, Refused, OnWorker
    <3>. QED BY <3>3 DEF PlaceOK
  <2>5. ASSUME WaitDone(r) PROVE PlaceOK(r)'
    <3>1. /\ verdicts' = verdicts /\ pc[r] = "waiting" /\ pc'[r] = "returned"
          /\ result'[r] \in {"ok", "dropped"}
      BY <1>2, <2>5 DEF WaitDone
    <3>2. ~Outside(r) /\ ~Refused(r) /\ Inside(r)'
      BY <3>1 DEF Outside, Refused, Inside, Sheds
    <3>3. ASSUME InBuffer(r) PROVE PlaceOK(r)'
      BY <1>3, <2>2, <3>1, <3>2, <3>3 DEF InBuffer, OnWorker, PlaceOK
    <3>4. ASSUME Past(r) PROVE PlaceOK(r)'
      BY <1>3, <2>2, <3>1, <3>2, <3>4 DEF Past, OnWorker, PlaceOK
    <3>5. ASSUME NEW w \in Workers, HeldBy(r, w) PROVE PlaceOK(r)'
      <4>1. HeldBy(r, w)'
        BY <1>3, <2>1, <2>2, <3>1, <3>2, <3>5 DEF HeldBy
      <4>. QED BY <4>1 DEF PlaceOK
    <3>. QED BY <3>2, <3>3, <3>4, <3>5 DEF Placed, PlaceOK
  <2>6. PlaceOK(r)'
    BY <1>5, <2>3, <2>4, <2>5 DEF CallStep
  <2>. QED BY <1>1, <2>2, <2>6 DEF Placed
<1>. QED BY <1>4, <1>5

(* A worker moves only the request that it takes or holds.                 *)
LEMMA WorkerTouchesOne ==
  ASSUME Typed, Placed, NEW w \in Workers, WorkerStep(w), NEW q \in Requests,
         job[w] # q, job'[w] # q
  PROVE  Untouched(q)
<1>1. /\ job \in [Workers -> Requests \cup {None}] /\ JobOK
      /\ verdicts \in [Requests -> Seq(BOOLEAN)] /\ outcome \in [Requests -> {"none", "ran", "dropped"}]
      /\ worker \in [Workers -> WorkerPCs]
  BY DEF Typed, TypeOK
<1>2. pc' = pc /\ result' = result /\ \A v \in Workers : v # w => job'[v] = job[v] /\ worker'[v] = worker[v]
  BY WorkerAlone DEF callVars
<1>3. CASE DropOldest(w) \/ Serve(w)
  <2>1. PICK k \in 1 .. Len(buf) : buf' = RemoveAt(buf, k) /\ job' = [job EXCEPT ![w] = buf[k].task]
    BY <1>3, DequeueTakes
  <2>2. Queued' = Queued \ {job'[w]}
    BY <1>1, <2>1, QueuedRemove DEF Placed
  <2>3. verdicts' = verdicts /\ outcome' = outcome
    BY <1>3 DEF DropOldest, Serve
  <2>. QED BY <1>2, <2>2, <2>3 DEF Untouched
<1>4. CASE ~(DropOldest(w) \/ Serve(w))
  <2>1. Queued' = Queued
    BY <1>4 DEF Queued, WorkerStep, Park, Exit, Discard, Start, BodyEnd, Settle
  <2>2. verdicts'[q] = verdicts[q] /\ outcome'[q] = outcome[q]
    BY <1>1, <1>4 DEF WorkerStep, Park, Exit, Discard, Start, BodyEnd, Settle, Settled
  <2>. QED BY <1>2, <2>1, <2>2 DEF Untouched
<1>. QED BY <1>3, <1>4

(* That request moves from the queue through the worker.                   *)
LEMMA WorkerPlaced ==
  ASSUME Typed, Placed, NEW w \in Workers, WorkerStep(w)
  PROVE  Placed'
<1>. USE DEF Step
<1>1. /\ worker \in [Workers -> WorkerPCs] /\ job \in [Workers -> Requests \cup {None}]
      /\ verdicts \in [Requests -> Seq(BOOLEAN)] /\ outcome \in [Requests -> {"none", "ran", "dropped"}]
      /\ JobOK
  BY DEF Typed, TypeOK
<1>2. pc' = pc /\ result' = result
  BY WorkerAlone DEF callVars
<1>3. CASE DropOldest(w) \/ Serve(w)
  <2>1. PICK k \in 1 .. Len(buf) : /\ buf[k].task \in Requests /\ buf' = RemoveAt(buf, k)
                                   /\ job' = [job EXCEPT ![w] = buf[k].task]
    BY <1>3, DequeueTakes
  <2>2. PICK h \in Requests : h = buf[k].task /\ h \in Queued /\ Queued' = Queued \ {h} /\ QueuedOnce'
    BY <2>1, QueuedRemove DEF Placed
  <2>3. InBuffer(h)
    BY <2>2 DEF Placed, PlaceOK, Outside, Refused, Past, HeldBy
  <2>4. /\ job[w] = None /\ job' = [job EXCEPT ![w] = h] /\ worker'[w] # "ended"
        /\ verdicts' = verdicts /\ outcome' = outcome
    BY <1>1, <1>3, <2>1, <2>2 DEF DropOldest, Serve, JobOK
  <2>5. HeldBy(h, w)'
    BY <1>1, <1>2, <2>2, <2>3, <2>4 DEF InBuffer, HeldBy, Inside, OnWorker
  <2>6. \A q \in Requests : q # h => PlaceOK(q)'
    BY <1>1, <2>2, <2>4, WorkerTouchesOne, UntouchedStays, CodelAssumption DEF Placed
  <2>. QED BY <2>2, <2>5, <2>6 DEF Placed, PlaceOK
<1>4. CASE ~(DropOldest(w) \/ Serve(w))
  <2>1. buf' = buf
    BY <1>4 DEF WorkerStep, Park, Exit, Discard, Start, BodyEnd, Settle
  <2>2. Queued' = Queued /\ QueuedOnce'
    BY <2>1 DEF Queued, Placed, QueuedOnce
  <2>3. CASE Park(w) \/ Exit(w)
    <3>1. job[w] = None /\ job'[w] = None
      BY <1>1, <2>3 DEF Park, Exit, JobOK
    <3>2. \A q \in Requests : PlaceOK(q)'
      BY <3>1, WorkerTouchesOne, UntouchedStays, CodelAssumption DEF Placed
    <3>. QED BY <2>2, <3>2 DEF Placed
  <2>4. CASE ~(Park(w) \/ Exit(w))
    <3>1. PICK r \in Requests : r = job[w] /\ worker[w] \in {"discarding", "took", "running", "ended"}
      BY <1>1, <1>4, <2>4 DEF WorkerStep, Discard, Start, BodyEnd, Settle, JobOK
    <3>2. HeldBy(r, w)
      <4>1. PlaceOK(r) /\ OnWorker(r)
        BY <3>1 DEF Placed, OnWorker
      <4>2. PICK v \in Workers : HeldBy(r, v)
        BY <4>1 DEF PlaceOK, Outside, Refused, InBuffer, Past
      <4>3. v = w
        BY <3>1, <4>2 DEF HeldBy
      <4>. QED BY <4>2, <4>3
    <3>3. job' = job \/ job' = [job EXCEPT ![w] = None]
      BY <1>4, <2>4 DEF WorkerStep, Discard, Start, BodyEnd, Settle
    <3>4. \A q \in Requests : q # r => PlaceOK(q)'
      BY <1>1, <3>1, <3>3, WorkerTouchesOne, UntouchedStays, CodelAssumption DEF Placed
    <3>5. ASSUME Start(w) \/ BodyEnd(w) PROVE PlaceOK(r)'
      <4>1. HeldBy(r, w)'
        BY <1>1, <1>2, <2>2, <3>1, <3>2, <3>5 DEF Start, BodyEnd, HeldBy, Inside
      <4>. QED BY <4>1 DEF PlaceOK
    <3>6. ASSUME Discard(w) \/ Settle(w) PROVE PlaceOK(r)'
      <4>1. PICK ok \in BOOLEAN : /\ verdicts' = [verdicts EXCEPT ![r] = Append(@, ok)]
                                  /\ Discard(w) => ok = FALSE
        BY <1>1, <3>1, <3>6 DEF Discard, Settle, Settled
      <4>2. verdicts[r] = <<>> /\ outcome[r] = IF worker[w] = "ended" THEN "ran" ELSE "none"
        BY <3>2 DEF HeldBy
      <4>3. verdicts'[r] = <<ok>>
        BY <1>1, <4>1, <4>2
      <4>4. Len(verdicts'[r]) = 1
        BY <4>3
      <4>5. ~OnWorker(r)'
        BY <1>1, <3>1, <3>2, <3>6, CodelAssumption DEF Discard, Settle, HeldBy, OnWorker
      <4>6. outcome'[r] \in {"ran", "dropped"} /\ (outcome'[r] = "dropped" => Discard(w))
        BY <1>1, <3>1, <3>6, <4>2 DEF Discard, Settle
      <4>7. outcome'[r] = "dropped" => verdicts'[r] = <<FALSE>>
        BY <4>1, <4>3, <4>6
      <4>8. Past(r)'
        BY <1>2, <2>2, <3>2, <4>4, <4>5, <4>6, <4>7 DEF HeldBy, Inside, Past
      <4>. QED BY <4>8 DEF PlaceOK
    <3>. QED BY <1>4, <2>2, <2>4, <3>4, <3>5, <3>6 DEF Placed, WorkerStep
  <2>. QED BY <2>3, <2>4
<1>. QED BY <1>3, <1>4

-----------------------------------------------------------------------------
(* The inductive invariant.                                                *)
CodelInv == Typed /\ Ordered /\ ControlInv /\ NoLostWakeup /\ StopInv /\ Placed

(* Initially the queue is empty, open, and out of any dropping period.     *)
LEMMA InitInv == Init => CodelInv
<1>. SUFFICES ASSUME Init PROVE CodelInv
  OBVIOUS
<1>1. Typed
  BY InitTyped
<1>2. Len(<<>>) = 0 /\ DOMAIN <<>> = {}
  OBVIOUS
<1>3. Ordered
  BY <1>2, CodelAssumption DEF Init, Ordered
<1>4. ControlInv
  BY DEF Init, ControlInv, ControlConsistent
<1>5. Parked = {} /\ Queued = {} /\ QueuedOnce
  BY <1>2 DEF Init, Parked, Queued, QueuedOnce
<1>6. NoLostWakeup
  BY <1>5 DEF NoLostWakeup
<1>7. StopInv
  BY <1>5 DEF Init, StopInv, OnceTaken
<1>8. ASSUME NEW r \in Requests PROVE Outside(r)
  BY <1>5, CodelAssumption DEF Init, Outside, OnWorker
<1>. QED BY <1>1, <1>3, <1>4, <1>5, <1>6, <1>7, <1>8 DEF CodelInv, Placed, PlaceOK

(* Every step preserves the invariant.                                     *)
LEMMA NextInv == CodelInv /\ [Next]_vars => CodelInv'
<1>. SUFFICES ASSUME CodelInv, [Next]_vars PROVE CodelInv'
  OBVIOUS
<1>0. Typed /\ Ordered /\ ControlInv /\ NoLostWakeup /\ StopInv /\ Placed
  BY DEF CodelInv
<1>1. Ordered' /\ ControlInv' /\ NoLostWakeup' /\ StopInv'
  BY <1>0, OrderedStep, ControlStep, WakeupKept, StopKept
<1>2. CASE UNCHANGED vars \/ Tick
  <2>1. UNCHANGED <<buf, closed, callVars, worker, job, outcome, verdicts, stop>>
    BY <1>2 DEF vars, Tick
  <2>2. Queued' = Queued /\ QueuedOnce'
    BY <1>0, <2>1 DEF Queued, Placed, QueuedOnce
  <2>3. ASSUME NEW r \in Requests PROVE PlaceOK(r)'
    <3>1. Untouched(r)
      BY <2>1, <2>2 DEF Untouched, callVars
    <3>. QED BY <1>0, <3>1, UntouchedStays DEF Placed
  <2>4. Typed'
    <3>1. now' \in Nat /\ lastEmpty' \in Nat
      BY <1>0, <1>2 DEF vars, Tick, Typed, TypeOK, history
    <3>2. UNCHANGED <<control, counters, lastBelow>>
      BY <1>2 DEF vars, Tick, history
    <3>. QED BY <1>0, <2>1, <3>1, <3>2 DEF Typed, TypeOK, JobOK, control, counters, callVars
  <2>. QED BY <1>1, <2>2, <2>3, <2>4 DEF CodelInv, Placed
<1>3. ASSUME NEW r \in Requests, GateAllow(r) \/ GateRefuse(r) \/ CallStep(r) PROVE CodelInv'
  BY <1>0, <1>1, <1>3, CallTyped, CallPlaced DEF CodelInv
<1>4. ASSUME NEW w \in Workers, WorkerStep(w) PROVE CodelInv'
  BY <1>0, <1>1, <1>4, WorkerTyped, WorkerPlaced DEF CodelInv
<1>5. ASSUME NEW s \in Stoppers, StopClose(s) \/ StopJoin(s) \/ StopStep(s) PROVE CodelInv'
  <2>1. Typed'
    BY <1>0, <1>5, StopTyped
  <2>2. UNCHANGED <<buf, callVars, job, outcome, verdicts>>
    BY <1>5 DEF StopClose, StopJoin, StopStep, StopReturn, StopJoined
  <2>3. \A w \in Workers : worker[w] # "parked" => worker'[w] = worker[w]
    BY <1>0, <1>5 DEF StopClose, StopJoin, StopStep, StopReturn, StopJoined, Parked, Typed, TypeOK
  <2>4. Queued' = Queued /\ QueuedOnce'
    BY <1>0, <2>2 DEF Queued, Placed, QueuedOnce
  <2>5. ASSUME NEW r \in Requests PROVE PlaceOK(r)'
    <3>1. \A w \in Workers : job[w] = r => worker[w] # "parked"
      BY <1>0, CodelAssumption DEF Typed, JobOK
    <3>2. Untouched(r)
      BY <2>2, <2>3, <2>4, <3>1 DEF Untouched, callVars
    <3>. QED BY <1>0, <3>2, UntouchedStays DEF Placed
  <2>. QED BY <1>1, <2>1, <2>4, <2>5 DEF CodelInv, Placed
<1>. QED BY <1>2, <1>3, <1>4, <1>5 DEF Next, Rest

(* CodelInv is an invariant of the pool.                                   *)
LEMMA CodelInvariant == Spec => []CodelInv
BY InitInv, NextInv, PTL DEF Spec

(* Every variable keeps its type, the buffer keeps to the capacity that    *)
(* Enqueue checks, and a worker holds a task exactly while it is busy with *)
(* it.                                                                     *)
THEOREM TypeCorrect == Spec => [](TypeOK /\ Len(buf) <= QueueCapacity /\ JobOK)
<1>1. CodelInv => TypeOK /\ Len(buf) <= QueueCapacity /\ JobOK
  BY DEF CodelInv, Typed, Ordered
<1>. QED BY <1>1, CodelInvariant, PTL

(* The head is the oldest task, whichever end the tasks are taken from,    *)
(* and the queue keeps to its capacity.                                    *)
THEOREM OldestFirst == Spec => []HeadIsOldest
<1>1. CodelInv => HeadIsOldest
  <2>. SUFFICES ASSUME CodelInv PROVE HeadIsOldest
    OBVIOUS
  <2>1. buf \in Seq([task : Requests, enq : Nat]) /\ Ordered
    BY DEF CodelInv, Typed, TypeOK
  <2>2. \A i \in DOMAIN buf : 1 \in DOMAIN buf /\ 1 <= i
    BY <2>1
  <2>. QED BY <2>1, <2>2 DEF Ordered, HeadIsOldest
<1>. QED BY <1>1, CodelInvariant, PTL

(* No Signal is lost: while a worker sleeps on the condition variable,     *)
(* every queued task has an awake worker on its way; and once Stop has     *)
(* closed the queue and broadcast, nobody sleeps, nor goes to sleep again. *)
THEOREM WakeupsSuffice == Spec => [](NoLostWakeup /\ (closed => Parked = {}))
<1>1. CodelInv => NoLostWakeup /\ (closed => Parked = {})
  BY DEF CodelInv, StopInv
<1>. QED BY <1>1, CodelInvariant, PTL

(* While CoDel drops, its state is that of one dropping period, and the    *)
(* next drop is no further away than the square-root law puts it.          *)
THEOREM DroppingPeriod == Spec => []ControlConsistent
<1>1. CodelInv => ControlConsistent
  BY DEF CodelInv, ControlInv
<1>. QED BY <1>1, CodelInvariant, PTL

(* The gate's done is called exactly once for every admitted call, with    *)
(* FALSE if its task was dropped.                                          *)
THEOREM GateToldOnce == Spec => []DoneExactlyOnce
<1>1. CodelInv => DoneExactlyOnce
  <2>. SUFFICES ASSUME CodelInv, NEW r \in Requests
                PROVE  /\ Len(verdicts[r]) <= 1
                       /\ result[r] = "overloaded" => verdicts[r] = <<>>
                       /\ result[r] \in {"full", "stopped"} => verdicts[r] = <<FALSE>>
                       /\ outcome[r] = "dropped" => verdicts[r] = <<FALSE>>
                       /\ r \in Accepted /\ r \notin Queued /\ ~OnWorker(r) => verdicts[r] # <<>>
    BY DEF DoneExactlyOnce
  <2>0. Len(<<>>) = 0 /\ Len(<<FALSE>>) = 1
    OBVIOUS
  <2>1. PlaceOK(r)
    BY DEF CodelInv, Placed
  <2>2. CASE Outside(r)
    BY <2>0, <2>2 DEF Outside, Accepted
  <2>3. CASE Refused(r)
    <3>1. result[r] \in Sheds /\ outcome[r] = "none" /\ r \notin Accepted
      BY <2>3 DEF Refused, Accepted
    <3>2. CASE result[r] = "overloaded"
      <4>1. verdicts[r] = <<>>
        BY <2>3, <3>2 DEF Refused
      <4>. QED BY <2>0, <3>1, <3>2, <4>1
    <3>3. CASE result[r] # "overloaded"
      <4>1. verdicts[r] = <<FALSE>>
        BY <2>3, <3>3 DEF Refused
      <4>2. Len(verdicts[r]) = 1
        BY <2>0, <4>1
      <4>. QED BY <3>1, <3>3, <4>1, <4>2
    <3>. QED BY <3>2, <3>3
  <2>4. CASE InBuffer(r)
    BY <2>0, <2>4 DEF InBuffer, Inside, Sheds
  <2>5. CASE Past(r)
    <3>1. Len(verdicts[r]) = 1 /\ result[r] \notin Sheds
      BY <2>5 DEF Past, Inside
    <3>2. verdicts[r] # <<>>
      BY <2>0, <3>1
    <3>3. outcome[r] = "dropped" => verdicts[r] = <<FALSE>>
      BY <2>5 DEF Past
    <3>4. Len(verdicts[r]) <= 1
      BY <3>1
    <3>. QED BY <3>1, <3>2, <3>3, <3>4 DEF Sheds
  <2>6. CASE \E w \in Workers : HeldBy(r, w)
    <3>1. OnWorker(r) /\ result[r] \notin Sheds /\ verdicts[r] = <<>> /\ outcome[r] # "dropped"
      BY <2>6 DEF HeldBy, OnWorker, Inside
    <3>. QED BY <2>0, <3>1 DEF Sheds
  <2>. QED BY <2>1, <2>2, <2>3, <2>4, <2>5, <2>6 DEF PlaceOK
<1>. QED BY <1>1, CodelInvariant, PTL

(* CoDel drops only when no dequeue has found the oldest task below the    *)
(* target for a whole interval.                                            *)
THEOREM DropsOutOfStandingQueue == Spec => DropNeedsStandingQueue
<1>1. CodelInv /\ [Next]_vars => [dropped' # dropped => now - lastBelow >= Interval]_vars
  <2>. SUFFICES ASSUME CodelInv, [Next]_vars, dropped' # dropped
                PROVE  now - lastBelow >= Interval
    OBVIOUS
  <2>1. \E w \in Workers : DropOldest(w)
    <3>1. ASSUME NEW r \in Requests, Enqueue(r) PROVE dropped' = dropped
      BY <3>1 DEF Enqueue
    <3>2. ASSUME NEW w \in Workers, Serve(w) PROVE dropped' = dropped
      BY <3>2 DEF Serve, counters
    <3>3. Tick => dropped' = dropped
      BY DEF Tick, counters
    <3>. QED BY <3>1, <3>2, <3>3, BufferSteps
  <2>2. firstAbove # 0 /\ now >= firstAbove
    BY <2>1 DEF DropOldest, ShouldDrop, Standing
  <2>3. lastBelow + Interval <= firstAbove
    BY <2>2 DEF CodelInv, ControlInv
  <2>4. now \in Nat /\ lastBelow \in Nat /\ firstAbove \in Nat /\ Interval \in Nat
    BY CodelAssumption DEF CodelInv, Typed, TypeOK
  <2>. QED BY <2>2, <2>3, <2>4
<1>. QED BY <1>1, CodelInvariant, PTL DEF Spec, DropNeedsStandingQueue

(* A call of Stop joins only after another has begun, and that one goes on *)
(* to its return.                                                          *)
JoinersHaveOne == (\E s \in Stoppers : stop[s] = "joining") => OnceTaken

(* It holds in every reachable state.                                      *)
LEMMA JoinersInvariant == Spec => []JoinersHaveOne
<1>1. Init => JoinersHaveOne
  BY DEF Init, JoinersHaveOne
<1>2. CodelInv /\ JoinersHaveOne /\ [Next]_vars => JoinersHaveOne'
  <2>. SUFFICES ASSUME CodelInv, JoinersHaveOne, [Next]_vars PROVE JoinersHaveOne'
    OBVIOUS
  <2>1. stop \in [Stoppers -> StopPCs]
    BY DEF CodelInv, Typed, TypeOK
  <2>2. CASE UNCHANGED stop
    BY <2>2 DEF JoinersHaveOne, OnceTaken
  <2>3. ASSUME NEW s \in Stoppers, StopClose(s) \/ StopJoin(s) \/ StopStep(s)
        PROVE  JoinersHaveOne'
    <3>1. PICK to \in {"draining", "joining", "returned"} : stop' = [stop EXCEPT ![s] = to]
      BY <2>3 DEF StopClose, StopJoin, StopStep, StopReturn, StopJoined, StopGoto
    <3>2. to = "joining" => OnceTaken
      BY <2>1, <2>3, <3>1 DEF StopClose, StopJoin, StopStep, StopReturn, StopJoined, StopGoto
    <3>3. stop[s] \in {"draining", "returned"} => to = "returned"
      BY <2>1, <2>3, <3>1 DEF StopClose, StopJoin, StopStep, StopReturn, StopJoined, StopGoto
    <3>4. OnceTaken => OnceTaken'
      BY <2>1, <3>1, <3>3 DEF OnceTaken
    <3>5. (\E t \in Stoppers : stop'[t] = "joining") =>
             to = "joining" \/ \E t \in Stoppers : stop[t] = "joining"
      BY <2>1, <3>1
    <3>. QED BY <3>2, <3>4, <3>5 DEF JoinersHaveOne
  <2>4. UNCHANGED stop \/ \E s \in Stoppers : StopClose(s) \/ StopJoin(s) \/ StopStep(s)
    <3>1. ASSUME NEW r \in Requests, GateAllow(r) \/ GateRefuse(r) \/ CallStep(r)
          PROVE  UNCHANGED stop
      BY <3>1 DEF GateAllow, GateRefuse, CallStep, SubmitStopped, SubmitFull, Enqueue, WaitDone
    <3>2. ASSUME NEW w \in Workers, WorkerStep(w) PROVE UNCHANGED stop
      BY <3>2 DEF WorkerStep, Park, Exit, DropOldest, Serve, Discard, Start, BodyEnd, Settle
    <3>. QED BY <3>1, <3>2 DEF Next, Tick, Rest, vars
  <2>. QED BY <2>2, <2>3, <2>4
<1>. QED BY <1>1, <1>2, CodelInvariant, PTL DEF Spec

(* No wait is in vain: no task is queued while all workers sleep, and none *)
(* sleeps once the pool is closed.                                         *)
THEOREM WaitsAreServed == Spec => []NobodyWaitsInVain
<1>1. ASSUME CodelInv, NEW w \in Workers, worker[w] \notin {"parked", "exited"},
             buf # <<>> \/ closed \/ job[w] # None
      PROVE  CanWork(w)
  BY <1>1 DEF CodelInv, Typed, TypeOK, JobOK, CanWork, WorkerPCs
<1>2. ASSUME CodelInv, buf # <<>> PROVE \E w \in Workers : CanWork(w)
  <2>1. \A w \in Workers : worker[w] # "exited"
    BY <1>2 DEF CodelInv, StopInv
  <2>2. CASE Parked = {}
    BY <1>1, <1>2, <2>1, <2>2, CodelAssumption DEF Parked
  <2>3. CASE Parked # {}
    <3>. DEFINE Idle == {w \in Workers : worker[w] = "idle"}
    <3>1. Len(buf) \in Nat /\ Len(buf) # 0 /\ Len(buf) <= Cardinality(Idle)
      BY <1>2, <2>3 DEF CodelInv, NoLostWakeup, Typed, TypeOK
    <3>2. Idle # {}
      BY <3>1, FS_EmptySet
    <3>. QED BY <1>2, <3>2 DEF CanWork
  <2>. QED BY <2>2, <2>3
<1>3. ASSUME CodelInv, NEW r \in Requests, pc[r] = "waiting"
      PROVE  \/ outcome[r] # "none"
             \/ \E w \in Workers : job[w] = r /\ CanWork(w)
             \/ r \in Queued /\ \E w \in Workers : CanWork(w)
  <2>1. PlaceOK(r)
    BY <1>3 DEF CodelInv, Placed
  <2>2. CASE InBuffer(r)
    <3>1. r \in Queued /\ buf # <<>>
      BY <2>2 DEF InBuffer, Queued
    <3>. QED BY <1>2, <1>3, <3>1
  <2>3. ASSUME NEW w \in Workers, HeldBy(r, w) PROVE job[w] = r /\ CanWork(w)
    <3>1. job[w] = r /\ job[w] # None
      BY <2>3, CodelAssumption DEF HeldBy
    <3>2. worker[w] \notin {"parked", "exited"}
      BY <1>3, <3>1 DEF CodelInv, Typed, JobOK
    <3>. QED BY <1>1, <1>3, <3>1, <3>2
  <2>. QED BY <1>3, <2>1, <2>2, <2>3 DEF PlaceOK, Outside, Refused, Past
<1>4. ASSUME CodelInv, NEW s \in Stoppers, stop[s] = "draining",
             NEW w \in Workers, worker[w] # "exited"
      PROVE  CanWork(w)
  <2>1. closed /\ worker[w] # "parked"
    BY <1>4 DEF CodelInv, StopInv, OnceTaken, Parked
  <2>. QED BY <1>1, <1>4, <2>1
<1>5. CodelInv /\ JoinersHaveOne => NobodyWaitsInVain
  BY <1>3, <1>4 DEF NobodyWaitsInVain, JoinersHaveOne
<1>. QED BY <1>5, CodelInvariant, JoinersInvariant, PTL

-----------------------------------------------------------------------------
(* The pool as its callers see it.                                         *)

(* The abstract specification counts with the same cardinality.            *)
LEMMA SameCardinality == \A S : Abstract!Cardinality(S) = Cardinality(S)
BY DEF Abstract!Cardinality, Cardinality

(* The status that callers see is decided by where the request is.         *)
LEMMA StatusIs ==
  ASSUME NEW r \in Requests
  PROVE  /\ Outside(r) => Status(r) = "new"
         /\ Refused(r) => Status(r) = "shed"
         /\ InBuffer(r) => Status(r) = "queued"
         /\ \A w \in Workers : HeldBy(r, w) =>
              Status(r) = IF worker[w] = "discarding" THEN "dropped" ELSE "running"
         /\ Past(r) => Status(r) = IF outcome[r] = "dropped" THEN "dropped" ELSE "done"
<1>. DEFINE Dropping == outcome[r] = "dropped" \/ Discarding(r)
<1>0. Status(r) =
        CASE result[r] \in Sheds -> "shed"
          [] Dropping -> "dropped"
          [] r \in Queued  -> "queued"
          [] OnWorker(r) /\ ~Discarding(r) -> "running"
          [] outcome[r] = "ran" /\ ~OnWorker(r) -> "done"
          [] OTHER -> "new"
  BY DEF Status
<1>1. ~OnWorker(r) => ~Discarding(r)
  BY DEF OnWorker, Discarding
<1>2. ASSUME Outside(r) PROVE Status(r) = "new"
  <2>1. result[r] \notin Sheds
    BY <1>2 DEF Outside, Sheds
  <2>2. ~Dropping /\ outcome[r] # "ran" /\ r \notin Queued /\ ~OnWorker(r)
    BY <1>1, <1>2 DEF Outside
  <2>. HIDE DEF Dropping
  <2>. QED BY <1>0, <2>1, <2>2
<1>3. ASSUME Refused(r) PROVE Status(r) = "shed"
  <2>1. result[r] \in Sheds /\ ~Dropping /\ outcome[r] # "ran" /\ r \notin Queued /\ ~OnWorker(r)
    BY <1>1, <1>3 DEF Refused
  <2>. HIDE DEF Dropping
  <2>. QED BY <1>0, <2>1
<1>4. ASSUME InBuffer(r) PROVE Status(r) = "queued"
  <2>1. result[r] \notin Sheds /\ ~Dropping /\ outcome[r] # "ran" /\ r \in Queued /\ ~OnWorker(r)
    BY <1>1, <1>4 DEF InBuffer, Inside
  <2>. HIDE DEF Dropping
  <2>. QED BY <1>0, <2>1
<1>5. ASSUME NEW w \in Workers, HeldBy(r, w)
      PROVE  Status(r) = IF worker[w] = "discarding" THEN "dropped" ELSE "running"
  <2>1. Discarding(r) <=> worker[w] = "discarding"
    BY <1>5 DEF HeldBy, Discarding
  <2>2. OnWorker(r) /\ r \notin Queued /\ result[r] \notin Sheds
    BY <1>5 DEF HeldBy, OnWorker, Inside
  <2>3. outcome[r] # "dropped"
    BY <1>5 DEF HeldBy
  <2>4. Dropping <=> worker[w] = "discarding"
    BY <2>1, <2>3
  <2>. HIDE DEF Dropping
  <2>. QED BY <1>0, <2>1, <2>2, <2>4
<1>6. ASSUME Past(r)
      PROVE  Status(r) = IF outcome[r] = "dropped" THEN "dropped" ELSE "done"
  <2>1. /\ result[r] \notin Sheds /\ r \notin Queued /\ ~OnWorker(r)
        /\ outcome[r] \in {"ran", "dropped"}
        /\ Dropping <=> outcome[r] = "dropped"
    BY <1>1, <1>6 DEF Past, Inside
  <2>. HIDE DEF Dropping
  <2>. QED BY <1>0, <2>1
<1>. QED BY <1>2, <1>3, <1>4, <1>5, <1>6

(* Callers see as queued what is in the queue, and as running what a       *)
(* worker holds and does not drop.                                         *)
LEMMA StatusOf ==
  ASSUME Placed, NEW r \in Requests
  PROVE  /\ Status(r) = "queued" <=> r \in Queued
         /\ Status(r) = "running" <=> OnWorker(r) /\ ~Discarding(r)
<1>1. PlaceOK(r)
  BY DEF Placed
<1>2. CASE Outside(r)  BY <1>2, StatusIs DEF Outside
<1>3. CASE Refused(r)  BY <1>3, StatusIs DEF Refused
<1>4. CASE InBuffer(r) BY <1>4, StatusIs DEF InBuffer
<1>5. CASE Past(r)
  <2>1. Status(r) \in {"dropped", "done"}
    BY <1>5, StatusIs
  <2>. QED BY <1>5, <2>1 DEF Past
<1>6. CASE \E w \in Workers : HeldBy(r, w)
  <2>1. PICK w \in Workers : HeldBy(r, w)
    BY <1>6
  <2>2. Status(r) = IF worker[w] = "discarding" THEN "dropped" ELSE "running"
    BY <2>1, StatusIs
  <2>3. Discarding(r) <=> worker[w] = "discarding"
    BY <2>1 DEF HeldBy, Discarding
  <2>4. r \notin Queued /\ OnWorker(r)
    BY <2>1 DEF HeldBy, OnWorker
  <2>. QED BY <2>2, <2>3, <2>4
<1>. QED BY <1>1, <1>2, <1>3, <1>4, <1>5, <1>6 DEF PlaceOK

(* The workers that hold a task.                                           *)
Holders == {w \in Workers : job[w] # None}

(* What runs is no more than the workers that hold something, and what is  *)
(* in flight no more than that and the queue.                              *)
LEMMA InFlightBound ==
  ASSUME CodelInv
  PROVE  /\ IsFiniteSet(Holders) /\ Cardinality(Holders) \in Nat
         /\ Cardinality(Holders) <= Cardinality(Workers)
         /\ Cardinality(Abstract!Running) \in Nat
         /\ Cardinality(Abstract!Running) <= Cardinality(Holders)
         /\ Cardinality(Abstract!InFlight) \in Nat
         /\ Cardinality(Abstract!InFlight) <= Len(buf) + Cardinality(Holders)
<1>1. /\ buf \in Seq([task : Requests, enq : Nat]) /\ job \in [Workers -> Requests \cup {None}]
      /\ Placed /\ Typed
  BY DEF CodelInv, Typed, TypeOK
<1>2. /\ IsFiniteSet(Holders) /\ Cardinality(Holders) \in Nat
      /\ Cardinality(Holders) <= Cardinality(Workers)
  BY CodelAssumption, FS_Subset, FS_CardinalityType DEF Holders
<1>3. Abstract!Running \subseteq {r \in Requests : OnWorker(r)}
  BY <1>1, StatusOf DEF Abstract!Running
<1>4. Abstract!InFlight = Abstract!Running \cup Queued
  <2>1. Queued \subseteq Requests
    <3>1. \A i \in 1 .. Len(buf) : buf[i].task \in Requests
      BY <1>1, RemoveAtIs
    <3>. QED BY <1>1, <3>1 DEF Queued
  <2>2. \A r \in Requests : Status(r) = "queued" <=> r \in Queued
    BY <1>1, StatusOf
  <2>. QED BY <2>1, <2>2 DEF Abstract!InFlight, Abstract!Running
<1>5. IsFiniteSet(Queued) /\ Cardinality(Queued) <= Len(buf)
  <2>. DEFINE f == [i \in 1 .. Len(buf) |-> buf[i].task]
  <2>1. DOMAIN buf = 1 .. Len(buf) /\ Len(buf) \in Nat
    BY <1>1
  <2>2. f \in Surjection(1 .. Len(buf), Queued)
    BY <2>1 DEF Surjection, Queued
  <2>3. IsFiniteSet(1 .. Len(buf)) /\ Cardinality(1 .. Len(buf)) = Len(buf)
    <3>1. \A n \in Nat : IsFiniteSet(1 .. n) /\ Cardinality(1 .. n) = n
      BY FS_Interval
    <3>. QED BY <2>1, <3>1
  <2>. QED BY <2>2, <2>3, FS_Surjection
<1>6. /\ IsFiniteSet(Abstract!Running) /\ Cardinality(Abstract!Running) \in Nat
      /\ Cardinality(Abstract!Running) <= Cardinality(Holders)
  <2>. DEFINE Held == {r \in Requests : OnWorker(r)}
  <2>. DEFINE f == [w \in Holders |-> job[w]]
  <2>1. f \in Surjection(Holders, Held)
    BY <1>1, CodelAssumption DEF Surjection, Holders, OnWorker
  <2>2. IsFiniteSet(Held) /\ Cardinality(Held) <= Cardinality(Holders)
    BY <1>2, <2>1, FS_Surjection
  <2>3. /\ IsFiniteSet(Abstract!Running)
        /\ Cardinality(Abstract!Running) <= Cardinality(Held)
    BY <1>3, <2>2, FS_Subset
  <2>4. Cardinality(Abstract!Running) \in Nat /\ Cardinality(Held) \in Nat
    BY <2>2, <2>3, FS_CardinalityType
  <2>. HIDE DEF Held
  <2>. QED BY <1>2, <2>2, <2>3, <2>4
<1>7. Cardinality(Queued) \in Nat /\ Len(buf) \in Nat
  BY <1>1, <1>5, FS_CardinalityType
<1>8. /\ IsFiniteSet(Abstract!InFlight)
      /\ Cardinality(Abstract!InFlight) <= Cardinality(Abstract!Running) + Cardinality(Queued)
  <2>1. IsFiniteSet(Abstract!Running \cap Queued)
    BY <1>5, FS_Subset
  <2>2. Cardinality(Abstract!Running \cap Queued) \in Nat
    BY <2>1, FS_CardinalityType
  <2>3. /\ IsFiniteSet(Abstract!Running \cup Queued)
        /\ Cardinality(Abstract!Running \cup Queued) =
             Cardinality(Abstract!Running) + Cardinality(Queued)
               - Cardinality(Abstract!Running \cap Queued)
    BY <1>5, <1>6, FS_Union
  <2>. QED BY <1>4, <1>6, <1>7, <2>2, <2>3
<1>9. Cardinality(Abstract!InFlight) \in Nat
  BY <1>8, FS_CardinalityType
<1>. QED BY <1>2, <1>5, <1>6, <1>7, <1>8, <1>9

(* What callers see of a request changes only when it moves.               *)
LEMMA StatusUntouched ==
  ASSUME Placed, Placed', NEW q \in Requests, Untouched(q)
  PROVE  Status(q)' = Status(q)
<1>1. (OnWorker(q)' <=> OnWorker(q)) /\ (Discarding(q)' <=> Discarding(q))
  BY DEF Untouched, OnWorker, Discarding
<1>. QED BY <1>1 DEF Untouched, Status

(* A step that moves one request is the abstract step of that request.     *)
LEMMA OneMoves ==
  ASSUME NEW r \in Requests, NEW new,
         \A q \in Requests : q # r => Status(q)' = Status(q),
         Status(r)' = new
  PROVE  [q \in Requests |-> Status(q)]' = [[q \in Requests |-> Status(q)] EXCEPT ![r] = new]
OBVIOUS

(* Nothing that callers see has changed.                                   *)
LEMMA NoneMoves ==
  ASSUME \A q \in Requests : Status(q)' = Status(q), closed' = closed, StopReturned' = StopReturned
  PROVE  UNCHANGED Abstract!vars
BY DEF Abstract!vars

(* A call is admitted when it enters the queue of an open pool, within the *)
(* budget, and shed by each of its error returns.                          *)
LEMMA CallRefines ==
  ASSUME CodelInv, CodelInv', NEW r \in Requests, GateAllow(r) \/ GateRefuse(r) \/ CallStep(r)
  PROVE  [Abstract!Next]_(Abstract!vars)
<1>1. Placed /\ Placed' /\ Typed /\ PlaceOK(r) /\ PlaceOK(r)'
  BY DEF CodelInv, Placed
<1>2. /\ pc \in [Requests -> CallPCs] /\ result \in [Requests -> Sheds \cup {"none", "ok", "dropped"}]
      /\ Len(buf) \in Nat
  BY <1>1 DEF Typed, TypeOK
<1>3. closed' = closed /\ StopReturned' = StopReturned /\ job' = job
  BY CallWakes DEF StopReturned
<1>4. \A q \in Requests : q # r => Status(q)' = Status(q)
  BY <1>1, CallTouchesOne, StatusUntouched
<1>5. pc[r] \in {"new", "gated"} => Outside(r) /\ Status(r) = "new"
  BY <1>1, StatusIs DEF PlaceOK, Refused, InBuffer, Past, HeldBy, Inside
<1>6. CASE Enqueue(r)
  <2>1. pc[r] = "gated" /\ ~closed /\ Len(buf) < QueueCapacity
    BY <1>6 DEF Enqueue, Return, Goto
  <2>2. Status(r) = "new"
    BY <1>5, <2>1
  <2>3. Status(r)' = "queued"
    <3>1. (r \in Queued)'
      BY <1>1, <1>6, QueuedAppend
    <3>2. InBuffer(r)'
      BY <1>1, <3>1 DEF PlaceOK, Outside, Refused, Past, HeldBy
    <3>3. /\ ~(result'[r] \in Sheds) /\ outcome'[r] = "none" /\ ~OnWorker(r)' /\ ~Discarding(r)'
      BY <3>2 DEF InBuffer, Inside, OnWorker, Discarding
    <3>. QED BY <3>1, <3>3 DEF Status
  <2>4. Cardinality(Abstract!InFlight) < QueueCapacity + Cardinality(Workers)
    <3>1. Cardinality(Workers) \in Nat /\ QueueCapacity \in Nat
      BY CodelAssumption, FS_CardinalityType
    <3>. QED BY <1>2, <2>1, <3>1, InFlightBound
  <2>5. Abstract!Become(r, "new", "queued")
    BY <1>3, <1>4, <2>2, <2>3, OneMoves DEF Abstract!Become
  <2>6. Abstract!Admit(r)
    BY <2>1, <2>4, <2>5, SameCardinality DEF Abstract!Admit
  <2>. QED BY <2>6 DEF Abstract!Next
<1>7. CASE GateRefuse(r) \/ SubmitStopped(r) \/ SubmitFull(r)
  <2>1. Status(r) = "new"
    BY <1>5, <1>7 DEF GateRefuse, SubmitStopped, SubmitFull, Return, Goto
  <2>2. result'[r] \in Sheds
    BY <1>2, <1>7 DEF GateRefuse, SubmitStopped, SubmitFull, Return, Sheds
  <2>3. Refused(r)'
    BY <1>1, <2>2 DEF PlaceOK, Outside, InBuffer, Past, HeldBy, Inside, Sheds
  <2>4. Status(r)' = "shed"
    <3>1. r \in Requests => (Refused(r) => Status(r) = "shed")'
      BY <2>3 DEF Refused, Status, OnWorker, Discarding
    <3>. QED BY <2>3, <3>1
  <2>5. Abstract!Become(r, "new", "shed")
    BY <1>3, <1>4, <2>1, <2>4, OneMoves DEF Abstract!Become
  <2>. QED BY <2>5 DEF Abstract!Next, Abstract!Shed
<1>8. CASE GateAllow(r)
  <2>1. Status(r)' = Status(r)
    BY <1>2, <1>8 DEF GateAllow, Status, OnWorker, Discarding, Queued
  <2>. QED BY <1>3, <1>4, <2>1, NoneMoves
<1>9. CASE WaitDone(r)
  <2>1. UNCHANGED <<buf, job, worker, outcome>> /\ pc[r] = "waiting" /\ result'[r] \in {"ok", "dropped"}
    BY <1>2, <1>9 DEF WaitDone, Return, Goto
  <2>2. result[r] \notin Sheds /\ result'[r] \notin Sheds
    BY <1>1, <2>1 DEF PlaceOK, Outside, Refused, InBuffer, Past, HeldBy, Inside, Sheds
  <2>3. Status(r)' = Status(r)
    BY <2>1, <2>2 DEF Status, OnWorker, Discarding, Queued
  <2>. QED BY <1>3, <1>4, <2>3, NoneMoves
<1>. QED BY <1>6, <1>7, <1>8, <1>9 DEF CallStep

(* A worker starts or drops what it takes, while no more than the others   *)
(* hold something, and finishes it when it tells the gate.                 *)
LEMMA WorkerRefines ==
  ASSUME CodelInv, CodelInv', NEW w \in Workers, WorkerStep(w)
  PROVE  [Abstract!Next]_(Abstract!vars)
<1>1. Placed /\ Placed' /\ Typed
  BY DEF CodelInv
<1>2. /\ worker \in [Workers -> WorkerPCs] /\ job \in [Workers -> Requests \cup {None}]
      /\ outcome \in [Requests -> {"none", "ran", "dropped"}] /\ JobOK
  BY <1>1 DEF Typed, TypeOK
<1>3. closed' = closed /\ StopReturned' = StopReturned
  BY <1>1, WorkerAlone DEF StopReturned
<1>4. CASE DropOldest(w) \/ Serve(w)
  <2>1. PICK k \in 1 .. Len(buf) : /\ buf[k].task \in Requests /\ buf' = RemoveAt(buf, k)
                                   /\ job' = [job EXCEPT ![w] = buf[k].task]
    BY <1>1, <1>4, DequeueTakes
  <2>2. PICK h \in Requests : h = buf[k].task /\ h \in Queued
    BY <1>1, <2>1, QueuedRemove DEF Placed
  <2>3. job[w] = None /\ job'[w] = h
    BY <1>2, <1>4, <2>1, <2>2 DEF DropOldest, Serve, Step, JobOK
  <2>4. \A q \in Requests : q # h => Status(q)' = Status(q)
    BY <1>1, <2>3, WorkerTouchesOne, StatusUntouched, CodelAssumption
  <2>5. Status(h) = "queued"
    BY <1>1, <2>2, StatusOf
  <2>6. HeldBy(h, w)'
    <3>1. OnWorker(h)' /\ PlaceOK(h)'
      BY <1>1, <2>3 DEF OnWorker, Placed
    <3>2. \E v \in Workers : HeldBy(h, v)'
      BY <3>1 DEF PlaceOK, Outside, Refused, InBuffer, Past
    <3>. QED BY <2>3, <3>2 DEF HeldBy
  <2>7. /\ OnWorker(h)' /\ ~(h \in Queued)' /\ ~(result'[h] \in Sheds) /\ outcome'[h] # "dropped"
        /\ Discarding(h)' <=> worker'[w] = "discarding"
    BY <2>6 DEF HeldBy, OnWorker, Inside, Discarding
  <2>8. CASE Serve(w)
    <3>1. worker'[w] = "took"
      BY <1>2, <2>8 DEF Serve, Step
    <3>2. Status(h)' = "running"
      BY <2>7, <3>1 DEF Status
    <3>3. Cardinality(Abstract!Running) < Cardinality(Workers)
      <4>1. Holders \subseteq Workers \ {w}
        BY <2>3 DEF Holders
      <4>2. /\ IsFiniteSet(Workers \ {w}) /\ Cardinality(Workers \ {w}) = Cardinality(Workers) - 1
            /\ Cardinality(Workers) \in Nat
        BY CodelAssumption, FS_RemoveElement, FS_CardinalityType
      <4>3. Cardinality(Holders) <= Cardinality(Workers) - 1
        BY <4>1, <4>2, FS_Subset
      <4>. QED BY <4>2, <4>3, InFlightBound
    <3>4. Abstract!Become(h, "queued", "running")
      BY <1>3, <2>4, <2>5, <3>2, OneMoves DEF Abstract!Become
    <3>. QED BY <3>3, <3>4, SameCardinality DEF Abstract!Next, Abstract!Start
  <2>9. CASE DropOldest(w)
    <3>1. worker'[w] = "discarding"
      BY <1>2, <2>9 DEF DropOldest, Step
    <3>2. Status(h)' = "dropped"
      BY <2>7, <3>1 DEF Status
    <3>3. Abstract!Become(h, "queued", "dropped")
      BY <1>3, <2>4, <2>5, <3>2, OneMoves DEF Abstract!Become
    <3>. QED BY <3>3 DEF Abstract!Next, Abstract!Drop
  <2>. QED BY <1>4, <2>8, <2>9
<1>5. CASE Discard(w) \/ Settle(w)
  <2>1. PICK r \in Requests : r = job[w]
    BY <1>2, <1>5 DEF Discard, Settle, Step, JobOK
  <2>2. job' = [job EXCEPT ![w] = None] /\ buf' = buf
    BY <1>5 DEF Discard, Settle
  <2>3. \A q \in Requests : q # r => Status(q)' = Status(q)
    BY <1>1, <1>2, <2>1, <2>2, WorkerTouchesOne, StatusUntouched, CodelAssumption
  <2>4. HeldBy(r, w)
    <3>1. PlaceOK(r) /\ OnWorker(r)
      BY <1>1, <2>1 DEF Placed, OnWorker
    <3>2. PICK v \in Workers : HeldBy(r, v)
      BY <3>1 DEF PlaceOK, Outside, Refused, InBuffer, Past
    <3>. QED BY <2>1, <3>2 DEF HeldBy
  <2>5. /\ ~OnWorker(r)' /\ ~Discarding(r)' /\ ~(r \in Queued)' /\ ~(result'[r] \in Sheds)
    <3>1. ~OnWorker(r)'
      BY <1>2, <2>1, <2>2, <2>4, CodelAssumption DEF HeldBy, OnWorker
    <3>2. result' = result
      BY <1>1, WorkerAlone DEF callVars
    <3>. QED BY <2>2, <2>4, <3>1, <3>2 DEF HeldBy, Inside, OnWorker, Discarding, Queued
  <2>6. CASE Settle(w)
    <3>1. worker[w] = "ended" /\ outcome'[r] = "ran"
      BY <2>4, <2>6 DEF Settle, Step, HeldBy
    <3>2. Status(r) = "running"
      BY <2>4, <3>1, StatusIs
    <3>3. Status(r)' = "done"
      BY <2>5, <3>1 DEF Status
    <3>4. Abstract!Become(r, "running", "done")
      BY <1>3, <2>3, <3>2, <3>3, OneMoves DEF Abstract!Become
    <3>. QED BY <3>4 DEF Abstract!Next, Abstract!Finish
  <2>7. CASE Discard(w)
    <3>1. worker[w] = "discarding" /\ outcome'[r] = "dropped"
      BY <1>2, <2>1, <2>7 DEF Discard, Step
    <3>2. Status(r) = "dropped"
      BY <2>4, <3>1, StatusIs
    <3>3. Status(r)' = "dropped"
      BY <2>5, <3>1 DEF Status
    <3>. QED BY <1>3, <2>3, <3>2, <3>3, NoneMoves
  <2>. QED BY <1>5, <2>6, <2>7
<1>6. CASE Start(w) \/ BodyEnd(w)
  <2>1. PICK r \in Requests : r = job[w]
    BY <1>2, <1>6 DEF Start, BodyEnd, Step, JobOK
  <2>2. job' = job /\ buf' = buf /\ \A q \in Requests : q # r => Status(q)' = Status(q)
    <3>1. job' = job /\ buf' = buf
      BY <1>6 DEF Start, BodyEnd
    <3>. QED BY <1>1, <1>2, <2>1, <3>1, WorkerTouchesOne, StatusUntouched
  <2>3. HeldBy(r, w)
    <3>1. PlaceOK(r) /\ OnWorker(r)
      BY <1>1, <2>1 DEF Placed, OnWorker
    <3>2. PICK v \in Workers : HeldBy(r, v)
      BY <3>1 DEF PlaceOK, Outside, Refused, InBuffer, Past
    <3>. QED BY <2>1, <3>2 DEF HeldBy
  <2>4. Status(r) = "running"
    BY <1>6, <2>3, StatusIs DEF Start, BodyEnd, Step
  <2>5. /\ OnWorker(r)' /\ ~Discarding(r)' /\ ~(r \in Queued)' /\ ~(result'[r] \in Sheds)
        /\ outcome'[r] # "dropped"
    <3>1. worker'[w] # "discarding" /\ result' = result /\ outcome'[r] # "dropped"
      BY <1>2, <1>6, <2>1, <2>3 DEF Start, BodyEnd, Step, HeldBy, callVars
    <3>. QED BY <2>1, <2>2, <2>3, <3>1 DEF HeldBy, Inside, OnWorker, Discarding, Queued
  <2>6. Status(r)' = "running"
    BY <2>5 DEF Status
  <2>. QED BY <1>3, <2>2, <2>4, <2>6, NoneMoves
<1>7. CASE Park(w) \/ Exit(w)
  <2>1. job[w] = None /\ job' = job
    BY <1>2, <1>7 DEF Park, Exit, Step, JobOK
  <2>2. \A q \in Requests : Status(q)' = Status(q)
    BY <1>1, <2>1, WorkerTouchesOne, StatusUntouched, CodelAssumption
  <2>. QED BY <1>3, <2>2, NoneMoves
<1>. QED BY <1>4, <1>5, <1>6, <1>7 DEF WorkerStep

(* The pool closes once, and when a call of Stop returns nothing is in     *)
(* flight.                                                                 *)
LEMMA StopRefines ==
  ASSUME CodelInv, CodelInv', NEW s \in Stoppers, StopClose(s) \/ StopJoin(s) \/ StopStep(s)
  PROVE  [Abstract!Next]_(Abstract!vars)
<1>1. /\ UNCHANGED <<buf, callVars, job, outcome, verdicts>>
      /\ \A w \in Workers : worker[w] # "parked" => worker'[w] = worker[w]
  BY DEF StopClose, StopJoin, StopStep, StopReturn, StopJoined, Parked, CodelInv, Typed, TypeOK
<1>2. stop \in [Stoppers -> StopPCs] /\ Typed /\ Placed /\ Placed' /\ StopInv
  BY DEF CodelInv, Typed, TypeOK
<1>3. \A q \in Requests : Status(q)' = Status(q)
  <2>. TAKE q \in Requests
  <2>1. \A w \in Workers : job[w] = q => worker[w] # "parked"
    BY <1>2, CodelAssumption DEF Typed, JobOK
  <2>2. Queued' = Queued
    BY <1>1 DEF Queued
  <2>3. Untouched(q)
    BY <1>1, <2>1, <2>2 DEF Untouched, callVars
  <2>. QED BY <1>2, <2>3, StatusUntouched
<1>4. [q \in Requests |-> Status(q)]' = [q \in Requests |-> Status(q)]
  BY <1>3
<1>5. CASE StopClose(s)
  <2>1. ~closed /\ closed' = TRUE /\ StopReturned' = StopReturned
    <3>1. ~OnceTaken /\ closed' = TRUE /\ stop' = [stop EXCEPT ![s] = "draining"]
      BY <1>5 DEF StopClose, StopGoto
    <3>2. \A t \in Stoppers : stop[t] # "returned" /\ stop'[t] # "returned"
      BY <1>2, <3>1 DEF OnceTaken
    <3>. QED BY <1>2, <3>1, <3>2 DEF StopInv, StopReturned
  <2>2. Abstract!Close
    BY <1>4, <2>1 DEF Abstract!Close
  <2>. QED BY <2>2 DEF Abstract!Next
<1>6. CASE StopReturn(s)
  <2>1. /\ \A w \in Workers : worker[w] = "exited" /\ job[w] = None
        /\ closed' = closed /\ closed /\ buf = <<>>
    BY <1>2, <1>6, CodelAssumption DEF StopReturn, StopGoto, Typed, JobOK, StopInv
  <2>2. Abstract!InFlight = {}
    <3>1. Queued = {} /\ \A r \in Requests : ~OnWorker(r)
      BY <2>1, CodelAssumption DEF Queued, OnWorker
    <3>2. \A r \in Requests : Status(r) \notin {"queued", "running"}
      BY <1>2, <3>1, StatusOf
    <3>. QED BY <3>2 DEF Abstract!InFlight
  <2>3. StopReturned'
    BY <1>2, <1>6 DEF StopReturn, StopGoto, StopReturned
  <2>4. Abstract!StopReturn
    BY <1>4, <2>1, <2>2, <2>3 DEF Abstract!StopReturn
  <2>. QED BY <2>4 DEF Abstract!Next
<1>7. CASE StopJoin(s) \/ StopJoined(s)
  <2>1. closed' = closed /\ StopReturned' = StopReturned
    BY <1>2, <1>7 DEF StopJoin, StopJoined, StopGoto, StopReturned
  <2>. QED BY <1>3, <2>1, NoneMoves
<1>. QED BY <1>5, <1>6, <1>7 DEF StopStep

(* The pool implements the shedding queue: every execution of the pool, as *)
(* its callers see it, is one of the abstract queue with a budget of       *)
(* QueueCapacity plus Workers, Workers tasks at a time, and drops.         *)
THEOREM CodelRefinesQueue == Spec => ImplementsSheddingQueue
<1>1. Init => Abstract!Init
  <2>. SUFFICES ASSUME Init PROVE Abstract!Init
    OBVIOUS
  <2>1. Queued = {} /\ DOMAIN <<>> = {}
    BY DEF Init, Queued
  <2>2. ASSUME NEW r \in Requests PROVE Status(r) = "new"
    <3>1. Outside(r)
      BY <2>1, CodelAssumption DEF Init, Outside, OnWorker
    <3>. QED BY <3>1, StatusIs
  <2>3. ~StopReturned
    BY DEF Init, StopReturned
  <2>. QED BY <2>2, <2>3 DEF Init, Abstract!Init
<1>2. CodelInv /\ CodelInv' /\ [Next]_vars => [Abstract!Next]_(Abstract!vars)
  <2>. SUFFICES ASSUME CodelInv, CodelInv', [Next]_vars PROVE [Abstract!Next]_(Abstract!vars)
    OBVIOUS
  <2>1. CASE UNCHANGED vars \/ Tick
    <3>1. \A q \in Requests : Status(q)' = Status(q)
      BY <2>1 DEF vars, Tick, callVars, Status, Queued, OnWorker, Discarding
    <3>2. closed' = closed /\ StopReturned' = StopReturned
      BY <2>1 DEF vars, Tick, StopReturned
    <3>. QED BY <3>1, <3>2, NoneMoves
  <2>. QED BY <2>1, CallRefines, WorkerRefines, StopRefines DEF Next, Rest
<1>. QED BY <1>1, <1>2, CodelInvariant, PTL DEF Spec, Abstract!Spec, ImplementsSheddingQueue
=============================================================================
