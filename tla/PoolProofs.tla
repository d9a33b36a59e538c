----------------------------- MODULE PoolProofs -----------------------------
(***************************************************************************)
(* Proofs about Pool for every number of calls, workers and queue slots.   *)
(***************************************************************************)
EXTENDS Pool, TLAPS, FiniteSetTheorems, SequenceTheorems

(* What sends and receives do to the set of queued tasks.                  *)

(* A task sent to the channel joins what is queued.                        *)
LEMMA RangeAppend ==
  ASSUME NEW S, NEW s \in Seq(S), NEW x \in S
  PROVE  /\ Range(Append(s, x)) = Range(s) \cup {x}
         /\ IsInjective(s) /\ x \notin Range(s) => IsInjective(Append(s, x))
<1>. DEFINE t == Append(s, x)
<1>1. /\ DOMAIN s = 1 .. Len(s) /\ DOMAIN t = 1 .. Len(s) + 1 /\ Len(s) \in Nat
      /\ \A i \in 1 .. Len(s) : t[i] = s[i]
      /\ t[Len(s) + 1] = x
  OBVIOUS
<1>2. Range(t) = Range(s) \cup {x}
  <2>1. ASSUME NEW y \in Range(t) PROVE y \in Range(s) \cup {x}
    <3>1. PICK i \in 1 .. Len(s) + 1 : y = t[i]
      BY <1>1, <2>1 DEF Range
    <3>2. CASE i = Len(s) + 1 
      BY <1>1, <3>1, <3>2
    <3>3. CASE i \in 1 .. Len(s)
      BY <1>1, <3>1, <3>3 DEF Range
    <3>. QED BY <1>1, <3>1, <3>2, <3>3
  <2>2. ASSUME NEW y \in Range(s) \cup {x} PROVE y \in Range(t)
    <3>1. CASE y = x 
      BY <1>1, <3>1 DEF Range
    <3>2. ASSUME NEW i \in 1 .. Len(s), y = s[i] PROVE y \in Range(t)
      <4>1. i \in DOMAIN t /\ y = t[i]
        BY <1>1, <3>2
      <4>. QED BY <4>1 DEF Range
    <3>. QED BY <1>1, <2>2, <3>1, <3>2 DEF Range
  <2>. QED BY <2>1, <2>2
<1>3. ASSUME IsInjective(s), x \notin Range(s) PROVE IsInjective(t)
  <2>. SUFFICES ASSUME NEW i \in 1 .. Len(s) + 1, NEW j \in 1 .. Len(s) + 1, t[i] = t[j] PROVE i = j
    BY <1>1 DEF IsInjective
  <2>1. \A k \in 1 .. Len(s) : t[k] # x
    BY <1>1, <1>3 DEF Range
  <2>2. \A k, l \in 1 .. Len(s) : t[k] = t[l] => k = l
    BY <1>1, <1>3 DEF IsInjective
  <2>. QED BY <1>1, <2>1, <2>2
<1>. HIDE DEF t
<1>. QED BY <1>2, <1>3 DEF t

(* A worker that receives takes the head, and only that, out of the queue. *)
LEMMA RangeTail ==
  ASSUME NEW S, NEW s \in Seq(S), s # <<>>, IsInjective(s)
  PROVE  /\ Head(s) \in Range(s) 
         /\ Range(Tail(s)) = Range(s) \ {Head(s)}
         /\ IsInjective(Tail(s))
<1>. DEFINE t == Tail(s)
<1>1. /\ DOMAIN s = 1 .. Len(s) /\ Len(s) \in Nat \ {0} /\ DOMAIN t = 1 .. Len(s) - 1
      /\ \A i \in 1 .. Len(s) - 1 : t[i] = s[i + 1]
      /\ Head(s) = s[1]
  OBVIOUS
<1>2. \A i, j \in 1 .. Len(s) : s[i] = s[j] => i = j
  BY <1>1 DEF IsInjective
<1>3. Head(s) \in Range(s)
  BY <1>1 DEF Range
<1>4. IsInjective(t)
  BY <1>1, <1>2 DEF IsInjective
<1>5. ASSUME NEW y \in Range(t) PROVE y \in Range(s) \ {Head(s)}
  <2>1. PICK i \in 1 .. Len(s) - 1 : y = t[i]
    BY <1>1, <1>5 DEF Range
  <2>2. i + 1 \in DOMAIN s /\ y = s[i + 1] /\ y # s[1]
    BY <1>1, <1>2, <2>1
  <2>. QED BY <1>1, <2>2 DEF Range
<1>6. ASSUME NEW y \in Range(s), y # Head(s) PROVE y \in Range(t)
  <2>1. PICK i \in 1 .. Len(s) : y = s[i]
    BY <1>1, <1>6 DEF Range
  <2>2. i - 1 \in DOMAIN t /\ t[i - 1] = y
    BY <1>1, <1>6, <2>1
  <2>. QED BY <2>2 DEF Range
<1>. HIDE DEF t
<1>. QED BY <1>3, <1>4, <1>5, <1>6 DEF t

(* A queue has at most as many elements as places.                         *)
LEMMA RangeCardinality ==
  ASSUME NEW S, NEW s \in Seq(S)
  PROVE  IsFiniteSet(Range(s)) /\ Cardinality(Range(s)) <= Len(s)
<1>1. DOMAIN s = 1 .. Len(s) /\ Len(s) \in Nat /\ s \in [1 .. Len(s) -> Range(s)]
  BY DEF Range
<1>2. s \in Surjection(1 .. Len(s), Range(s))
  BY <1>1 DEF Surjection, Range
<1>3. IsFiniteSet(1 .. Len(s)) /\ Cardinality(1 .. Len(s)) = Len(s)
  BY <1>1, FS_Interval
<1>. QED BY <1>2, <1>3, FS_Surjection

-----------------------------------------------------------------------------
(* The part of the invariant that only speaks of where values lie.         *)
Typed == TypeOK /\ JobOK

(* The budget is a positive number.                                        *)
LEMMA CapacityType == Capacity \in Nat /\ Capacity >= 1
<1>1. Cardinality(Workers) \in Nat /\ Cardinality(Workers) # 0
  BY PoolAssumption, FS_CardinalityType, FS_EmptySet
<1>. QED BY <1>1, PoolAssumption DEF Capacity

(* The initial state is well typed.                                        *)
LEMMA InitTyped == Init => Typed
<1>. SUFFICES ASSUME Init PROVE Typed
  OBVIOUS
<1>1. sem \in 0 .. Capacity
  BY CapacityType DEF Init
<1>2. tasks \in Seq(Requests) /\ verdicts \in [Requests -> Seq(BOOLEAN)]
  BY DEF Init
<1>3. pc \in [Requests -> CallPCs] /\ worker \in [Workers -> WorkerPCs] /\ stop \in [Stoppers -> StopPCs]
  BY DEF Init, CallPCs, WorkerPCs, StopPCs
<1>4. TypeOK
  <2>1. result \in [Requests -> Sheds \cup {"none", "ok"}] /\ job \in [Workers -> Requests \cup {None}]
    BY DEF Init
  <2>2. ended \subseteq Requests /\ late \subseteq Requests
    BY DEF Init
  <2>3. active \in Int /\ accepted \in Nat /\ rejected \in Nat
    BY DEF Init
  <2>4. closed \in BOOLEAN
    BY DEF Init
  <2>. QED BY <1>1, <1>2, <1>3, <2>1, <2>2, <2>3, <2>4 DEF TypeOK
<1>5. JobOK
  BY DEF Init, JobOK
<1>. QED BY <1>4, <1>5 DEF Typed

(* Every step of a call keeps the state well typed.                        *)
LEMMA CallTyped ==
  ASSUME Typed, NEW r \in Requests, GateAllow(r) \/ GateRefuse(r) \/ CallStep(r)
  PROVE  Typed'
<1>. USE CapacityType, PoolAssumption
<1>. USE DEF Typed, TypeOK, JobOK, callVars, workVars, CallPCs, WorkerPCs, StopPCs, Sheds,
             Goto, Return, Settled, NoteLate
<1>1. CASE GateAllow(r)    BY <1>1 DEF GateAllow
<1>2. CASE GateRefuse(r)   BY <1>2 DEF GateRefuse
<1>3. CASE AcquireToken(r) BY <1>3 DEF AcquireToken
<1>4. CASE AcquireFail(r)  BY <1>4 DEF AcquireFail
<1>5. CASE RLockOpen(r)    BY <1>5 DEF RLockOpen
<1>6. CASE RLockClosed(r)  BY <1>6 DEF RLockClosed
<1>7. CASE Send(r)         BY <1>7 DEF Send
<1>8. CASE Accept(r)
  <2>1. CASE Return(r, "sent", "ok")  BY <1>8, <2>1 DEF Accept
  <2>2. CASE Goto(r, "sent", "waiting") /\ UNCHANGED result  BY <1>8, <2>2 DEF Accept
  <2>. QED BY <1>8, <2>1, <2>2 DEF Accept
<1>9. CASE WaitDone(r)     BY <1>9 DEF WaitDone
<1>. QED BY <1>1, <1>2, <1>3, <1>4, <1>5, <1>6, <1>7, <1>8, <1>9 DEF CallStep

(* Every step of a worker keeps the state well typed.                      *)
LEMMA WorkerTyped ==
  ASSUME Typed, NEW w \in Workers, WorkerStep(w)
  PROVE  Typed'
<1>. USE CapacityType, PoolAssumption
<1>. USE DEF Typed, TypeOK, JobOK, callVars, CallPCs, WorkerPCs, StopPCs, Sheds,
             Step, Settled
<1>1. CASE Receive(w) BY <1>1 DEF Receive
<1>2. CASE Start(w)   BY <1>2 DEF Start
<1>3. CASE BodyEnd(w) BY <1>3 DEF BodyEnd
<1>4. CASE Settle(w)  BY <1>4 DEF Settle
<1>5. CASE Release(w) BY <1>5 DEF Release
<1>6. CASE Exit(w)    BY <1>6 DEF Exit
<1>. QED BY <1>1, <1>2, <1>3, <1>4, <1>5, <1>6 DEF WorkerStep

(* Every step of a caller of Stop keeps the state well typed.              *)
LEMMA StopTyped ==
  ASSUME Typed, NEW s \in Stoppers, StopBegin(s) \/ StopJoin(s) \/ StopStep(s)
  PROVE  Typed'
BY DEF Typed, TypeOK, JobOK, callVars, workVars, CallPCs, WorkerPCs, StopPCs, Sheds,
       StopBegin, StopJoin, StopStep, StopClose, StopReturn, StopJoined, StopGoto

(* Type correctness: every variable keeps its type, and a worker holds a   *)
(* task exactly while it is busy.                                          *)
THEOREM TypeCorrect == Spec => [](TypeOK /\ JobOK)
<1>1. Init => Typed
  BY InitTyped
<1>2. Typed /\ [Next]_vars => Typed'
  <2>. SUFFICES ASSUME Typed, [Next]_vars PROVE Typed'
    OBVIOUS
  <2>1. CASE UNCHANGED vars
    BY <2>1 DEF vars, Typed, TypeOK, JobOK
  <2>2. CASE Rest
    BY <2>2 DEF Rest, vars, Typed, TypeOK, JobOK
  <2>3. CASE Next /\ ~Rest
    BY <2>3, CallTyped, WorkerTyped, StopTyped DEF Next
  <2>. QED BY <2>1, <2>2, <2>3
<1>3. Typed => TypeOK /\ JobOK
  BY DEF Typed
<1>. QED BY <1>1, <1>2, <1>3, PTL DEF Spec

-----------------------------------------------------------------------------
(* The accounting of the semaphore's tokens.                               *)

(* The counted sets are finite, so that their cardinalities are numbers.   *)
LEMMA CountsAreNumbers ==
  /\ IsFiniteSet(Carriers) /\ Cardinality(Carriers) \in Nat
  /\ IsFiniteSet(Jobs) /\ Cardinality(Jobs) \in Nat
<1>1. Carriers \subseteq Requests /\ Jobs \subseteq Workers
  BY DEF Carriers, Jobs
<1>2. IsFiniteSet(Carriers) /\ IsFiniteSet(Jobs)
  BY <1>1, PoolAssumption, FS_Subset
<1>. QED BY <1>2, FS_CardinalityType

(* A step of a call moves its token with its program counter: the token is *)
(* taken, carried on, handed to the channel with the task, or given back.  *)
LEMMA CallAccounting ==
  ASSUME Typed, TokenAccounting, NEW r \in Requests,
         GateAllow(r) \/ GateRefuse(r) \/ CallStep(r)
  PROVE  TokenAccounting'
<1>. USE CountsAreNumbers, CapacityType
<1>. USE DEF Typed, TypeOK, TokenAccounting
<1>1. Jobs' = Jobs
  BY DEF Jobs, workVars, GateAllow, GateRefuse, CallStep, AcquireToken, AcquireFail, RLockOpen,
         RLockClosed, Send, Accept, WaitDone
<1>2. CASE AcquireToken(r)
  <2>1. Carriers' = Carriers \cup {r} /\ r \notin Carriers
    BY <1>2 DEF AcquireToken, Goto, Carriers, CallPCs
  <2>2. Cardinality(Carriers') = Cardinality(Carriers) + 1
    BY <2>1, FS_AddElement
  <2>. QED BY <1>1, <1>2, <2>2 DEF AcquireToken
<1>3. CASE Send(r)
  <2>1. Carriers' = Carriers \ {r} /\ r \in Carriers
    BY <1>3 DEF Send, Goto, Carriers, CallPCs
  <2>2. Cardinality(Carriers') = Cardinality(Carriers) - 1
    BY <2>1, FS_RemoveElement
  <2>3. Len(tasks') = Len(tasks) + 1
    BY <1>3 DEF Send
  <2>. QED BY <1>1, <1>3, <2>2, <2>3 DEF Send
<1>4. CASE RLockClosed(r)
  <2>1. Carriers' = Carriers \ {r} /\ r \in Carriers
    BY <1>4 DEF RLockClosed, Return, Goto, Carriers, CallPCs
  <2>2. Cardinality(Carriers') = Cardinality(Carriers) - 1
    BY <2>1, FS_RemoveElement
  <2>. QED BY <1>1, <1>4, <2>2 DEF RLockClosed
<1>5. CASE RLockOpen(r)
  <2>1. Carriers' = Carriers
    BY <1>5 DEF RLockOpen, Goto, Carriers, CallPCs
  <2>. QED BY <1>1, <1>5, <2>1 DEF RLockOpen
<1>6. CASE GateAllow(r) \/ GateRefuse(r) \/ AcquireFail(r) \/ Accept(r) \/ WaitDone(r)
  <2>1. Carriers' = Carriers
    BY <1>6 DEF GateAllow, GateRefuse, AcquireFail, Accept, WaitDone, Return, Goto, Carriers, CallPCs
  <2>2. tasks' = tasks /\ sem' = sem
    BY <1>6 DEF GateAllow, GateRefuse, AcquireFail, Accept, WaitDone
  <2>. QED BY <1>1, <2>1, <2>2
<1>. QED BY <1>2, <1>3, <1>4, <1>5, <1>6 DEF CallStep

(* A worker takes the token over with the task and gives it back last.     *)
LEMMA WorkerAccounting ==
  ASSUME Typed, TokenAccounting, NEW w \in Workers, WorkerStep(w)
  PROVE  TokenAccounting'
<1>. USE CountsAreNumbers, CapacityType
<1>. USE DEF Typed, TypeOK, TokenAccounting
<1>1. Carriers' = Carriers
  BY DEF Carriers, callVars, WorkerStep, Receive, Start, BodyEnd, Settle, Release, Exit
<1>2. CASE Receive(w)
  <2>1. job[w] = None
    BY <1>2 DEF Receive, Step, JobOK
  <2>2. tasks \in Seq(Requests) /\ tasks # <<>>
    BY <1>2 DEF Receive
  <2>3. Head(tasks) \in Requests
    BY <2>2
  <2>4. Jobs' = Jobs \cup {w} /\ w \notin Jobs
    BY <1>2, <2>1, <2>3, PoolAssumption DEF Receive, Jobs
  <2>5. Cardinality(Jobs') = Cardinality(Jobs) + 1
    BY <2>4, FS_AddElement
  <2>6. tasks' = Tail(tasks)
    BY <1>2 DEF Receive
  <2>7. Len(tasks') = Len(tasks) - 1 /\ Len(tasks) \in Nat
    BY <2>2, <2>6
  <2>. QED BY <1>1, <1>2, <2>5, <2>7 DEF Receive
<1>3. CASE Release(w)
  <2>1. job[w] # None
    BY <1>3 DEF Release, Step, JobOK
  <2>2. Jobs' = Jobs \ {w} /\ w \in Jobs
    BY <1>3, <2>1 DEF Release, Jobs
  <2>3. Cardinality(Jobs') = Cardinality(Jobs) - 1
    BY <2>2, FS_RemoveElement
  <2>. QED BY <1>1, <1>3, <2>3 DEF Release
<1>4. CASE Start(w) \/ BodyEnd(w) \/ Settle(w) \/ Exit(w)
  <2>1. tasks' = tasks /\ sem' = sem /\ job' = job
    BY <1>4 DEF Start, BodyEnd, Settle, Exit
  <2>2. Jobs' = Jobs
    BY <2>1 DEF Jobs
  <2>. QED BY <1>1, <2>1, <2>2
<1>. QED BY <1>2, <1>3, <1>4 DEF WorkerStep

(* Stop touches no token; nor does a step that changes nothing.            *)
LEMMA OtherAccounting ==
  ASSUME TokenAccounting, UNCHANGED <<callVars, tasks, sem, workVars>>
  PROVE  TokenAccounting'
BY DEF TokenAccounting, Carriers, Jobs, callVars, workVars

(* A call in the read-locked section keeps the writer out of Stop's, so    *)
(* the channel is open when it sends.                                      *)
LEMMA NoSendStep ==
  ASSUME Typed, NoSendOnClosed, [Next]_vars
  PROVE  NoSendOnClosed'
<1>. USE DEF Typed, TypeOK, NoSendOnClosed
<1>1. ASSUME NEW r \in Requests, GateAllow(r) \/ GateRefuse(r) \/ CallStep(r)
      PROVE  NoSendOnClosed'
  <2>1. closed' = closed
    BY <1>1 DEF GateAllow, GateRefuse, CallStep, AcquireToken, AcquireFail, RLockOpen,
         RLockClosed, Send, Accept, WaitDone
  <2>2. ASSUME NEW q \in Requests, pc'[q] = "sending" PROVE pc[q] = "sending" \/ ~closed
    <3>1. CASE RLockOpen(r)
      BY <3>1 DEF RLockOpen
    <3>2. CASE ~RLockOpen(r)
      BY <1>1, <2>2, <3>2 DEF GateAllow, GateRefuse, CallStep, AcquireToken, AcquireFail,
         RLockClosed, Send, Accept, WaitDone, Goto, Return
    <3>. QED BY <3>1, <3>2
  <2>. QED BY <2>1, <2>2
<1>2. ASSUME NEW w \in Workers, WorkerStep(w) PROVE NoSendOnClosed'
  BY <1>2 DEF WorkerStep, Receive, Start, BodyEnd, Settle, Release, Exit, callVars
<1>3. ASSUME NEW s \in Stoppers, StopBegin(s) \/ StopJoin(s) \/ StopStep(s)
      PROVE  NoSendOnClosed'
  BY <1>3 DEF StopBegin, StopJoin, StopStep, StopClose, StopReturn, StopJoined, Readers, callVars
<1>4. CASE UNCHANGED vars
  BY <1>4 DEF vars
<1>. QED BY <1>1, <1>2, <1>3, <1>4 DEF Next, Rest

(* The inductive invariant behind the safety of the channel operations.    *)
ChannelInv == Typed /\ TokenAccounting /\ NoSendOnClosed

(* What the accounting gives: room for a sender, a token for a releaser.   *)
LEMMA AccountingGives ==
  ASSUME ChannelInv
  PROVE  SendNeverBlocks /\ ReleaseNeverBlocks
<1>. USE CountsAreNumbers, CapacityType DEF ChannelInv, Typed, TypeOK, TokenAccounting
<1>1. ASSUME Carriers # {} PROVE Cardinality(Carriers) >= 1
  BY <1>1, FS_EmptySet
<1>2. ASSUME Jobs # {} PROVE Cardinality(Jobs) >= 1
  BY <1>2, FS_EmptySet
<1>3. SendNeverBlocks
  <2>. SUFFICES ASSUME NEW r \in Requests, pc[r] = "sending" PROVE Len(tasks) < Capacity
    BY DEF SendNeverBlocks
  <2>1. Carriers # {}
    BY DEF Carriers
  <2>. QED BY <1>1, <2>1
<1>4. ReleaseNeverBlocks
  <2>. SUFFICES ASSUME Jobs # {} \/ Carriers # {} PROVE sem > 0
    BY DEF ReleaseNeverBlocks, Jobs
  <2>. QED BY <1>1, <1>2
<1>. QED BY <1>3, <1>4

(* Every step preserves the channel invariant.                             *)
LEMMA ChannelStep == ChannelInv /\ [Next]_vars => ChannelInv'
<1>. SUFFICES ASSUME ChannelInv, [Next]_vars PROVE ChannelInv'
  OBVIOUS
<1>1. CASE UNCHANGED vars
  BY <1>1, OtherAccounting, NoSendStep
     DEF vars, ChannelInv, callVars, workVars, Typed, TypeOK, JobOK
<1>2. ASSUME NEW r \in Requests, GateAllow(r) \/ GateRefuse(r) \/ CallStep(r)
      PROVE  ChannelInv'
  BY <1>2, CallTyped, CallAccounting, NoSendStep DEF ChannelInv
<1>3. ASSUME NEW w \in Workers, WorkerStep(w)
      PROVE  ChannelInv'
  BY <1>3, WorkerTyped, WorkerAccounting, NoSendStep DEF ChannelInv
<1>4. ASSUME NEW s \in Stoppers, StopBegin(s) \/ StopJoin(s) \/ StopStep(s)
      PROVE  ChannelInv'
  <2>1. UNCHANGED <<callVars, tasks, sem, workVars>>
    BY <1>4 DEF StopBegin, StopJoin, StopStep, StopClose, StopReturn, StopJoined
  <2>. QED BY <1>4, <2>1, StopTyped, OtherAccounting, NoSendStep DEF ChannelInv
<1>. QED BY <1>1, <1>2, <1>3, <1>4 DEF Next, Rest

(* The channel invariant holds in every reachable state.                   *)
LEMMA ChannelInvariant == Spec => []ChannelInv
<1>1. Init => ChannelInv
  <2>. SUFFICES ASSUME Init PROVE ChannelInv
    OBVIOUS
  <2>1. Carriers = {} /\ Jobs = {}
    BY DEF Init, Carriers, Jobs
  <2>2. TokenAccounting
    BY <2>1, FS_EmptySet DEF Init, TokenAccounting
  <2>3. NoSendOnClosed
    BY DEF Init, NoSendOnClosed
  <2>. QED BY InitTyped, <2>2, <2>3 DEF ChannelInv
<1>. QED BY <1>1, ChannelStep, PTL DEF Spec

(* The semaphore counts exactly the tokens that calls, the channel and the *)
(* workers hold.                                                           *)
THEOREM TokensAccounted == Spec => []TokenAccounting
BY ChannelInvariant, PTL DEF ChannelInv

(* A send never waits for room and never meets the closed channel, and a   *)
(* release never waits for a token: no goroutine blocks while it holds the *)
(* read lock or a slot.                                                    *)
THEOREM ChannelSafe == Spec => []ChannelSafety
<1>1. ChannelInv => ChannelSafety
  BY AccountingGives DEF ChannelInv, ChannelSafety
<1>. QED BY <1>1, ChannelInvariant, PTL
-----------------------------------------------------------------------------
(* Where a request can be.                                                 *)

(* It has not entered the channel.                                         *)
Outside(r) ==
  /\ pc[r] \in {"new", "acquire", "token", "sending"} /\ result[r] = "none"
  /\ verdicts[r] = <<>> /\ r \notin ended /\ r \notin Queued /\ ~OnWorker(r)

(* It was answered with an error.                                          *)
Refused(r) ==
  /\ pc[r] = "returned" /\ result[r] \in Sheds
  /\ verdicts[r] = IF result[r] = "overloaded" THEN <<>> ELSE <<FALSE>>
  /\ r \notin ended /\ r \notin Queued /\ ~OnWorker(r)

Inside(r) == pc[r] \in {"sent", "waiting", "returned"} /\ result[r] \notin Sheds

InChannel(r) ==
  /\ Inside(r)
  /\ verdicts[r] = <<>> /\ r \notin ended /\ r \in Queued /\ ~OnWorker(r)

(* A worker holds it, and no other does.                                   *)
HeldBy(r, w) ==
  /\ Inside(r) /\ r \notin Queued
  /\ \A v \in Workers : job[v] = r <=> v = w
  /\ r \in ended <=> worker[w] \in {"ended", "settled"}
  /\ IF worker[w] = "settled" THEN Len(verdicts[r]) = 1 ELSE verdicts[r] = <<>>

Past(r) ==
  /\ Inside(r)
  /\ Len(verdicts[r]) = 1 /\ r \in ended /\ r \notin Queued /\ ~OnWorker(r)

PlaceOK(r) ==
  \/ Outside(r) \/ Refused(r) \/ InChannel(r) \/ Past(r)
  \/ \E w \in Workers : HeldBy(r, w)

Placed == IsInjective(tasks) /\ \A r \in Requests : PlaceOK(r)

(* Nothing that says where q is has changed.                               *)
Untouched(q) ==
  /\ pc'[q] = pc[q] /\ result'[q] = result[q] /\ verdicts'[q] = verdicts[q]
  /\ q \in ended' <=> q \in ended
  /\ q \in Queued' <=> q \in Queued
  /\ \A w \in Workers : job'[w] = q <=> job[w] = q
  /\ \A w \in Workers : job[w] = q => worker'[w] = worker[w]

(* A request that nothing moved stays where it was.                       *)
LEMMA UntouchedStays ==
  ASSUME NEW q \in Requests, PlaceOK(q), Untouched(q)
  PROVE  PlaceOK(q)'
<1>. USE DEF Untouched, Inside, OnWorker
<1>1. CASE Outside(q)   BY <1>1 DEF Outside, PlaceOK
<1>2. CASE Refused(q)   BY <1>2 DEF Refused, PlaceOK
<1>3. CASE InChannel(q) BY <1>3 DEF InChannel, PlaceOK
<1>4. CASE Past(q)      BY <1>4 DEF Past, PlaceOK
<1>5. ASSUME NEW w \in Workers, HeldBy(q, w) PROVE PlaceOK(q)'
  <2>1. HeldBy(q, w)'
    BY <1>5 DEF HeldBy
  <2>. QED BY <2>1 DEF PlaceOK
<1>. QED BY <1>1, <1>2, <1>3, <1>4, <1>5 DEF PlaceOK

(* A call moves only its own request.                                      *)
LEMMA CallTouchesOne ==
  ASSUME Typed, Placed, NEW r \in Requests, GateAllow(r) \/ GateRefuse(r) \/ CallStep(r),
         NEW q \in Requests, q # r
  PROVE  Untouched(q)
<1>. USE DEF Goto, Return, Settled
<1>1. pc \in [Requests -> CallPCs] /\ result \in [Requests -> Sheds \cup {"none", "ok"}]
      /\ verdicts \in [Requests -> Seq(BOOLEAN)] /\ tasks \in Seq(Requests)
  BY DEF Typed, TypeOK
<1>2. job' = job /\ worker' = worker /\ ended' = ended
  BY DEF workVars, GateAllow, GateRefuse, CallStep, AcquireToken, AcquireFail, RLockOpen,
         RLockClosed, Send, Accept, WaitDone
<1>3. pc'[q] = pc[q] /\ result'[q] = result[q] /\ verdicts'[q] = verdicts[q]
  BY <1>1 DEF GateAllow, GateRefuse, CallStep, AcquireToken, AcquireFail, RLockOpen,
       RLockClosed, Send, Accept, WaitDone
<1>4. q \in Queued' <=> q \in Queued
  <2>1. tasks' = tasks \/ tasks' = Append(tasks, r)
    BY DEF GateAllow, GateRefuse, CallStep, AcquireToken, AcquireFail, RLockOpen,
         RLockClosed, Send, Accept, WaitDone
  <2>2. Range(Append(tasks, r)) = Range(tasks) \cup {r}
    BY <1>1, RangeAppend
  <2>. QED BY <2>1, <2>2 DEF Queued
<1>. QED BY <1>2, <1>3, <1>4 DEF Untouched

(* The request itself moves as its program counter says.                   *)
LEMMA CallPlaced ==
  ASSUME Typed, Placed, NEW r \in Requests, GateAllow(r) \/ GateRefuse(r) \/ CallStep(r)
  PROVE  Placed'
<1>1. \A q \in Requests : q # r => PlaceOK(q)'
  BY CallTouchesOne, UntouchedStays DEF Placed
<1>. USE DEF Goto, Return, Settled
<1>2. pc \in [Requests -> CallPCs] /\ result \in [Requests -> Sheds \cup {"none", "ok"}]
      /\ verdicts \in [Requests -> Seq(BOOLEAN)] /\ tasks \in Seq(Requests)
  BY DEF Typed, TypeOK
<1>3. job' = job /\ worker' = worker /\ ended' = ended
  BY DEF workVars, GateAllow, GateRefuse, CallStep, AcquireToken, AcquireFail, RLockOpen,
         RLockClosed, Send, Accept, WaitDone
<1>4. CASE Send(r)
  <2>1. Outside(r)
    BY <1>2, <1>4 DEF Send, Placed, PlaceOK, Refused, InChannel, Past, HeldBy, Inside
  <2>2. tasks' = Append(tasks, r) /\ tasks \in Seq(Requests)
    BY <1>2, <1>4 DEF Send
  <2>3. Queued' = Queued \cup {r} /\ IsInjective(tasks')
    BY <2>1, <2>2, RangeAppend DEF Placed, Outside, Queued
  <2>4. InChannel(r)'
    BY <1>2, <1>3, <1>4, <2>1, <2>3 DEF Send, Outside, InChannel, Inside, OnWorker, Sheds
  <2>. QED BY <1>1, <2>3, <2>4 DEF Placed, PlaceOK
<1>5. CASE ~Send(r)
  <2>1. tasks' = tasks /\ Queued' = Queued
    BY <1>5 DEF Queued, GateAllow, GateRefuse, CallStep, AcquireToken, AcquireFail, RLockOpen,
         RLockClosed, Accept, WaitDone
  <2>2. ASSUME GateAllow(r) \/ AcquireToken(r) \/ RLockOpen(r)
        PROVE  PlaceOK(r)'
    <3>1. Outside(r)
      BY <1>2, <2>2 DEF GateAllow, AcquireToken, RLockOpen, Placed, PlaceOK, Refused, InChannel,
         Past, HeldBy, Inside
    <3>2. Outside(r)'
      BY <1>2, <1>3, <2>1, <2>2, <3>1 DEF GateAllow, AcquireToken, RLockOpen, Outside, OnWorker
    <3>. QED BY <3>2 DEF PlaceOK
  <2>3. ASSUME GateRefuse(r) \/ AcquireFail(r) \/ RLockClosed(r)
        PROVE  PlaceOK(r)'
    <3>1. Outside(r)
      BY <1>2, <2>3 DEF GateRefuse, AcquireFail, RLockClosed, Placed, PlaceOK, Refused, InChannel,
         Past, HeldBy, Inside
    <3>2. /\ pc'[r] = "returned" /\ result'[r] \in Sheds
          /\ verdicts'[r] = IF result'[r] = "overloaded" THEN <<>> ELSE <<FALSE>>
      <4>1. CASE GateRefuse(r)
        BY <1>2, <3>1, <4>1 DEF GateRefuse, Outside, Sheds
      <4>2. CASE AcquireFail(r) \/ RLockClosed(r)
        <5>1. Append(verdicts[r], FALSE) = <<FALSE>>
          BY <3>1 DEF Outside
        <5>2. result'[r] \in {"full", "timeout", "stopped"} /\ pc'[r] = "returned"
          BY <1>2, <4>2 DEF AcquireFail, RLockClosed
        <5>3. verdicts'[r] = <<FALSE>>
          BY <1>2, <4>2, <5>1 DEF AcquireFail, RLockClosed
        <5>. QED BY <5>2, <5>3 DEF Sheds
      <4>. QED BY <2>3, <4>1, <4>2
    <3>3. Refused(r)'
      BY <1>3, <2>1, <3>1, <3>2 DEF Outside, Refused, OnWorker
    <3>. QED BY <3>3 DEF PlaceOK
  <2>4. ASSUME Accept(r) \/ WaitDone(r)
        PROVE  PlaceOK(r)'
    <3>1. verdicts' = verdicts /\ pc[r] \in {"sent", "waiting"}
          /\ pc'[r] \in {"waiting", "returned"} /\ result'[r] \in {result[r], "ok"}
      BY <1>2, <2>4 DEF Accept, WaitDone
    <3>2. Inside(r) => Inside(r)'
      BY <3>1 DEF Inside, Sheds
    <3>3. ~Outside(r) /\ ~Refused(r)
      BY <3>1 DEF Outside, Refused
    <3>4. ASSUME InChannel(r) PROVE PlaceOK(r)'
      BY <1>2, <1>3, <2>1, <3>1, <3>2, <3>4 DEF InChannel, OnWorker, PlaceOK
    <3>5. ASSUME Past(r) PROVE PlaceOK(r)'
      BY <1>2, <1>3, <2>1, <3>1, <3>2, <3>5 DEF Past, OnWorker, PlaceOK
    <3>6. ASSUME NEW w \in Workers, HeldBy(r, w) PROVE PlaceOK(r)'
      <4>1. HeldBy(r, w)'
        BY <1>2, <1>3, <2>1, <3>1, <3>2, <3>6 DEF HeldBy
      <4>. QED BY <4>1 DEF PlaceOK
    <3>. QED BY <3>3, <3>4, <3>5, <3>6 DEF Placed, PlaceOK
  <2>5. PlaceOK(r)'
    BY <1>5, <2>2, <2>3, <2>4 DEF CallStep, Placed
  <2>. QED BY <1>1, <2>1, <2>5 DEF Placed
<1>. QED BY <1>4, <1>5

(* A worker moves only the request that it receives or holds.              *)
LEMMA WorkerTouchesOne ==
  ASSUME Typed, Placed, NEW w \in Workers, WorkerStep(w), NEW q \in Requests,
         q # IF Receive(w) THEN Head(tasks) ELSE job[w]
  PROVE  Untouched(q)
<1>. USE DEF Step
<1>1. /\ worker \in [Workers -> WorkerPCs] /\ job \in [Workers -> Requests \cup {None}]
      /\ verdicts \in [Requests -> Seq(BOOLEAN)] /\ tasks \in Seq(Requests) /\ JobOK
  BY DEF Typed, TypeOK
<1>2. pc' = pc /\ result' = result
  BY DEF callVars, WorkerStep, Receive, Start, BodyEnd, Settle, Release, Exit
<1>3. \A v \in Workers : v # w => job'[v] = job[v] /\ worker'[v] = worker[v]
  BY <1>1 DEF WorkerStep, Receive, Start, BodyEnd, Settle, Release, Exit
<1>4. CASE Receive(w)
  <2>1. tasks # <<>> /\ tasks' = Tail(tasks) /\ IsInjective(tasks)
    BY <1>4 DEF Receive, Placed
  <2>2. q \in Queued' <=> q \in Queued
    BY <1>1, <1>4, <2>1, RangeTail DEF Queued
  <2>3. job[w] # q /\ job'[w] # q /\ verdicts' = verdicts /\ ended' = ended
    BY <1>1, <1>4, <2>1, PoolAssumption DEF Receive, JobOK
  <2>. QED BY <1>2, <1>3, <2>2, <2>3 DEF Untouched
<1>5. CASE ~Receive(w)
  <2>1. Queued' = Queued
    BY <1>5 DEF Queued, WorkerStep, Start, BodyEnd, Settle, Release, Exit
  <2>2. job[w] # q /\ job'[w] # q
    BY <1>1, <1>5, PoolAssumption DEF WorkerStep, Start, BodyEnd, Settle, Release, Exit
  <2>3. verdicts'[q] = verdicts[q] /\ (q \in ended' <=> q \in ended)
    BY <1>1, <1>5, <2>2 DEF WorkerStep, Start, BodyEnd, Settle, Release, Exit, Settled
  <2>. QED BY <1>2, <1>3, <2>1, <2>2, <2>3 DEF Untouched
<1>. QED BY <1>4, <1>5

(* That request moves from the channel through the worker.                 *)
LEMMA WorkerPlaced ==
  ASSUME Typed, Placed, NEW w \in Workers, WorkerStep(w)
  PROVE  Placed'
<1>. USE DEF Step
<1>1. /\ worker \in [Workers -> WorkerPCs] /\ job \in [Workers -> Requests \cup {None}]
      /\ verdicts \in [Requests -> Seq(BOOLEAN)] /\ tasks \in Seq(Requests) /\ JobOK
  BY DEF Typed, TypeOK
<1>2. pc' = pc /\ result' = result
  BY DEF callVars, WorkerStep, Receive, Start, BodyEnd, Settle, Release, Exit
<1>3. CASE Receive(w)
  <2>1. tasks # <<>> /\ IsInjective(tasks) /\ tasks' = Tail(tasks)
    BY <1>3 DEF Receive, Placed
  <2>2. PICK h \in Requests : /\ h = Head(tasks) /\ h \in Queued /\ Queued' = Queued \ {h}
                              /\ IsInjective(tasks')
    BY <1>1, <2>1, RangeTail DEF Queued
  <2>3. InChannel(h)
    BY <2>2 DEF Placed, PlaceOK, Outside, Refused, Past, HeldBy
  <2>4. job[w] = None /\ job' = [job EXCEPT ![w] = h] /\ worker' = [worker EXCEPT ![w] = "took"]
    BY <1>1, <1>3, <2>2 DEF Receive, JobOK
  <2>5. verdicts' = verdicts /\ ended' = ended
    BY <1>3 DEF Receive
  <2>6. HeldBy(h, w)'
    BY <1>1, <1>2, <2>2, <2>3, <2>4, <2>5 DEF InChannel, HeldBy, Inside, OnWorker
  <2>7. \A q \in Requests : q # h => PlaceOK(q)'
    BY <1>3, <2>2, WorkerTouchesOne, UntouchedStays DEF Placed
  <2>. QED BY <2>2, <2>6, <2>7 DEF Placed, PlaceOK
<1>4. CASE ~Receive(w)
  <2>1. tasks' = tasks /\ Queued' = Queued
    BY <1>4 DEF Queued, WorkerStep, Start, BodyEnd, Settle, Release, Exit
  <2>2. CASE Exit(w)
    <3>1. job[w] = None
      BY <1>1, <2>2 DEF Exit, JobOK
    <3>2. \A q \in Requests : PlaceOK(q)'
      BY <1>4, <3>1, WorkerTouchesOne, UntouchedStays, PoolAssumption DEF Placed
    <3>. QED BY <2>1, <3>2 DEF Placed
  <2>3. CASE ~Exit(w)
    <3>1. PICK r \in Requests : r = job[w] /\ worker[w] \in {"took", "running", "ended", "settled"}
      BY <1>1, <1>4, <2>3 DEF WorkerStep, Start, BodyEnd, Settle, Release, JobOK
    <3>2. HeldBy(r, w)
      BY <3>1 DEF Placed, PlaceOK, Outside, Refused, InChannel, Past, HeldBy, OnWorker
    <3>3. \A q \in Requests : q # r => PlaceOK(q)'
      BY <1>4, <3>1, WorkerTouchesOne, UntouchedStays DEF Placed
    <3>4. CASE Start(w)
      <4>1. HeldBy(r, w)'
        BY <1>1, <1>2, <2>1, <3>1, <3>2, <3>4 DEF Start, HeldBy, Inside
      <4>. QED BY <2>1, <3>1, <3>3, <4>1 DEF Placed, PlaceOK
    <3>5. CASE BodyEnd(w)
      <4>1. HeldBy(r, w)'
        BY <1>1, <1>2, <2>1, <3>1, <3>2, <3>5 DEF BodyEnd, HeldBy, Inside
      <4>. QED BY <2>1, <3>1, <3>3, <4>1 DEF Placed, PlaceOK
    <3>6. CASE Settle(w)
      <4>1. PICK ok \in BOOLEAN : verdicts' = [verdicts EXCEPT ![r] = Append(@, ok)]
        BY <3>1, <3>6 DEF Settle, Settled
      <4>2. verdicts[r] = <<>>
        BY <3>2, <3>6 DEF Settle, HeldBy
      <4>3. Len(verdicts'[r]) = 1
        BY <1>1, <3>1, <4>1, <4>2
      <4>4. HeldBy(r, w)'
        BY <1>1, <1>2, <2>1, <3>1, <3>2, <3>6, <4>3 DEF Settle, HeldBy, Inside
      <4>. QED BY <2>1, <3>1, <3>3, <4>4 DEF Placed, PlaceOK
    <3>7. CASE Release(w)
      <4>1. Past(r)'
        BY <1>1, <1>2, <2>1, <3>1, <3>2, <3>7, PoolAssumption DEF Release, HeldBy, Past, Inside, OnWorker
      <4>. QED BY <2>1, <3>1, <3>3, <4>1 DEF Placed, PlaceOK
    <3>. QED BY <1>4, <2>3, <3>4, <3>5, <3>6, <3>7 DEF WorkerStep
  <2>. QED BY <2>2, <2>3
<1>. QED BY <1>3, <1>4

-----------------------------------------------------------------------------
(* Stop.                                                                   *)

(* The workers that Stats counts as active.                                *)
Busy == {w \in Workers : worker[w] \in {"running", "ended"}}

(* A call that began after Stop had returned gets no further than the      *)
(* closed flag.                                                            *)
TurnedAway(r) ==
  \/ pc[r] \in {"acquire", "token"}
  \/ pc[r] = "returned" /\ result[r] \in Sheds

(* Only a pool closed by the one call of Stop that took the write lock has *)
(* lost workers, and its channel is empty.                                 *)
StopInv ==
  /\ closed <=> \E s \in Stoppers : stop[s] \in {"draining", "returned"}
  /\ \A s, t \in Stoppers : stop[s] = "locking" /\ t # s => stop[t] \in {"idle", "joining"}
  /\ \A w \in Workers : worker[w] = "exited" => closed /\ tasks = <<>>
  /\ StopReturned => \A w \in Workers : worker[w] = "exited"
  /\ active = Cardinality(Busy)
  /\ \A r \in late : closed /\ TurnedAway(r)

(* A call sends nothing to a closed pool, and a late one does not pass.    *)
LEMMA CallKeepsStop ==
  ASSUME Typed, NoSendOnClosed, StopInv,
         NEW r \in Requests, GateAllow(r) \/ GateRefuse(r) \/ CallStep(r)
  PROVE  StopInv'
<1>1. /\ pc \in [Requests -> CallPCs] /\ result \in [Requests -> Sheds \cup {"none", "ok"}]
      /\ late \subseteq Requests
  BY DEF Typed, TypeOK
<1>2. worker' = worker /\ active' = active /\ stop' = stop /\ closed' = closed
  BY DEF workVars, GateAllow, GateRefuse, CallStep, AcquireToken, AcquireFail, RLockOpen,
         RLockClosed, Send, Accept, WaitDone
<1>3. Busy' = Busy /\ (StopReturned' <=> StopReturned)
  BY <1>2 DEF Busy, StopReturned
<1>4. ASSUME NEW w \in Workers, worker[w] = "exited" PROVE tasks' = <<>>
  BY <1>4 DEF StopInv, NoSendOnClosed, Goto, GateAllow, GateRefuse, CallStep, AcquireToken,
         AcquireFail, RLockOpen, RLockClosed, Send, Accept, WaitDone
<1>5. (StopReturned => closed) /\ \A q \in late : closed /\ TurnedAway(q)
  BY DEF StopInv, StopReturned
<1>6. ASSUME NEW q \in late' PROVE closed /\ TurnedAway(q)'
  <2>1. CASE GateAllow(r) \/ GateRefuse(r)
    <3>1. pc[r] = "new" /\ (q = r \/ q \in late) /\ (closed \/ late' = late)
      BY <1>1, <1>5, <1>6, <2>1 DEF GateAllow, GateRefuse, Return, Goto, NoteLate
    <3>2. q \in late => q # r /\ q \in Requests
      BY <1>1, <1>5, <3>1 DEF TurnedAway
    <3>3. CASE q \in late
      <4>1. pc'[q] = pc[q] /\ result'[q] = result[q]
        BY <1>1, <2>1, <3>2, <3>3 DEF GateAllow, GateRefuse, Return, Goto
      <4>. QED BY <1>5, <3>3, <4>1 DEF TurnedAway
    <3>4. CASE q \notin late
      <4>1. q = r /\ closed
        BY <1>6, <3>1, <3>4
      <4>2. pc'[r] = "acquire" \/ (pc'[r] = "returned" /\ result'[r] = "overloaded")
        BY <1>1, <2>1 DEF GateAllow, GateRefuse, Return, Goto
      <4>. QED BY <4>1, <4>2 DEF TurnedAway, Sheds
    <3>. QED BY <3>3, <3>4
  <2>2. CASE CallStep(r)
    <3>1. late' = late
      BY <2>2 DEF CallStep, AcquireToken, AcquireFail, RLockOpen, RLockClosed, Send, Accept, WaitDone
    <3>2. q \in Requests /\ closed /\ TurnedAway(q)
      BY <1>1, <1>5, <1>6, <3>1
    <3>3. CASE q # r
      <4>1. pc'[q] = pc[q] /\ result'[q] = result[q]
        BY <1>1, <2>2, <3>2, <3>3
           DEF CallStep, AcquireToken, AcquireFail, RLockOpen, RLockClosed, Send, Accept, WaitDone, Goto, Return
      <4>. QED BY <3>2, <4>1 DEF TurnedAway
    <3>4. CASE q = r
      <4>1. AcquireToken(r) \/ AcquireFail(r) \/ RLockClosed(r)
        BY <2>2, <3>2, <3>4 DEF CallStep, RLockOpen, Send, Accept, WaitDone, Goto, Return, TurnedAway
      <4>2. pc'[r] = "token" \/ (pc'[r] = "returned" /\ result'[r] \in Sheds)
        BY <1>1, <4>1 DEF AcquireToken, AcquireFail, RLockClosed, Goto, Return, Sheds
      <4>. QED BY <3>2, <3>4, <4>2 DEF TurnedAway
    <3>. QED BY <3>3, <3>4
  <2>. QED BY <2>1, <2>2
<1>7. \A w \in Workers : worker'[w] = "exited" => closed' /\ tasks' = <<>>
  BY <1>2, <1>4 DEF StopInv
<1>8. \A q \in late' : closed' /\ TurnedAway(q)'
  BY <1>2, <1>6
<1>. QED BY <1>2, <1>3, <1>7, <1>8 DEF StopInv

(* A worker leaves only a closed and drained pool, and for good.           *)
LEMMA WorkerKeepsStop ==
  ASSUME Typed, StopInv, NEW w \in Workers, WorkerStep(w)
  PROVE  StopInv'
<1>. USE DEF Step
<1>1. worker \in [Workers -> WorkerPCs] /\ tasks \in Seq(Requests)
  BY DEF Typed, TypeOK
<1>2. pc' = pc /\ result' = result /\ late' = late /\ stop' = stop /\ closed' = closed
  BY DEF callVars, WorkerStep, Receive, Start, BodyEnd, Settle, Release, Exit
<1>3. IsFiniteSet(Busy) /\ Cardinality(Busy) \in Nat
  BY PoolAssumption, FS_Subset, FS_CardinalityType DEF Busy
<1>4. worker[w] # "exited" /\ \A v \in Workers : v # w => worker'[v] = worker[v]
  BY <1>1 DEF WorkerStep, Receive, Start, BodyEnd, Settle, Release, Exit
<1>5. ASSUME NEW v \in Workers, worker'[v] = "exited" PROVE closed /\ tasks' = <<>>
  BY <1>1, <1>4, <1>5 DEF StopInv, WorkerStep, Receive, Start, BodyEnd, Settle, Release, Exit
<1>6. active' = Cardinality(Busy')
  <2>1. CASE Start(w)
    <3>1. Busy' = Busy \cup {w} /\ w \notin Busy
      BY <1>1, <2>1 DEF Start, Busy
    <3>. QED BY <1>3, <2>1, <3>1, FS_AddElement DEF Start, StopInv
  <2>2. CASE Settle(w)
    <3>1. Busy' = Busy \ {w} /\ w \in Busy
      BY <1>1, <2>2 DEF Settle, Busy
    <3>. QED BY <1>3, <2>2, <3>1, FS_RemoveElement DEF Settle, StopInv
  <2>3. CASE Receive(w) \/ BodyEnd(w) \/ Release(w) \/ Exit(w)
    <3>1. Busy' = Busy /\ active' = active
      BY <1>1, <2>3 DEF Receive, BodyEnd, Release, Exit, Busy
    <3>. QED BY <3>1 DEF StopInv
  <2>. QED BY <2>1, <2>2, <2>3 DEF WorkerStep
<1>7. ~StopReturned
  BY <1>4 DEF StopInv
<1>. QED BY <1>2, <1>5, <1>6, <1>7 DEF StopInv, StopReturned, TurnedAway

(* Only one call of Stop gets to close the channel, and only the exit of   *)
(* every worker lets a call of Stop return.                                *)
LEMMA StopKeepsStop ==
  ASSUME Typed, StopInv, NEW s \in Stoppers, StopBegin(s) \/ StopJoin(s) \/ StopStep(s)
  PROVE  StopInv'
<1>. USE DEF StopGoto, StopReturned, OnceTaken
<1>1. /\ stop \in [Stoppers -> StopPCs]
  BY DEF Typed, TypeOK
<1>2. UNCHANGED <<callVars, tasks, workVars>>
  BY DEF StopBegin, StopJoin, StopStep, StopClose, StopReturn, StopJoined
<1>3. Busy' = Busy
  BY <1>2 DEF Busy, workVars
<1>4. active' = Cardinality(Busy') /\ \A r \in late' : closed' => TurnedAway(r)'
  BY <1>2, <1>3 DEF StopInv, TurnedAway, callVars, workVars
<1>5. /\ closed' <=> \E t \in Stoppers : stop'[t] \in {"draining", "returned"}
      /\ closed => closed'
  BY <1>1 DEF StopInv, StopBegin, StopJoin, StopStep, StopClose, StopReturn, StopJoined
<1>6. \A t, u \in Stoppers : stop'[t] = "locking" /\ u # t => stop'[u] \in {"idle", "joining"}
  <2>1. CASE StopBegin(s)
    <3>1. \A u \in Stoppers : stop[u] \in {"idle", "joining"}
      BY <1>1, <2>1 DEF StopBegin, StopPCs
    <3>. QED BY <1>1, <2>1, <3>1 DEF StopBegin
  <2>2. CASE StopJoin(s) \/ StopStep(s)
    <3>1. \A t \in Stoppers : stop'[t] = "locking" => stop[t] = "locking" /\ t # s
      BY <1>1, <2>2 DEF StopJoin, StopStep, StopClose, StopReturn, StopJoined
    <3>2. StopJoin(s) \/ stop[s] = "locking" \/ StopReturned \/ stop[s] = "draining"
      BY <2>2 DEF StopStep, StopClose, StopReturn, StopJoined
    <3>3. CASE StopJoin(s)
      BY <1>1, <3>1, <3>3 DEF StopInv, StopJoin
    <3>4. CASE stop[s] \in {"locking", "draining"} \/ StopReturned
      <4>1. \A t \in Stoppers : t # s => stop[t] # "locking"
        BY <3>4 DEF StopInv
      <4>. QED BY <3>1, <4>1
    <3>. QED BY <3>2, <3>3, <3>4
  <2>. QED BY <2>1, <2>2
<1>7. StopReturned' => \A w \in Workers : worker'[w] = "exited"
  BY <1>1, <1>2 DEF StopInv, workVars, StopBegin, StopJoin, StopStep, StopClose, StopReturn, StopJoined
<1>8. \A w \in Workers : worker'[w] = "exited" => closed' /\ tasks' = <<>>
  BY <1>2, <1>5 DEF StopInv, workVars
<1>9. \A r \in late' : closed'
  BY <1>2, <1>5 DEF StopInv, callVars
<1>. QED BY <1>4, <1>5, <1>6, <1>7, <1>8, <1>9 DEF StopInv

(* The inductive invariant of the pool.                                    *)
PoolInv == ChannelInv /\ Placed /\ StopInv

(* Initially every request is outside and the pool is open.               *)
LEMMA InitInv == Init => PoolInv
<1>. SUFFICES ASSUME Init PROVE PoolInv
  OBVIOUS
<1>1. ChannelInv
  <2>1. Carriers = {} /\ Jobs = {}
    BY DEF Init, Carriers, Jobs
  <2>2. TokenAccounting
    BY <2>1, FS_EmptySet DEF Init, TokenAccounting
  <2>. QED BY <2>2, InitTyped DEF Init, ChannelInv, NoSendOnClosed
<1>2. Placed
  <2>1. Queued = {} /\ IsInjective(tasks)
    BY DEF Init, Queued, Range, IsInjective
  <2>2. ASSUME NEW r \in Requests PROVE Outside(r)
    BY <2>1, PoolAssumption DEF Init, Outside, OnWorker
  <2>. QED BY <2>1, <2>2 DEF Placed, PlaceOK
<1>3. StopInv
  <2>1. Busy = {}
    BY DEF Init, Busy
  <2>. QED BY <2>1, FS_EmptySet DEF Init, StopInv, StopReturned
<1>. QED BY <1>1, <1>2, <1>3 DEF PoolInv

(* Every step preserves the invariant.                                     *)
LEMMA NextInv == PoolInv /\ [Next]_vars => PoolInv'
<1>. SUFFICES ASSUME PoolInv, [Next]_vars PROVE PoolInv'
  OBVIOUS
<1>1. ChannelInv'
  BY ChannelStep DEF PoolInv
<1>2. CASE UNCHANGED vars
  <2>1. Queued' = Queued /\ Busy' = Busy /\ (StopReturned' <=> StopReturned)
    BY <1>2 DEF vars, Queued, Busy, StopReturned
  <2>2. StopInv'
    BY <1>2, <2>1 DEF vars, PoolInv, StopInv, TurnedAway
  <2>3. Placed'
    <3>1. ASSUME NEW r \in Requests PROVE Untouched(r)
      BY <1>2, <2>1 DEF vars, Untouched
    <3>2. tasks' = tasks
      BY <1>2 DEF vars
    <3>. QED BY <3>1, <3>2, UntouchedStays DEF PoolInv, Placed
  <2>. QED BY <1>1, <2>2, <2>3 DEF PoolInv
<1>3. ASSUME NEW r \in Requests, GateAllow(r) \/ GateRefuse(r) \/ CallStep(r)
      PROVE  PoolInv'
  BY <1>1, <1>3, CallPlaced, CallKeepsStop DEF PoolInv, ChannelInv
<1>4. ASSUME NEW w \in Workers, WorkerStep(w)
      PROVE  PoolInv'
  BY <1>1, <1>4, WorkerPlaced, WorkerKeepsStop DEF PoolInv, ChannelInv
<1>5. ASSUME NEW s \in Stoppers, StopBegin(s) \/ StopJoin(s) \/ StopStep(s)
      PROVE  PoolInv'
  <2>1. Placed'
    <3>1. UNCHANGED <<callVars, tasks, workVars, verdicts>>
      BY <1>5 DEF StopBegin, StopJoin, StopStep, StopClose, StopReturn, StopJoined
    <3>2. ASSUME NEW r \in Requests PROVE Untouched(r)
      BY <3>1 DEF callVars, workVars, Untouched, Queued
    <3>. QED BY <3>1, <3>2, UntouchedStays DEF PoolInv, Placed
  <2>. QED BY <1>1, <1>5, <2>1, StopKeepsStop DEF PoolInv, ChannelInv
<1>. QED BY <1>2, <1>3, <1>4, <1>5 DEF Next, Rest

(* The invariant holds in every reachable state.                           *)
LEMMA PoolInvariant == Spec => []PoolInv
BY InitInv, NextInv, PTL DEF Spec

(* The gate's done is called exactly once for every admitted call.         *)
THEOREM GateToldOnce == Spec => []DoneExactlyOnce
<1>1. PoolInv => DoneExactlyOnce
  <2>. SUFFICES ASSUME PoolInv, NEW r \in Requests
                PROVE  /\ Len(verdicts[r]) <= 1
                       /\ result[r] = "overloaded" => verdicts[r] = <<>>
                       /\ result[r] \in {"full", "timeout", "stopped"} => verdicts[r] = <<FALSE>>
                       /\ r \in Ran /\ r \notin Queued /\ ~OnWorker(r) => verdicts[r] # <<>>
    BY DEF DoneExactlyOnce
  <2>1. PlaceOK(r)
    BY DEF PoolInv, Placed
  <2>0. Len(<<>>) = 0 /\ Len(<<FALSE>>) = 1
    OBVIOUS
  <2>2. CASE Outside(r)
    BY <2>0, <2>2 DEF Outside, Ran, Sheds
  <2>3. CASE Refused(r)
    <3>1. result[r] = "overloaded" => verdicts[r] = <<>>
      BY <2>3 DEF Refused
    <3>2. result[r] # "overloaded" => verdicts[r] = <<FALSE>>
      BY <2>3 DEF Refused
    <3>3. r \notin Ran
      BY <2>3 DEF Refused, Ran
    <3>4. CASE result[r] = "overloaded"
      BY <2>0, <3>1, <3>3, <3>4
    <3>5. CASE result[r] # "overloaded"
      <4>1. verdicts[r] = <<FALSE>>
        BY <3>2, <3>5
      <4>2. Len(verdicts[r]) = 1
        BY <2>0, <4>1
      <4>. QED BY <3>3, <3>5, <4>1, <4>2
    <3>. QED BY <3>4, <3>5
  <2>4. CASE InChannel(r)
    BY <2>0, <2>4 DEF InChannel, Inside, Ran, Sheds
  <2>5. CASE Past(r)
    <3>1. Len(verdicts[r]) = 1 /\ result[r] \notin Sheds
      BY <2>5 DEF Past, Inside
    <3>2. verdicts[r] # <<>>
      BY <2>0, <3>1
    <3>3. Len(verdicts[r]) <= 1
      BY <3>1
    <3>. QED BY <3>1, <3>2, <3>3 DEF Sheds
  <2>6. CASE \E w \in Workers : HeldBy(r, w)
    <3>1. PICK w \in Workers : HeldBy(r, w)
      BY <2>6
    <3>2. OnWorker(r) /\ result[r] \notin Sheds
      BY <3>1 DEF HeldBy, OnWorker, Inside
    <3>3. Len(verdicts[r]) <= 1
      <4>1. CASE worker[w] = "settled"
        <5>1. Len(verdicts[r]) = 1
          BY <3>1, <4>1 DEF HeldBy
        <5>. QED BY <5>1
      <4>2. CASE worker[w] # "settled"
        <5>1. verdicts[r] = <<>>
          BY <3>1, <4>2 DEF HeldBy
        <5>. QED BY <2>0, <5>1
      <4>. QED BY <4>1, <4>2
    <3>. QED BY <3>2, <3>3 DEF Sheds
  <2>. QED BY <2>1, <2>2, <2>3, <2>4, <2>5, <2>6 DEF PlaceOK
<1>. QED BY <1>1, PoolInvariant, PTL

(* No call is answered with an error while its task runs, or later on.     *)
THEOREM ShedIsFinal == Spec => []ShedNeverRuns
<1>1. PoolInv => ShedNeverRuns
  BY DEF PoolInv, Placed, PlaceOK, Outside, Refused, InChannel, Past, HeldBy, Inside,
         ShedNeverRuns, Sheds
<1>. QED BY <1>1, PoolInvariant, PTL

(* When Stop returns, everything accepted has run and nothing is left.     *)
THEOREM StopLeavesNothing == Spec => []StopDrains
<1>1. ASSUME PoolInv, StopReturned
      PROVE  /\ tasks = <<>> /\ active = 0
             /\ \A w \in Workers : worker[w] = "exited" /\ job[w] = None
             /\ \A r \in Ran : r \in ended /\ verdicts[r] # <<>>
             /\ sem = Cardinality(Carriers)
             /\ late \cap Ran = {}
  <2>1. \A w \in Workers : worker[w] = "exited" /\ job[w] = None
    BY <1>1 DEF PoolInv, ChannelInv, Typed, TypeOK, JobOK, StopInv
  <2>2. tasks = <<>>
    BY <1>1, <2>1, PoolAssumption DEF PoolInv, StopInv
  <2>3. Queued = {} /\ Busy = {} /\ Jobs = {}
    BY <2>1, <2>2 DEF Queued, Range, Busy, Jobs
  <2>4. active = 0
    BY <1>1, <2>3, FS_EmptySet DEF PoolInv, StopInv
  <2>5. sem = Cardinality(Carriers)
    BY <1>1, <2>2, <2>3, FS_EmptySet, CountsAreNumbers DEF PoolInv, ChannelInv, TokenAccounting
  <2>6. ASSUME NEW r \in Ran PROVE r \in ended /\ verdicts[r] # <<>>
    <3>1. r \in Requests /\ r \notin Queued /\ ~OnWorker(r)
      BY <2>1, <2>3, PoolAssumption DEF Ran, OnWorker
    <3>2. Past(r)
      BY <1>1, <2>1, <2>6, <3>1 DEF PoolInv, Placed, PlaceOK, Outside, Refused, InChannel, HeldBy, Ran, OnWorker
    <3>. QED BY <3>2 DEF Past
  <2>7. late \cap Ran = {}
    BY <1>1 DEF PoolInv, StopInv, TurnedAway, Ran
  <2>. QED BY <2>1, <2>2, <2>4, <2>5, <2>6, <2>7
<1>2. PoolInv => StopDrains
  BY <1>1 DEF StopDrains
<1>. QED BY <1>2, PoolInvariant, PTL

(* A call of Stop joins only after another has begun, and that one goes on *)
(* to its return.                                                          *)
JoinersHaveOne == (\E s \in Stoppers : stop[s] = "joining") => OnceTaken

(* It holds in every reachable state.                                      *)
LEMMA JoinersInvariant == Spec => [](Typed /\ JoinersHaveOne)
<1>1. Init => JoinersHaveOne
  BY DEF Init, JoinersHaveOne
<1>2. Typed /\ JoinersHaveOne /\ [Next]_vars => JoinersHaveOne'
  <2>. SUFFICES ASSUME Typed, JoinersHaveOne, [Next]_vars PROVE JoinersHaveOne'
    OBVIOUS
  <2>1. stop \in [Stoppers -> StopPCs]
    BY DEF Typed, TypeOK
  <2>2. CASE UNCHANGED stop
    BY <2>2 DEF JoinersHaveOne, OnceTaken
  <2>3. ASSUME NEW s \in Stoppers, StopBegin(s) \/ StopJoin(s) \/ StopStep(s)
        PROVE  JoinersHaveOne'
    <3>1. PICK to \in {"locking", "draining", "joining", "returned"} :
            stop' = [stop EXCEPT ![s] = to]
      BY <2>3 DEF StopBegin, StopJoin, StopStep, StopClose, StopReturn, StopJoined, StopGoto
    <3>2. to = "joining" => OnceTaken
      BY <2>1, <2>3, <3>1 DEF StopBegin, StopJoin, StopStep, StopClose, StopReturn, StopJoined,
         StopGoto
    <3>3. stop[s] \in {"locking", "draining", "returned"} => to \in {"draining", "returned"}
      BY <2>3, <2>1, <3>1 DEF StopBegin, StopJoin, StopStep, StopClose, StopReturn, StopJoined,
         StopGoto, OnceTaken
    <3>4. OnceTaken => OnceTaken'
      BY <2>1, <3>1, <3>3 DEF OnceTaken
    <3>5. (\E t \in Stoppers : stop'[t] = "joining") =>
             to = "joining" \/ \E t \in Stoppers : stop[t] = "joining"
      BY <2>1, <3>1
    <3>. QED BY <3>2, <3>4, <3>5 DEF JoinersHaveOne
  <2>4. UNCHANGED stop \/ \E s \in Stoppers : StopBegin(s) \/ StopJoin(s) \/ StopStep(s)
    <3>1. ASSUME NEW r \in Requests, GateAllow(r) \/ GateRefuse(r) \/ CallStep(r)
          PROVE  UNCHANGED stop
      BY <3>1 DEF GateAllow, GateRefuse, CallStep, AcquireToken, AcquireFail, RLockOpen,
         RLockClosed, Send, Accept, WaitDone
    <3>2. ASSUME NEW w \in Workers, WorkerStep(w) PROVE UNCHANGED stop
      BY <3>2 DEF WorkerStep, Receive, Start, BodyEnd, Settle, Release, Exit
    <3>. QED BY <3>1, <3>2 DEF Next, Rest, vars
  <2>. QED BY <2>2, <2>3, <2>4
<1>. QED BY <1>1, <1>2, TypeCorrect, PTL DEF Spec, Typed

(* No wait is in vain: some worker is left for what is queued, a worker    *)
(* that holds a task finds a token to give back, and so Stop has only      *)
(* workers to wait for that can go on.                                     *)
THEOREM WaitsAreServed == Spec => []NobodyWaitsInVain
<1>1. ASSUME PoolInv, NEW w \in Workers, worker[w] # "exited",
             tasks # <<>> \/ closed \/ job[w] # None
      PROVE  CanWork(w)
  <2>1. worker[w] \in WorkerPCs /\ (job[w] # None <=> worker[w] \in {"took", "running", "ended", "settled"})
    BY <1>1 DEF PoolInv, ChannelInv, Typed, TypeOK, JobOK
  <2>2. job[w] # None => sem > 0
    BY <1>1, AccountingGives DEF PoolInv, ReleaseNeverBlocks
  <2>. QED BY <1>1, <2>1, <2>2 DEF CanWork, WorkerPCs
<1>2. ASSUME PoolInv, NEW r \in Requests, pc[r] = "waiting"
      PROVE  \/ r \in ended
             \/ \E w \in Workers : job[w] = r /\ CanWork(w)
             \/ r \in Queued /\ \E w \in Workers : CanWork(w)
  <2>1. PlaceOK(r)
    BY <1>2 DEF PoolInv, Placed
  <2>2. CASE InChannel(r)
    <3>1. r \in Queued /\ tasks # <<>>
      BY <2>2 DEF InChannel, Queued, Range
    <3>2. PICK w \in Workers : worker[w] # "exited"
      BY <1>2, <3>1, PoolAssumption DEF PoolInv, StopInv
    <3>. QED BY <1>1, <1>2, <3>1, <3>2
  <2>3. ASSUME NEW w \in Workers, HeldBy(r, w) PROVE job[w] = r /\ CanWork(w)
    <3>1. job[w] = r /\ job[w] # None
      BY <2>3, PoolAssumption DEF HeldBy
    <3>2. worker[w] # "exited"
      BY <1>2, <3>1 DEF PoolInv, ChannelInv, Typed, JobOK
    <3>. QED BY <1>1, <1>2, <3>1, <3>2
  <2>. QED BY <1>2, <2>1, <2>2, <2>3 DEF PlaceOK, Outside, Refused, Past
<1>3. ASSUME PoolInv, NEW s \in Stoppers, stop[s] = "draining", NEW w \in Workers, worker[w] # "exited"
      PROVE  CanWork(w)
  BY <1>1, <1>3 DEF PoolInv, StopInv
<1>4. PoolInv /\ JoinersHaveOne => NobodyWaitsInVain
  BY <1>2, <1>3 DEF NobodyWaitsInVain, JoinersHaveOne
<1>. QED BY <1>4, PoolInvariant, JoinersInvariant, PTL

-----------------------------------------------------------------------------
(* The pool as its callers see it.                                         *)

(* The abstract specification counts with the same cardinality.            *)
LEMMA SameCardinality == \A S : Abstract!Cardinality(S) = Cardinality(S)
BY DEF Abstract!Cardinality, Cardinality

(* The status that callers see is decided by where the request is.         *)
LEMMA StatusOf ==
  ASSUME NEW r \in Requests
  PROVE  /\ Outside(r) => Status(r) = "new"
         /\ Refused(r) => Status(r) = "shed"
         /\ InChannel(r) => Status(r) = "queued"
         /\ (\E w \in Workers : HeldBy(r, w)) => Status(r) = "running"
         /\ Past(r) => Status(r) = "done"
<1>1. Outside(r) => Status(r) = "new"
  BY DEF Outside, Status, Ran, Sheds
<1>2. Refused(r) => Status(r) = "shed"
  BY DEF Refused, Status, Ran
<1>3. InChannel(r) => Status(r) = "queued"
  BY DEF InChannel, Inside, Status, Ran
<1>4. (\E w \in Workers : HeldBy(r, w)) => Status(r) = "running"
  BY DEF HeldBy, Inside, Status, Ran, OnWorker
<1>5. Past(r) => Status(r) = "done"
  BY DEF Past, Inside, Status, Ran
<1>. QED BY <1>1, <1>2, <1>3, <1>4, <1>5

(* Queued and running requests are those in the channel and on a worker.   *)
LEMMA StatusIs ==
  ASSUME Placed, NEW r \in Requests
  PROVE  /\ Status(r) = "queued" <=> r \in Queued
         /\ Status(r) = "running" <=> OnWorker(r)
         /\ OnWorker(r) => r \notin Queued
         /\ Status(r) \in {"new", "shed", "queued", "running", "done"}
<1>1. PlaceOK(r)
  BY DEF Placed
<1>2. CASE Outside(r)   BY <1>2, StatusOf DEF Outside
<1>3. CASE Refused(r)   BY <1>3, StatusOf DEF Refused
<1>4. CASE InChannel(r) BY <1>4, StatusOf DEF InChannel
<1>5. CASE Past(r)      BY <1>5, StatusOf DEF Past
<1>6. CASE \E w \in Workers : HeldBy(r, w)
  <2>1. r \notin Queued /\ OnWorker(r)
    BY <1>6 DEF HeldBy, OnWorker
  <2>. QED BY <1>6, <2>1, StatusOf
<1>. QED BY <1>1, <1>2, <1>3, <1>4, <1>5, <1>6 DEF PlaceOK

(* No task is on two workers, so that what runs is no more than the        *)
(* workers that hold something; and every task in flight holds a token.    *)
LEMMA InFlightBound ==
  ASSUME PoolInv
  PROVE  /\ IsFiniteSet(Abstract!Running) /\ Cardinality(Abstract!Running) <= Cardinality(Jobs)
         /\ IsFiniteSet(Abstract!InFlight)
         /\ Cardinality(Abstract!InFlight) <= Len(tasks) + Cardinality(Jobs)
<1>1. tasks \in Seq(Requests) /\ job \in [Workers -> Requests \cup {None}] /\ Placed
  BY DEF PoolInv, ChannelInv, Typed, TypeOK
<1>2. Abstract!Running = {r \in Requests : OnWorker(r)}
  BY <1>1, StatusIs DEF Abstract!Running
<1>3. Abstract!InFlight = Abstract!Running \cup Queued
  <2>1. Queued \subseteq Requests
    BY <1>1 DEF Queued, Range
  <2>2. \A r \in Requests : Status(r) \in {"queued", "running"} <=> r \in Queued \/ OnWorker(r)
    BY <1>1, StatusIs
  <2>. QED BY <1>2, <2>1, <2>2 DEF Abstract!InFlight
<1>4. IsFiniteSet(Queued) /\ Cardinality(Queued) <= Len(tasks)
  BY <1>1, RangeCardinality DEF Queued
<1>5. IsFiniteSet(Abstract!Running) /\ Cardinality(Abstract!Running) <= Cardinality(Jobs)
  <2>. DEFINE f == [w \in Jobs |-> job[w]]
  <2>1. f \in Surjection(Jobs, Abstract!Running)
    BY <1>1, <1>2, PoolAssumption DEF Surjection, Jobs, OnWorker
  <2>. QED BY <2>1, CountsAreNumbers, FS_Surjection
<1>6. /\ IsFiniteSet(Abstract!InFlight)
      /\ Cardinality(Abstract!InFlight) <= Cardinality(Abstract!Running) + Cardinality(Queued)
  <2>1. IsFiniteSet(Abstract!Running \cap Queued) 
    BY <1>4, FS_Subset
  <2>2. Cardinality(Abstract!Running \cap Queued) \in Nat
    BY <2>1, FS_CardinalityType
  <2>3. Cardinality(Abstract!Running) \in Nat /\ Cardinality(Queued) \in Nat
    BY <1>4, <1>5, FS_CardinalityType
  <2>4. /\ IsFiniteSet(Abstract!Running \cup Queued)
        /\ Cardinality(Abstract!Running \cup Queued) =
             Cardinality(Abstract!Running) + Cardinality(Queued)
               - Cardinality(Abstract!Running \cap Queued)
    BY <1>4, <1>5, FS_Union
  <2>. QED BY <1>3, <2>2, <2>3, <2>4
<1>. QED
  <2>1. /\ Cardinality(Abstract!Running) \in Nat /\ Cardinality(Queued) \in Nat
        /\ Cardinality(Abstract!InFlight) \in Nat /\ Len(tasks) \in Nat
    BY <1>1, <1>4, <1>5, <1>6, FS_CardinalityType
  <2>. QED BY <1>4, <1>5, <1>6, <2>1, CountsAreNumbers

(* What callers see of a request changes only when it moves.               *)
LEMMA StatusUntouched ==
  ASSUME Placed, NEW q \in Requests, Untouched(q)
  PROVE  Status(q)' = Status(q)
<1>1. OnWorker(q)' <=> OnWorker(q)
  BY DEF Untouched, OnWorker
<1>. QED BY <1>1 DEF Untouched, Status, Ran

(* A step that moves one request is the abstract step of that request.     *)
LEMMA OneMoves ==
  ASSUME NEW r \in Requests, NEW new,
         \A q \in Requests : q # r => Status(q)' = Status(q),
         Status(r)' = new
  PROVE  [q \in Requests |-> Status(q)]' = [[q \in Requests |-> Status(q)] EXCEPT ![r] = new]
OBVIOUS

(* Nothing that callers see has changed.                                   *)
LEMMA NoneMoves ==
  ASSUME \A q \in Requests : Status(q)' = Status(q), closed' = closed, StopReturned' = StopReturned
  PROVE  UNCHANGED Abstract!vars
BY DEF Abstract!vars

(* A call is admitted by its send, within the budget of an open pool, and  *)
(* shed by each of its error returns.                                      *)
LEMMA CallRefines ==
  ASSUME PoolInv, PoolInv', NEW r \in Requests, GateAllow(r) \/ GateRefuse(r) \/ CallStep(r)
  PROVE  [Abstract!Next]_(Abstract!vars)
<1>1. Placed /\ Placed' /\ Typed /\ PlaceOK(r) /\ PlaceOK(r)'
  BY DEF PoolInv, ChannelInv, Placed
<1>2. /\ pc \in [Requests -> CallPCs] /\ result \in [Requests -> Sheds \cup {"none", "ok"}]
      /\ tasks \in Seq(Requests)
  BY <1>1 DEF Typed, TypeOK
<1>3. closed' = closed /\ stop' = stop /\ job' = job
  BY DEF workVars, GateAllow, GateRefuse, CallStep, AcquireToken, AcquireFail, RLockOpen,
         RLockClosed, Send, Accept, WaitDone
<1>4. StopReturned' = StopReturned /\ OnWorker(r)' = OnWorker(r)
  BY <1>3 DEF StopReturned, OnWorker
<1>5. \A q \in Requests : q # r => Status(q)' = Status(q)
  BY <1>1, CallTouchesOne, StatusUntouched
<1>6. pc[r] \in {"new", "acquire", "token", "sending"} => Outside(r) /\ Status(r) = "new"
  BY <1>1, StatusOf DEF PlaceOK, Refused, InChannel, Past, HeldBy, Inside
<1>7. CASE Send(r)
  <2>1. pc[r] = "sending" /\ pc'[r] = "sent" /\ tasks' = Append(tasks, r) /\ result' = result
    BY <1>2, <1>7 DEF Send, Goto
  <2>2. Status(r) = "new" /\ result[r] = "none" /\ r \in Range(Append(tasks, r))
    BY <1>2, <1>6, <2>1, RangeAppend DEF Outside
  <2>3. Status(r)' = "queued"
    BY <2>1, <2>2, <1>1 DEF Status, Queued, Sheds, Ran, PlaceOK, Outside, Refused, InChannel, Past, HeldBy
  <2>4. ~closed
    BY <2>1 DEF PoolInv, ChannelInv, NoSendOnClosed
  <2>5. Cardinality(Abstract!InFlight) < Capacity
    <3>1. r \in Carriers /\ TokenAccounting /\ sem \in 0 .. Capacity
      BY <2>1 DEF Carriers, PoolInv, ChannelInv, Typed, TypeOK
    <3>2. Cardinality(Carriers) # 0
      BY <3>1, CountsAreNumbers, FS_EmptySet
    <3>3. Cardinality(Abstract!InFlight) \in Nat /\ Len(tasks) \in Nat
      BY <1>2, InFlightBound, FS_CardinalityType
    <3>. QED BY <3>1, <3>2, <3>3, InFlightBound, CountsAreNumbers, CapacityType DEF TokenAccounting
  <2>6. Abstract!Become(r, "new", "queued")
    BY <1>3, <1>4, <1>5, <2>2, <2>3, OneMoves DEF Abstract!Become
  <2>7. Abstract!Admit(r)
    BY <2>4, <2>5, <2>6, SameCardinality DEF Abstract!Admit
  <2>. QED BY <2>7 DEF Abstract!Next
<1>8. CASE GateRefuse(r) \/ AcquireFail(r) \/ RLockClosed(r)
  <2>1. Status(r) = "new"
    BY <1>6, <1>8 DEF GateRefuse, AcquireFail, RLockClosed, Return, Goto
  <2>2. result'[r] \in Sheds
    BY <1>2, <1>8 DEF GateRefuse, AcquireFail, RLockClosed, Return, Sheds
  <2>3. Status(r)' = "shed"
    BY <1>1, <2>2 DEF Status, Ran, PlaceOK, Outside, Refused, InChannel, Past, HeldBy, Inside, Sheds
  <2>4. Abstract!Become(r, "new", "shed")
    BY <1>3, <1>4, <1>5, <2>1, <2>3, OneMoves DEF Abstract!Become
  <2>. QED BY <2>4 DEF Abstract!Next, Abstract!Shed
<1>9. CASE GateAllow(r) \/ AcquireToken(r) \/ RLockOpen(r) \/ Accept(r) \/ WaitDone(r)
  <2>1. tasks' = tasks
    BY <1>9 DEF GateAllow, AcquireToken, RLockOpen, Accept, WaitDone
  <2>2. r \in Queued' <=> r \in Queued
    BY <2>1 DEF Queued
  <2>3. CASE GateAllow(r) \/ AcquireToken(r) \/ RLockOpen(r)
    <3>1. Outside(r) /\ Status(r) = "new" /\ result' = result
      BY <1>6, <2>3 DEF GateAllow, AcquireToken, RLockOpen, Goto
    <3>2. pc'[r] \in {"acquire", "token", "sending"}
      BY <1>2, <2>3 DEF GateAllow, AcquireToken, RLockOpen, Goto
    <3>3. Status(r)' = "new"
      BY <1>4, <2>2, <3>1, <3>2 DEF Status, Outside, Ran, Sheds
    <3>. QED BY <1>3, <1>4, <1>5, <3>1, <3>3, NoneMoves
  <2>4. CASE Accept(r) \/ WaitDone(r)
    <3>1. /\ pc[r] \in {"sent", "waiting"} /\ pc'[r] \in {"waiting", "returned"}
          /\ result'[r] \in {result[r], "ok"}
      BY <1>2, <2>4 DEF Accept, WaitDone, Goto, Return
    <3>2. result[r] \notin Sheds /\ result'[r] \notin Sheds
      BY <1>1, <3>1 DEF PlaceOK, Outside, Refused, InChannel, Past, HeldBy, Inside, Sheds
    <3>3. r \in Ran /\ (r \in Ran)'
      BY <3>1, <3>2 DEF Ran
    <3>4. Status(r)' = Status(r)
      BY <1>4, <2>2, <3>2, <3>3 DEF Status
    <3>. QED BY <1>3, <1>4, <1>5, <3>4, NoneMoves
  <2>. QED BY <1>9, <2>3, <2>4
<1>. QED BY <1>7, <1>8, <1>9 DEF CallStep

(* A worker starts what it receives, while no more than the others hold    *)
(* something, and finishes it when it gives the token back.                *)
LEMMA WorkerRefines ==
  ASSUME PoolInv, PoolInv', NEW w \in Workers, WorkerStep(w)
  PROVE  [Abstract!Next]_(Abstract!vars)
<1>1. Placed /\ Placed' /\ Typed
  BY DEF PoolInv, ChannelInv
<1>2. /\ worker \in [Workers -> WorkerPCs] /\ job \in [Workers -> Requests \cup {None}]
      /\ tasks \in Seq(Requests) /\ JobOK
  BY <1>1 DEF Typed, TypeOK
<1>3. closed' = closed /\ stop' = stop /\ pc' = pc /\ result' = result
  BY DEF callVars, WorkerStep, Receive, Start, BodyEnd, Settle, Release, Exit
<1>4. StopReturned' = StopReturned
  BY <1>3 DEF StopReturned
<1>5. CASE Receive(w)
  <2>1. /\ tasks # <<>> /\ IsInjective(tasks) /\ job' = [job EXCEPT ![w] = Head(tasks)]
        /\ tasks' = Tail(tasks) /\ worker[w] = "idle"
    BY <1>1, <1>5 DEF Receive, Step, Placed
  <2>2. PICK h \in Requests : h = Head(tasks) /\ h \in Queued
    BY <1>2, <2>1, RangeTail DEF Queued
  <2>3. \A q \in Requests : q # h => Status(q)' = Status(q)
    BY <1>1, <1>5, <2>2, WorkerTouchesOne, StatusUntouched
  <2>4. Status(h) = "queued"
    BY <1>1, <2>2, StatusIs
  <2>5. Status(h)' = "running"
    <3>1. OnWorker(h)'
      BY <1>2, <2>1, <2>2 DEF OnWorker
    <3>2. PlaceOK(h)'
      BY <1>1 DEF Placed
    <3>. QED BY <3>1, <3>2 DEF Status, Ran, PlaceOK, Outside, Refused, InChannel, Past, HeldBy, Inside
  <2>6. Cardinality(Abstract!Running) < Cardinality(Workers)
    <3>1. Jobs \subseteq Workers \ {w}
      BY <1>2, <2>1 DEF Jobs, JobOK
    <3>2. /\ IsFiniteSet(Workers \ {w}) /\ Cardinality(Workers \ {w}) = Cardinality(Workers) - 1
          /\ Cardinality(Workers) \in Nat
      BY PoolAssumption, FS_RemoveElement, FS_CardinalityType
    <3>3. Cardinality(Jobs) <= Cardinality(Workers) - 1
      BY <3>1, <3>2, FS_Subset
    <3>4. Cardinality(Abstract!Running) \in Nat
      BY InFlightBound, FS_CardinalityType
    <3>. QED BY <3>2, <3>3, <3>4, InFlightBound, CountsAreNumbers
  <2>7. Abstract!Become(h, "queued", "running")
    BY <1>3, <1>4, <2>3, <2>4, <2>5, OneMoves DEF Abstract!Become
  <2>. QED BY <2>6, <2>7, SameCardinality DEF Abstract!Next, Abstract!Start
<1>6. CASE Release(w)
  <2>1. PICK r \in Requests : r = job[w]
    BY <1>2, <1>6 DEF Release, Step, JobOK
  <2>2. tasks' = tasks /\ job' = [job EXCEPT ![w] = None]
    BY <1>6 DEF Release
  <2>3. \A q \in Requests : q # r => Status(q)' = Status(q)
    BY <1>1, <1>6, <2>1, WorkerTouchesOne, StatusUntouched DEF Release, Receive, Step
  <2>4. Status(r) = "running" /\ HeldBy(r, w)
    BY <1>1, <2>1, StatusOf DEF Placed, PlaceOK, Outside, Refused, InChannel, Past, HeldBy, OnWorker
  <2>5. Status(r)' = "done"
    <3>1. ~OnWorker(r)' /\ (r \in Queued') = (r \in Queued) /\ (r \in Ran)' = (r \in Ran)
      BY <1>2, <1>3, <2>1, <2>2, <2>4, PoolAssumption DEF OnWorker, HeldBy, Queued, Ran
    <3>. QED BY <1>3, <2>4, <3>1 DEF Status, HeldBy, Inside, Ran
  <2>6. Abstract!Become(r, "running", "done")
    BY <1>3, <1>4, <2>3, <2>4, <2>5, OneMoves DEF Abstract!Become
  <2>. QED BY <2>6 DEF Abstract!Next, Abstract!Finish
<1>7. CASE Start(w) \/ BodyEnd(w) \/ Settle(w) \/ Exit(w)
  <2>1. tasks' = tasks /\ job' = job
    BY <1>7 DEF Start, BodyEnd, Settle, Exit
  <2>2. \A q \in Requests : Status(q)' = Status(q)
    BY <1>3, <2>1 DEF Status, Queued, OnWorker, Ran
  <2>. QED BY <1>3, <1>4, <2>2, NoneMoves
<1>. QED BY <1>5, <1>6, <1>7 DEF WorkerStep

(* The channel is closed once, and when a call of Stop returns nothing is  *)
(* in flight.                                                              *)
LEMMA StopRefines ==
  ASSUME PoolInv, NEW s \in Stoppers, StopBegin(s) \/ StopJoin(s) \/ StopStep(s)
  PROVE  [Abstract!Next]_(Abstract!vars)
<1>1. UNCHANGED <<callVars, tasks, workVars>> /\ stop \in [Stoppers -> StopPCs]
  BY DEF StopBegin, StopJoin, StopStep, StopClose, StopReturn, StopJoined, PoolInv, ChannelInv,
         Typed, TypeOK
<1>2. \A q \in Requests : Status(q)' = Status(q)
  BY <1>1 DEF callVars, workVars, Status, Queued, OnWorker, Ran
<1>3. [q \in Requests |-> Status(q)]' = [q \in Requests |-> Status(q)]
  BY <1>2
<1>4. CASE StopClose(s)
  <2>1. stop[s] = "locking" /\ closed' = TRUE
    BY <1>4 DEF StopClose, StopGoto
  <2>2. ~closed
    <3>1. \A t \in Stoppers : t # s => stop[t] \in {"idle", "joining"}
      BY <2>1 DEF PoolInv, StopInv
    <3>. QED BY <2>1, <3>1 DEF PoolInv, StopInv
  <2>3. StopReturned' = StopReturned
    BY <1>1, <1>4 DEF StopClose, StopGoto, StopReturned
  <2>4. Abstract!Close
    BY <1>3, <2>1, <2>2, <2>3 DEF Abstract!Close
  <2>. QED BY <2>4 DEF Abstract!Next
<1>5. CASE StopReturn(s)
  <2>1. /\ \A w \in Workers : worker[w] = "exited" /\ job[w] = None
        /\ closed' = closed /\ closed
    BY <1>5 DEF StopReturn, StopGoto, PoolInv, ChannelInv, Typed, JobOK, StopInv
  <2>2. tasks = <<>>
    BY <2>1, PoolAssumption DEF PoolInv, StopInv
  <2>3. Abstract!InFlight = {}
    <3>1. \A r \in Requests : r \notin Queued /\ ~OnWorker(r)
      BY <2>1, <2>2, PoolAssumption DEF Queued, Range, OnWorker
    <3>2. \A r \in Requests : Status(r) \notin {"queued", "running"}
      BY <3>1, StatusIs DEF PoolInv
    <3>. QED BY <3>2 DEF Abstract!InFlight
  <2>4. StopReturned'
    BY <1>1, <1>5 DEF StopReturn, StopGoto, StopReturned
  <2>5. Abstract!StopReturn
    BY <1>3, <2>1, <2>3, <2>4 DEF Abstract!StopReturn
  <2>. QED BY <2>5 DEF Abstract!Next
<1>6. CASE StopBegin(s) \/ StopJoin(s) \/ StopJoined(s)
  <2>1. closed' = closed /\ StopReturned' = StopReturned
    BY <1>1, <1>6 DEF StopBegin, StopJoin, StopJoined, StopGoto, StopReturned
  <2>. QED BY <1>2, <2>1, NoneMoves
<1>. QED BY <1>4, <1>5, <1>6 DEF StopStep

(* The pool implements the shedding queue: every execution of the pool, as *)
(* its callers see it, is one of the abstract queue with a budget of       *)
(* Capacity, Workers tasks at a time, and no drops.                        *)
THEOREM PoolRefinesQueue == Spec => ImplementsSheddingQueue
<1>1. Init => Abstract!Init
  <2>. SUFFICES ASSUME Init PROVE Abstract!Init
    OBVIOUS
  <2>1. \A r \in Requests : Status(r) = "new"
    BY PoolAssumption DEF Init, Status, Queued, Range, OnWorker, Ran, Sheds
  <2>2. ~StopReturned
    BY DEF Init, StopReturned
  <2>. QED BY <2>1, <2>2 DEF Init, Abstract!Init
<1>2. PoolInv /\ PoolInv' /\ [Next]_vars => [Abstract!Next]_(Abstract!vars)
  <2>. SUFFICES ASSUME PoolInv, PoolInv', [Next]_vars PROVE [Abstract!Next]_(Abstract!vars)
    OBVIOUS
  <2>1. CASE UNCHANGED vars
    <3>1. \A q \in Requests : Status(q)' = Status(q)
      BY <2>1 DEF vars, Status, Queued, OnWorker, Ran
    <3>2. closed' = closed /\ StopReturned' = StopReturned
      BY <2>1 DEF vars, StopReturned
    <3>. QED BY <3>1, <3>2, NoneMoves
  <2>. QED BY <2>1, CallRefines, WorkerRefines, StopRefines DEF Next, Rest
<1>. QED BY <1>1, <1>2, PoolInvariant, PTL DEF Spec, Abstract!Spec, ImplementsSheddingQueue
=============================================================================
