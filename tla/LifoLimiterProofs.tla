------------------------- MODULE LifoLimiterProofs -------------------------
(***************************************************************************)
(* LifoBlockingLimiter for every number of requests, every backlog size    *)
(* and every set of limits: the delegate's promises hold under it, its     *)
(* backlog is exact, and no permit is lost between the timer and unblock.  *)
(***************************************************************************)
EXTENDS LifoLimiter, TLAPS, FiniteSetTheorems, SequenceTheorems

(* What joining and leaving the backlog does to the set of its waiters.    *)

(* A waiter added in front joins the backlog.                              *)
LEMMA RangePrepend ==
  ASSUME NEW S, NEW s \in Seq(S), NEW x \in S
  PROVE  /\ <<x>> \o s \in Seq(S) /\ Len(<<x>> \o s) = Len(s) + 1
         /\ Range(<<x>> \o s) = Range(s) \cup {x}
         /\ IsInjective(s) /\ x \notin Range(s) => IsInjective(<<x>> \o s)
<1>. DEFINE t == <<x>> \o s
<1>1. /\ DOMAIN s = 1 .. Len(s) /\ DOMAIN t = 1 .. Len(s) + 1 /\ Len(s) \in Nat
      /\ t \in Seq(S) /\ Len(t) = Len(s) + 1
      /\ \A i \in 1 .. Len(s) : t[i + 1] = s[i]
      /\ t[1] = x
  OBVIOUS
<1>. HIDE DEF t
<1>2. ASSUME NEW y \in Range(t) PROVE y \in Range(s) \cup {x}
  <2>1. PICK i \in 1 .. Len(s) + 1 : y = t[i]
    BY <1>1, <1>2 DEF Range
  <2>2. ASSUME i # 1 PROVE i - 1 \in DOMAIN s /\ y = s[i - 1]
    <3>1. i - 1 \in 1 .. Len(s) /\ (i - 1) + 1 = i
      BY <1>1, <2>2
    <3>. QED BY <1>1, <2>1, <3>1
  <2>. QED BY <1>1, <2>1, <2>2 DEF Range
<1>3. ASSUME NEW y \in Range(s) \cup {x} PROVE y \in Range(t)
  <2>1. CASE y = x
    BY <1>1, <2>1 DEF Range
  <2>2. ASSUME NEW i \in 1 .. Len(s), y = s[i] PROVE y \in Range(t)
    <3>1. i + 1 \in DOMAIN t /\ y = t[i + 1]
      BY <1>1, <2>2
    <3>. QED BY <3>1 DEF Range
  <2>. QED BY <1>1, <1>3, <2>1, <2>2 DEF Range
<1>4. ASSUME IsInjective(s), x \notin Range(s) PROVE IsInjective(t)
  <2>. SUFFICES ASSUME NEW i \in 1 .. Len(s) + 1, NEW j \in 1 .. Len(s) + 1, t[i] = t[j] PROVE i = j
    BY <1>1 DEF IsInjective
  <2>1. \A k \in 2 .. Len(s) + 1 : t[k] # x /\ k - 1 \in 1 .. Len(s) /\ t[k] = s[k - 1]
    <3>. TAKE k \in 2 .. Len(s) + 1
    <3>1. k - 1 \in 1 .. Len(s) /\ (k - 1) + 1 = k
      BY <1>1
    <3>2. t[k] = s[k - 1]
      BY <1>1, <3>1
    <3>. QED BY <1>1, <1>4, <3>1, <3>2 DEF Range
  <2>2. \A k, l \in 1 .. Len(s) : s[k] = s[l] => k = l
    BY <1>1, <1>4 DEF IsInjective
  <2>3. CASE i = 1 \/ j = 1
    BY <1>1, <2>1, <2>3
  <2>4. CASE i # 1 /\ j # 1
    <3>1. i - 1 = j - 1
      BY <1>1, <2>1, <2>2, <2>4
    <3>. QED BY <3>1
  <2>. QED BY <2>3, <2>4
<1>. QED BY <1>1, <1>2, <1>3, <1>4 DEF t

(* What is left, place by place, when one element is taken out.            *)
LEMMA RemoveElements ==
  ASSUME NEW S, NEW s \in Seq(S), NEW k \in 1 .. Len(s)
  PROVE  LET t == SubSeq(s, 1, k - 1) \o SubSeq(s, k + 1, Len(s))
         IN  /\ DOMAIN s = 1 .. Len(s) /\ Len(s) \in Nat
             /\ t \in Seq(S) /\ Len(t) = Len(s) - 1 /\ DOMAIN t = 1 .. Len(s) - 1
             /\ \A i \in 1 .. Len(s) - 1 : t[i] = IF i < k THEN s[i] ELSE s[i + 1]
             /\ \A i \in 1 .. Len(s) : s[i] \in S
<1>1. DOMAIN s = 1 .. Len(s) /\ Len(s) \in Nat /\ \A i \in 1 .. Len(s) : s[i] \in S
  OBVIOUS
<1>. DEFINE a == SubSeq(s, 1, k - 1)
<1>. DEFINE b == SubSeq(s, k + 1, Len(s))
<1>2. a \in Seq(S) /\ Len(a) = k - 1 /\ \A i \in 1 .. k - 1 : a[i] = s[i]
  OBVIOUS
<1>3. b \in Seq(S) /\ Len(b) = Len(s) - k /\ \A i \in 1 .. Len(s) - k : b[i] = s[i + k]
  OBVIOUS
<1>. HIDE DEF a, b
<1>4. /\ a \o b \in Seq(S) /\ Len(a \o b) = Len(a) + Len(b)
      /\ \A i \in 1 .. Len(a) + Len(b) :
           (a \o b)[i] = IF i <= Len(a) THEN a[i] ELSE b[i - Len(a)]
  BY <1>2, <1>3, ConcatProperties
<1>5. Len(a) + Len(b) = Len(s) - 1 /\ Len(a) = k - 1
  BY <1>1, <1>2, <1>3
<1>6. DOMAIN (a \o b) = 1 .. Len(s) - 1
  BY <1>4, <1>5
<1>7. ASSUME NEW i \in 1 .. Len(s) - 1
      PROVE  (a \o b)[i] = IF i < k THEN s[i] ELSE s[i + 1]
  <2>1. (a \o b)[i] = IF i <= k - 1 THEN a[i] ELSE b[i - (k - 1)]
    BY <1>4, <1>5
  <2>2. CASE i < k
    <3>1. i \in 1 .. k - 1
      BY <2>2
    <3>. QED BY <1>2, <2>1, <3>1, <2>2
  <2>3. CASE ~(i < k)
    <3>1. i - (k - 1) \in 1 .. Len(s) - k /\ (i - (k - 1)) + k = i + 1 /\ ~(i <= k - 1)
      BY <1>1, <2>3
    <3>2. b[i - (k - 1)] = s[i + 1]
      BY <1>3, <3>1
    <3>. QED BY <2>1, <2>3, <3>1, <3>2
  <2>. QED BY <2>2, <2>3
<1>. QED BY <1>1, <1>4, <1>5, <1>6, <1>7 DEF a, b

(* Taking one element out of the middle takes that one only.               *)
LEMMA RangeRemove ==
  ASSUME NEW S, NEW s \in Seq(S), IsInjective(s), NEW k \in 1 .. Len(s)
  PROVE  LET t == SubSeq(s, 1, k - 1) \o SubSeq(s, k + 1, Len(s))
         IN  /\ t \in Seq(S) /\ Len(t) = Len(s) - 1
             /\ Range(t) = Range(s) \ {s[k]}
             /\ IsInjective(t)
<1>. DEFINE t == SubSeq(s, 1, k - 1) \o SubSeq(s, k + 1, Len(s))
<1>1. /\ DOMAIN s = 1 .. Len(s) /\ Len(s) \in Nat
      /\ t \in Seq(S) /\ Len(t) = Len(s) - 1 /\ DOMAIN t = 1 .. Len(s) - 1
      /\ \A i \in 1 .. Len(s) - 1 : t[i] = IF i < k THEN s[i] ELSE s[i + 1]
  BY RemoveElements
<1>. HIDE DEF t
<1>2. \A i, j \in 1 .. Len(s) : s[i] = s[j] => i = j
  BY <1>1 DEF IsInjective
<1>3. ASSUME NEW y \in Range(t) PROVE y \in Range(s) \ {s[k]}
  <2>1. PICK i \in 1 .. Len(s) - 1 : y = t[i]
    BY <1>1, <1>3 DEF Range
  <2>2. PICK j \in 1 .. Len(s) : j # k /\ y = s[j]
    <3>1. CASE i < k 
      BY <1>1, <2>1, <3>1
    <3>2. CASE ~(i < k) 
      <4>1. i + 1 \in 1 .. Len(s) /\ i + 1 # k /\ y = s[i + 1]
        BY <1>1, <2>1, <3>2
      <4>. QED BY <4>1
    <3>. QED BY <3>1, <3>2
  <2>. QED BY <1>1, <1>2, <2>2 DEF Range
<1>4. ASSUME NEW y \in Range(s) \ {s[k]} PROVE y \in Range(t)
  <2>1. PICK j \in 1 .. Len(s) : y = s[j]
    BY <1>1, <1>4 DEF Range
  <2>2. CASE j < k
    <3>1. j \in DOMAIN t /\ y = t[j]
      BY <1>1, <2>1, <2>2
    <3>. QED BY <3>1 DEF Range
  <2>3. CASE j > k
    <3>1. j - 1 \in DOMAIN t /\ y = t[j - 1]
      <4>1. j - 1 \in 1 .. Len(s) - 1 /\ ~(j - 1 < k) /\ (j - 1) + 1 = j
        BY <1>1, <2>3
      <4>. QED BY <1>1, <2>1, <4>1
    <3>. QED BY <3>1 DEF Range
  <2>. QED BY <1>4, <2>1, <2>2, <2>3
<1>5. IsInjective(t)
  <2>. SUFFICES ASSUME NEW i \in 1 .. Len(s) - 1, NEW j \in 1 .. Len(s) - 1, t[i] = t[j] PROVE i = j
    BY <1>1 DEF IsInjective
  <2>. QED BY <1>1, <1>2
<1>. QED BY <1>1, <1>3, <1>4, <1>5 DEF t

(* The first waiter leaves in the same way.                                *)
LEMMA RangeTail ==
  ASSUME NEW S, NEW s \in Seq(S), s # <<>>, IsInjective(s)
  PROVE  /\ Head(s) \in Range(s)
         /\ Range(Tail(s)) = Range(s) \ {Head(s)}
         /\ IsInjective(Tail(s))
<1>1. /\ Len(s) \in Nat \ {0} /\ DOMAIN s = 1 .. Len(s) /\ Head(s) = s[1]
      /\ Tail(s) \in Seq(S) /\ Len(Tail(s)) = Len(s) - 1
      /\ \A i \in 1 .. Len(s) - 1 : Tail(s)[i] = s[i + 1]
  OBVIOUS
<1>2. PICK k \in 1 .. Len(s) : k = 1
  BY <1>1
<1>. DEFINE t == SubSeq(s, 1, k - 1) \o SubSeq(s, k + 1, Len(s))
<1>3. /\ t \in Seq(S) /\ Len(t) = Len(s) - 1
      /\ \A i \in 1 .. Len(s) - 1 : t[i] = IF i < k THEN s[i] ELSE s[i + 1]
      /\ Range(t) = Range(s) \ {s[k]} /\ IsInjective(t)
  <2>1. /\ t \in Seq(S) /\ Len(t) = Len(s) - 1
        /\ \A i \in 1 .. Len(s) - 1 : t[i] = IF i < k THEN s[i] ELSE s[i + 1]
    BY RemoveElements
  <2>2. Range(t) = Range(s) \ {s[k]} /\ IsInjective(t)
    BY RangeRemove
  <2>. QED BY <2>1, <2>2
<1>. HIDE DEF t
<1>4. t = Tail(s)
  BY <1>1, <1>2, <1>3, SeqEqual
<1>5. Head(s) \in Range(s)
  BY <1>1, <1>2 DEF Range
<1>. QED BY <1>1, <1>2, <1>3, <1>4, <1>5

-----------------------------------------------------------------------------
(* What is proved about the delegate.                                      *)
Simple == INSTANCE SimpleLimiterProofs WITH Calls <- Attempts

(* The calls of the delegate's Acquire are finitely many.                  *)
LEMMA AttemptsFinite ==
  IsFiniteSet(Attempts) /\ Cardinality(Requests) <= Cardinality(Attempts)
<1>1. {"try", "unblock"} = {"try"} \cup {"unblock"}
  OBVIOUS
<1>2. IsFiniteSet({"try"}) /\ IsFiniteSet({"unblock"})
  BY FS_Singleton
<1>3. IsFiniteSet({"try", "unblock"})
  BY <1>1, <1>2, FS_Union
<1>4. IsFiniteSet(Attempts)
  BY <1>3, LifoAssumption, FS_Product DEF Attempts
<1>5. Cardinality(Requests) <= Cardinality(Attempts)
  <2>. DEFINE f == [r \in Requests |-> Try(r)]
  <2>1. f \in Injection(Requests, Attempts)
    BY DEF Injection, IsInjective, Attempts, Try
  <2>. QED BY <1>4, <2>1, FS_Injection
<1>. QED BY <1>4, <1>5

(* So the delegate's assumption holds, and what is proved about it.        *)
LEMMA DelegateAssumed == Simple!SimpleLimiterAssumption
BY AttemptsFinite, LifoAssumption
   DEF Simple!SimpleLimiterAssumption, Simple!IsFiniteSet, IsFiniteSet

(* Attempts of two requests, or of two places, are different.              *)
LEMMA AttemptFacts ==
  /\ \A r \in Requests : Try(r) \in Attempts /\ Hand(r) \in Attempts
  /\ \A q, r \in Requests : /\ Try(q) = Try(r) => q = r
                            /\ Hand(q) = Hand(r) => q = r
                            /\ Try(q) # Hand(r)
  /\ \A a \in Attempts : \E r \in Requests : a = Try(r) \/ a = Hand(r)
  /\ <<None>> \notin Attempts
<1>1. \A r \in Requests : Try(r) \in Attempts /\ Hand(r) \in Attempts
  BY DEF Try, Hand, Attempts
<1>2. \A q, r \in Requests : /\ Try(q) = Try(r) => q = r
                             /\ Hand(q) = Hand(r) => q = r
                             /\ Try(q) # Hand(r)
  BY DEF Try, Hand
<1>3. \A a \in Attempts : \E r \in Requests : a = Try(r) \/ a = Hand(r)
  BY DEF Try, Hand, Attempts
<1>4. <<None>> \notin Attempts
  <2>. SUFFICES ASSUME NEW r \in Requests, NEW x \in {"try", "unblock"}, <<None>> = <<r, x>>
                PROVE  FALSE
    BY DEF Attempts
  <2>1. Len(<<None>>) = 1 /\ Len(<<r, x>>) = 2
    OBVIOUS
  <2>. QED BY <2>1
<1>. QED BY <1>1, <1>2, <1>3, <1>4

-----------------------------------------------------------------------------
(* The inductive invariant.                                                *)

Issued == {"holding", "released", "finished"}

(* How far the delegate's calls of a request are.                          *)
CallsPlaced(r) ==
  /\ pc[r] = "new" => at[Try(r)] = "new"
  /\ pc[r] = "trying" <=> at[Try(r)] \in {"counted", "over"}
  /\ pc[r] \in {"refused", "waiting", "timedout", "shed"} => at[Try(r)] = "rejected"
  /\ pc[r] \notin {"handing", "returned"} => at[Hand(r)] = "new"
  /\ pc[r] = "handing" <=> at[Hand(r)] \in {"counted", "over"}

(* How far the listener of a request is.                                   *)
ListenerPlaced(r) ==
  /\ pc[r] \in {"new", "trying", "refused", "shed"} => ~Granted(r)
  /\ pc[r] \in {"holding", "sampling", "unblock", "handing", "returned"} => Granted(r)
  /\ Granted(r) =>
       /\ pc[r] \in {"waiting", "timedout", "holding"} => at[listener[r]] = "holding"
       /\ pc[r] = "sampling" => at[listener[r]] = "released"
       /\ pc[r] \in {"unblock", "handing", "returned"} => at[listener[r]] = "finished"

(* Every permit of the delegate has one owner.                             *)
OneOwner ==
  /\ \A a \in Attempts : at[a] \in Issued => \E r \in Requests : listener[r] = a
  /\ \A q, r \in Requests : Granted(q) /\ listener[q] = listener[r] => q = r

(* The lock is held across the delegate's call inside unblock, which found *)
(* a waiter.                                                               *)
LockHeld ==
  /\ \A r \in Requests : pc[r] = "handing" <=> mu = r
  /\ mu # None => backlog # <<>>

LifoInv ==
  /\ TypeOK
  /\ \A r \in Requests : CallsPlaced(r) /\ ListenerPlaced(r)
  /\ OneOwner /\ LockHeld /\ BacklogExact

-----------------------------------------------------------------------------
(* The invariant is inductive.                                             *)

(* A step of a request.                                                    *)
RequestStep(r) == TryStart(r) \/ AcquireStep(r) \/ Release(r) \/ FinishStep(r)

(* What the three operations on the backlog do.                            *)
LEMMA BacklogStep ==
  ASSUME LifoInv, NEW r \in Requests, RequestStep(r)
  PROVE  /\ backlog' \in Seq(Requests) /\ IsInjective(backlog') /\ Len(backlog') <= BacklogSize
         /\ Enqueue(r) => Range(backlog') = Range(backlog) \cup {r}
         /\ TimedOutShed(r) => Range(backlog') = Range(backlog) \ {r}
         /\ UnblockGrant(r) => /\ Head(backlog) \in Range(backlog)
                               /\ Range(backlog') = Range(backlog) \ {Head(backlog)}
         /\ Enqueue(r) \/ TimedOutShed(r) \/ UnblockGrant(r) \/ backlog' = backlog
<1>1. /\ backlog \in Seq(Requests) /\ IsInjective(backlog) /\ Len(backlog) <= BacklogSize
      /\ Range(backlog) = {q \in Waiters : ~Granted(q)}
  BY DEF LifoInv, TypeOK, BacklogExact
<1>2. Len(backlog) \in Nat /\ BacklogSize \in Nat
  BY <1>1, LifoAssumption
<1>3. CASE Enqueue(r)
  <2>1. backlog' = <<r>> \o backlog /\ Len(backlog) < BacklogSize /\ pc[r] = "refused"
    BY <1>3 DEF Enqueue, Goto
  <2>2. r \notin Range(backlog)
    BY <1>1, <2>1 DEF Waiters
  <2>3. /\ <<r>> \o backlog \in Seq(Requests) /\ Len(<<r>> \o backlog) = Len(backlog) + 1
        /\ Range(<<r>> \o backlog) = Range(backlog) \cup {r}
        /\ IsInjective(<<r>> \o backlog)
    BY <1>1, <2>2, RangePrepend
  <2>. QED BY <1>2, <1>3, <2>1, <2>3 DEF Enqueue, TimedOutShed, UnblockGrant, Goto
<1>4. CASE TimedOutShed(r)
  <2>1. pc[r] = "timedout" /\ ~Granted(r) /\ RemoveWaiter(r)
    BY <1>4 DEF TimedOutShed, Goto
  <2>2. r \in Range(backlog)
    BY <1>1, <2>1 DEF Waiters
  <2>3. PICK i \in DOMAIN backlog :
          backlog[i] = r /\ backlog' = SubSeq(backlog, 1, i - 1) \o SubSeq(backlog, i + 1, Len(backlog))
    BY <2>1, <2>2 DEF RemoveWaiter
  <2>4. i \in 1 .. Len(backlog)
    BY <1>1
  <2>5. /\ backlog' \in Seq(Requests) /\ Len(backlog') = Len(backlog) - 1
        /\ Range(backlog') = Range(backlog) \ {backlog[i]} /\ IsInjective(backlog')
    BY <1>1, <2>3, <2>4, RangeRemove
  <2>. QED BY <1>1, <1>2, <1>4, <2>3, <2>5 DEF Enqueue, TimedOutShed, UnblockGrant, Goto
<1>5. CASE UnblockGrant(r)
  <2>1. backlog # <<>> /\ backlog' = Tail(backlog)
    BY <1>5, LifoAssumption DEF UnblockGrant, Goto, LifoInv, LockHeld
  <2>2. /\ Head(backlog) \in Range(backlog) /\ Range(Tail(backlog)) = Range(backlog) \ {Head(backlog)}
        /\ IsInjective(Tail(backlog))
    BY <1>1, <2>1, RangeTail
  <2>3. Tail(backlog) \in Seq(Requests) /\ Len(Tail(backlog)) = Len(backlog) - 1
    BY <1>1, <2>1
  <2>. QED BY <1>1, <1>2, <1>5, <2>1, <2>2, <2>3 DEF Enqueue, TimedOutShed, UnblockGrant, Goto
<1>6. CASE ~Enqueue(r) /\ ~TimedOutShed(r) /\ ~UnblockGrant(r)
  <2>1. backlog' = backlog
    BY <1>6 DEF RequestStep, AcquireStep, FinishStep, TryStart, TryAdmit, TryExceed, TryRefused,
         BacklogFull, Ready, TimerFires, TimedOutAdmitted, Release, Sample, UnblockEmpty,
         UnblockStart, UnblockExceed, UnblockRefused
  <2>. QED BY <1>1, <1>6, <2>1
<1>. QED BY <1>3, <1>4, <1>5, <1>6

(* The steps that leave the delegate and the listeners alone.              *)
QueueStep(r) ==
  \/ BacklogFull(r) \/ Enqueue(r) \/ Ready(r) \/ TimerFires(r)
  \/ TimedOutAdmitted(r) \/ TimedOutShed(r) \/ UnblockEmpty(r)

(* Every other step is a step of the delegate.                             *)
LEMMA DelegateStep ==
  ASSUME LifoInv, NEW r \in Requests, RequestStep(r)
  PROVE  QueueStep(r) \/ \E a \in Attempts : Delegate!Step(a)
<1>1. Try(r) \in Attempts /\ Hand(r) \in Attempts
  BY AttemptFacts
<1>2. pc[r] \in {"holding", "sampling"} => listener[r] \in Attempts
  BY DEF LifoInv, ListenerPlaced, Granted, TypeOK
<1>3. CASE TryStart(r) \/ TryAdmit(r) \/ TryExceed(r) \/ TryRefused(r)
  BY <1>1, <1>3 DEF TryStart, TryAdmit, TryExceed, TryRefused, Delegate!Step
<1>4. CASE UnblockStart(r) \/ UnblockExceed(r) \/ UnblockRefused(r) \/ UnblockGrant(r)
  BY <1>1, <1>4 DEF UnblockStart, UnblockExceed, UnblockRefused, UnblockGrant, Delegate!Step
<1>5. CASE Release(r) \/ Sample(r)
  BY <1>2, <1>5 DEF Release, Sample, Goto, Delegate!Step
<1>. QED BY <1>3, <1>4, <1>5 DEF QueueStep, RequestStep, AcquireStep, FinishStep

(* Every step keeps the types.                                             *)
LEMMA TypeStep ==
  ASSUME LifoInv, NEW r \in Requests, RequestStep(r)
  PROVE  TypeOK'
<1>1. /\ at \in [Attempts -> Delegate!Places] /\ current \in [Attempts -> Int]
      /\ inflight \in Int /\ limit \in Limits /\ pc \in [Requests -> PCs]
      /\ mu \in Requests \cup {None} /\ listener \in [Requests -> Attempts \cup {<<None>>}]
  BY DEF LifoInv, TypeOK, Delegate!TypeOK
<1>2. Try(r) \in Attempts /\ Hand(r) \in Attempts
  BY AttemptFacts
<1>3. backlog' \in Seq(Requests)
  BY BacklogStep
<1>4. pc' \in [Requests -> PCs]
  <2>1. pc' = pc \/ \E p \in PCs : pc' = [pc EXCEPT ![r] = p]
    BY DEF PCs, Goto, RequestStep, AcquireStep, FinishStep, TryStart, TryAdmit, TryExceed, TryRefused,
         BacklogFull, Enqueue, Ready, TimerFires, TimedOutAdmitted, TimedOutShed, Release, Sample,
         UnblockEmpty, UnblockStart, UnblockExceed, UnblockRefused, UnblockGrant
  <2>. QED BY <1>1, <2>1
<1>5. mu' = mu \/ mu' = r \/ mu' = None
  BY DEF RequestStep, AcquireStep, FinishStep, TryStart, TryAdmit, TryExceed, TryRefused,
         BacklogFull, Enqueue, Ready, TimerFires, TimedOutAdmitted, TimedOutShed, Release, Sample,
         UnblockEmpty, UnblockStart, UnblockExceed, UnblockRefused, UnblockGrant
<1>6. listener' \in [Requests -> Attempts \cup {<<None>>}]
  <2>1. listener' = listener \/ \E q, a : a \in Attempts /\ listener' = [listener EXCEPT ![q] = a]
    BY <1>2 DEF RequestStep, AcquireStep, FinishStep, TryStart, TryAdmit, TryExceed, TryRefused,
         BacklogFull, Enqueue, Ready, TimerFires, TimedOutAdmitted, TimedOutShed, Release, Sample,
         UnblockEmpty, UnblockStart, UnblockExceed, UnblockRefused, UnblockGrant
  <2>. QED BY <1>1, <2>1
<1>7. Delegate!TypeOK'
  <2>. USE DEF Delegate!TypeOK, Delegate!Move, Delegate!Places
  <2>1. CASE QueueStep(r)
    <3>1. UNCHANGED delegateVars
      BY <2>1 DEF QueueStep, BacklogFull, Enqueue, Ready, TimerFires, TimedOutAdmitted,
                  TimedOutShed, UnblockEmpty
    <3>. QED BY <1>1, <3>1 DEF delegateVars
  <2>2. ASSUME NEW a \in Attempts, Delegate!Step(a) PROVE Delegate!TypeOK'
    <3>1. CASE Delegate!CountIn(a)  BY <1>1, <3>1 DEF Delegate!CountIn
    <3>2. CASE Delegate!Admit(a)    BY <1>1, <3>2 DEF Delegate!Admit
    <3>3. CASE Delegate!Exceed(a)   BY <1>1, <3>3 DEF Delegate!Exceed
    <3>4. CASE Delegate!CountOut(a) BY <1>1, <3>4 DEF Delegate!CountOut
    <3>5. CASE Delegate!Finish(a)   BY <1>1, <3>5 DEF Delegate!Finish, Delegate!limiterVars
    <3>6. CASE Delegate!Sample(a)   BY <1>1, <3>6 DEF Delegate!Sample
    <3>. QED BY <2>2, <3>1, <3>2, <3>3, <3>4, <3>5, <3>6 DEF Delegate!Step
  <2>. QED BY <2>1, <2>2, DelegateStep
<1>. QED BY <1>1, <1>3, <1>4, <1>5, <1>6, <1>7 DEF TypeOK

(* The backlog stays exact.                                                *)
LEMMA ExactStep ==
  ASSUME LifoInv, NEW r \in Requests, RequestStep(r)
  PROVE  BacklogExact'
<1>1. /\ pc \in [Requests -> PCs] /\ listener \in [Requests -> Attempts \cup {<<None>>}]
      /\ Range(backlog) = {q \in Waiters : ~Granted(q)} /\ ListenerPlaced(r)
  BY DEF LifoInv, TypeOK, BacklogExact
<1>. SUFFICES Range(backlog') = {q \in Waiters : ~Granted(q)}'
  BY BacklogStep DEF BacklogExact
<1>2. CASE Enqueue(r)
  BY <1>1, <1>2, BacklogStep DEF Enqueue, Goto, Waiters, Granted, ListenerPlaced
<1>3. CASE TimedOutShed(r)
  BY <1>1, <1>3, BacklogStep DEF TimedOutShed, Goto, Waiters, Granted
<1>4. CASE UnblockGrant(r)
  <2>1. PICK h \in Requests : h = Head(backlog) /\ h \in Waiters
    BY <1>1, <1>4, BacklogStep DEF Waiters
  <2>2. listener' = [listener EXCEPT ![h] = Hand(r)] /\ Hand(r) # <<None>>
    BY <1>4, <2>1, AttemptFacts DEF UnblockGrant
  <2>3. pc' = [pc EXCEPT ![r] = "returned"] /\ pc[r] = "handing"
    BY <1>4 DEF UnblockGrant, Goto
  <2>4. Range(backlog') = Range(backlog) \ {h}
    BY <1>4, <2>1, BacklogStep
  <2>. QED BY <1>1, <2>1, <2>2, <2>3, <2>4 DEF Waiters, Granted
<1>5. CASE TryAdmit(r)
  <2>1. backlog' = backlog
    BY <1>5 DEF TryAdmit
  <2>. QED BY <1>1, <1>5, <2>1 DEF TryAdmit, Goto, Waiters, Granted
<1>6. CASE ~Enqueue(r) /\ ~TimedOutShed(r) /\ ~UnblockGrant(r) /\ ~TryAdmit(r)
  <2>1. backlog' = backlog /\ listener' = listener
    BY <1>6 DEF RequestStep, AcquireStep, FinishStep, TryStart, TryExceed, TryRefused,
         BacklogFull, Ready, TimerFires, TimedOutAdmitted, Release, Sample, UnblockEmpty,
         UnblockStart, UnblockExceed, UnblockRefused
  <2>2. \/ pc' = pc
        \/ pc[r] = "waiting" /\ pc' = [pc EXCEPT ![r] = "timedout"]
        \/ \E p \in PCs : /\ pc[r] \notin {"waiting", "timedout"} \/ Ready(r) \/ TimedOutAdmitted(r)
                          /\ p \notin {"waiting", "timedout"} /\ pc' = [pc EXCEPT ![r] = p]
    BY <1>6 DEF RequestStep, AcquireStep, FinishStep, TryStart, TryExceed, TryRefused,
         BacklogFull, Ready, TimerFires, TimedOutAdmitted, Release, Sample, UnblockEmpty,
         UnblockStart, UnblockExceed, UnblockRefused, Goto, PCs
  <2>3. \/ Waiters' = Waiters
        \/ (Ready(r) \/ TimedOutAdmitted(r)) /\ Waiters' = Waiters \ {r}
    <3>1. ASSUME pc' = pc PROVE Waiters' = Waiters
      BY <3>1 DEF Waiters
    <3>2. ASSUME pc[r] = "waiting", pc' = [pc EXCEPT ![r] = "timedout"] PROVE Waiters' = Waiters
      <4>1. \A q \in Requests : pc'[q] \in {"waiting", "timedout"} <=> pc[q] \in {"waiting", "timedout"}
        BY <1>1, <3>2
      <4>. QED BY <4>1 DEF Waiters
    <3>3. ASSUME NEW p \in PCs, pc' = [pc EXCEPT ![r] = p], p \notin {"waiting", "timedout"}
          PROVE  Waiters' = Waiters \ {r} /\ (r \notin Waiters => Waiters' = Waiters)
      <4>1. \A q \in Requests : pc'[q] \in {"waiting", "timedout"}
                                <=> q # r /\ pc[q] \in {"waiting", "timedout"}
        BY <1>1, <3>3
      <4>. QED BY <4>1 DEF Waiters
    <3>. QED BY <2>2, <3>1, <3>2, <3>3 DEF Waiters
  <2>4. Ready(r) \/ TimedOutAdmitted(r) => Granted(r)
    BY DEF Ready, TimedOutAdmitted
  <2>. QED BY <1>1, <2>1, <2>3, <2>4 DEF Granted
<1>. QED BY <1>2, <1>3, <1>4, <1>5, <1>6

(* A finish or a sample moves the listener's call, which is behind its     *)
(* admission.                                                              *)
LEMMA ListenerMoves ==
  ASSUME LifoInv, NEW r \in Requests, Release(r) \/ Sample(r)
  PROVE  /\ listener[r] \in Attempts /\ at[listener[r]] \in {"holding", "released"}
         /\ at' = [at EXCEPT ![listener[r]] = IF Release(r) THEN "released" ELSE "finished"]
         /\ pc' = [pc EXCEPT ![r] = IF Release(r) THEN "sampling" ELSE "unblock"]
         /\ pc[r] = IF Release(r) THEN "holding" ELSE "sampling"
<1>1. pc[r] = IF Release(r) THEN "holding" ELSE "sampling"
  BY DEF Release, Sample, Goto
<1>2. /\ listener[r] \in Attempts
      /\ at[listener[r]] = IF Release(r) THEN "holding" ELSE "released"
  BY <1>1 DEF LifoInv, ListenerPlaced, Granted, TypeOK
<1>. QED BY <1>1, <1>2 DEF Release, Sample, Goto, Delegate!Finish, Delegate!Sample, Delegate!Move

(* The delegate's calls keep pace with the program counters.               *)
LEMMA CallsStep ==
  ASSUME LifoInv, NEW r \in Requests, RequestStep(r), NEW q \in Requests
  PROVE  CallsPlaced(q)'
<1>1. /\ at \in [Attempts -> Delegate!Places] /\ pc \in [Requests -> PCs]
      /\ CallsPlaced(q) /\ CallsPlaced(r)
  BY DEF LifoInv, TypeOK, Delegate!TypeOK
<1>2. /\ Try(r) \in Attempts /\ Hand(r) \in Attempts /\ Try(q) \in Attempts /\ Hand(q) \in Attempts
      /\ Try(q) # Hand(r) /\ Hand(q) # Try(r)
      /\ q # r => Try(q) # Try(r) /\ Hand(q) # Hand(r)
  BY AttemptFacts
<1>. USE DEF CallsPlaced, Goto, Delegate!Move
<1>3. CASE QueueStep(r)
  <2>1. UNCHANGED at
    BY <1>3 DEF QueueStep, BacklogFull, Enqueue, Ready, TimerFires, TimedOutAdmitted,
                TimedOutShed, UnblockEmpty, delegateVars
  <2>. QED BY <1>1, <1>3, <2>1 DEF QueueStep, BacklogFull, Enqueue, Ready, TimerFires, TimedOutAdmitted,
                          TimedOutShed, UnblockEmpty
<1>4. CASE TryStart(r)       BY <1>1, <1>2, <1>4 DEF TryStart, Delegate!CountIn
<1>5. CASE TryAdmit(r)       BY <1>1, <1>2, <1>5 DEF TryAdmit, Delegate!Admit
<1>6. CASE TryExceed(r)      BY <1>1, <1>2, <1>6 DEF TryExceed, Delegate!Exceed
<1>7. CASE TryRefused(r)     BY <1>1, <1>2, <1>7 DEF TryRefused, Delegate!CountOut
<1>8. CASE UnblockStart(r)   BY <1>1, <1>2, <1>8 DEF UnblockStart, Delegate!CountIn
<1>9. CASE UnblockGrant(r)   BY <1>1, <1>2, <1>9 DEF UnblockGrant, Delegate!Admit
<1>10. CASE UnblockExceed(r)  BY <1>1, <1>2, <1>10 DEF UnblockExceed, Delegate!Exceed
<1>11. CASE UnblockRefused(r) BY <1>1, <1>2, <1>11 DEF UnblockRefused, Delegate!CountOut
<1>12. CASE Release(r) \/ Sample(r)
  BY <1>1, <1>2, <1>12, ListenerMoves
<1>. QED BY <1>3, <1>4, <1>5, <1>6, <1>7, <1>8, <1>9, <1>10, <1>11, <1>12
     DEF QueueStep, RequestStep, AcquireStep, FinishStep

(* A listener stands for a call that the delegate admitted.                *)
LEMMA GrantedIssued ==
  ASSUME LifoInv, NEW q \in Requests, Granted(q)
  PROVE  listener[q] \in Attempts /\ at[listener[q]] \in Issued
<1>1. pc[q] \in PCs /\ listener[q] \in Attempts
  BY DEF LifoInv, TypeOK, Granted
<1>. QED BY <1>1 DEF LifoInv, ListenerPlaced, PCs, Issued

(* The one step of the delegate that issues a listener.                    *)
Grants(r) == TryAdmit(r) \/ UnblockGrant(r)

(* Steps that issue none keep every listener, and move calls which are not *)
(* issued, but for the finish and the sample of a listener.                *)
LEMMA NoGrant ==
  ASSUME LifoInv, NEW r \in Requests, RequestStep(r), ~Grants(r), ~Release(r), ~Sample(r)
  PROVE  /\ listener' = listener
         /\ \A a \in Attempts : /\ at[a] \in Issued => at'[a] = at[a]
                                /\ at'[a] \in Issued => at[a] \in Issued
<1>1. at \in [Attempts -> Delegate!Places]
  BY DEF LifoInv, TypeOK, Delegate!TypeOK
<1>. USE DEF Delegate!Move, Issued
<1>2. CASE QueueStep(r)
  BY <1>2 DEF QueueStep, BacklogFull, Enqueue, Ready, TimerFires, TimedOutAdmitted,
              TimedOutShed, UnblockEmpty, delegateVars
<1>3. CASE TryStart(r) \/ UnblockStart(r)
  BY <1>1, <1>3 DEF TryStart, UnblockStart, Delegate!CountIn
<1>4. CASE TryExceed(r) \/ UnblockExceed(r)
  BY <1>1, <1>4 DEF TryExceed, UnblockExceed, Delegate!Exceed
<1>5. CASE TryRefused(r) \/ UnblockRefused(r)
  BY <1>1, <1>5 DEF TryRefused, UnblockRefused, Delegate!CountOut
<1>. QED BY <1>2, <1>3, <1>4, <1>5 DEF Grants, QueueStep, RequestStep, AcquireStep, FinishStep

(* What a grant does: the admitted call becomes the listener of the caller *)
(* itself, or of the newest waiter, who has none.                          *)
LEMMA GrantMoves ==
  ASSUME LifoInv, NEW r \in Requests, Grants(r)
  PROVE  \E h \in Requests, a \in Attempts :
           /\ at[a] = "counted" /\ at' = [at EXCEPT ![a] = "holding"]
           /\ ~Granted(h) /\ listener' = [listener EXCEPT ![h] = a]
           /\ \A q \in Requests : q # h /\ q # r => pc'[q] = pc[q]
           /\ \/ h = r /\ pc'[h] = "holding"
              \/ h # r /\ pc[h] \in {"waiting", "timedout"} /\ pc'[h] = pc[h]
                 /\ pc[r] = "handing" /\ pc'[r] = "returned"
<1>1. /\ pc \in [Requests -> PCs] /\ ListenerPlaced(r) /\ RequestStep(r)
      /\ Range(backlog) = {q \in Waiters : ~Granted(q)}
  BY DEF LifoInv, TypeOK, BacklogExact, Grants, RequestStep, AcquireStep, FinishStep
<1>2. Try(r) \in Attempts /\ Hand(r) \in Attempts
  BY AttemptFacts
<1>3. CASE TryAdmit(r)
  BY <1>1, <1>2, <1>3 DEF TryAdmit, Goto, ListenerPlaced, Delegate!Admit, Delegate!Move
<1>4. CASE UnblockGrant(r)
  <2>1. PICK h \in Requests : h = Head(backlog) /\ h \in Waiters /\ ~Granted(h)
    BY <1>1, <1>4, BacklogStep DEF Waiters
  <2>2. pc[h] \in {"waiting", "timedout"} /\ pc[r] = "handing" /\ pc' = [pc EXCEPT ![r] = "returned"]
    BY <1>4, <2>1 DEF Waiters, UnblockGrant, Goto
  <2>. QED BY <1>1, <1>2, <1>4, <2>1, <2>2 DEF UnblockGrant, Delegate!Admit, Delegate!Move
<1>. QED BY <1>3, <1>4 DEF Grants

(* Every listener stays where its request is, and permits keep one owner.  *)
LEMMA ListenerStep ==
  ASSUME LifoInv, NEW r \in Requests, RequestStep(r)
  PROVE  (\A q \in Requests : ListenerPlaced(q)') /\ OneOwner'
<1>1. /\ at \in [Attempts -> Delegate!Places] /\ pc \in [Requests -> PCs]
      /\ listener \in [Requests -> Attempts \cup {<<None>>}]
      /\ \A q \in Requests : ListenerPlaced(q)
  BY DEF LifoInv, TypeOK, Delegate!TypeOK
<1>2. /\ \A a \in Attempts : at[a] \in Issued => \E q \in Requests : listener[q] = a
      /\ \A p, q \in Requests : Granted(p) /\ listener[p] = listener[q] => p = q
  BY DEF LifoInv, OneOwner
<1>3. CASE Grants(r)
  <2>1. PICK h \in Requests, a \in Attempts :
           /\ at[a] = "counted" /\ at' = [at EXCEPT ![a] = "holding"]
           /\ ~Granted(h) /\ listener' = [listener EXCEPT ![h] = a]
           /\ \A q \in Requests : q # h /\ q # r => pc'[q] = pc[q]
           /\ \/ h = r /\ pc'[h] = "holding"
              \/ h # r /\ pc[h] \in {"waiting", "timedout"} /\ pc'[h] = pc[h]
                 /\ pc[r] = "handing" /\ pc'[r] = "returned"
    BY <1>3, GrantMoves
  <2>2. a # <<None>> /\ \A q \in Requests : listener[q] # a
    BY <1>1, <2>1, AttemptFacts, GrantedIssued DEF Granted, Issued
  <2>3. \A q \in Requests : q # h =>
          /\ listener'[q] = listener[q]
          /\ Granted(q)' <=> Granted(q)
          /\ Granted(q) => at'[listener[q]] = at[listener[q]]
    BY <1>1, <2>1, <2>2, GrantedIssued DEF Granted
  <2>4. Granted(h)' /\ listener'[h] = a /\ at'[a] = "holding"
    BY <1>1, <2>1, <2>2 DEF Granted
  <2>5. ASSUME NEW q \in Requests PROVE ListenerPlaced(q)'
    <3>1. CASE q = h
      BY <2>1, <2>4, <3>1 DEF ListenerPlaced
    <3>2. CASE q # h /\ q # r
      BY <1>1, <2>1, <2>3, <3>2 DEF ListenerPlaced
    <3>3. CASE q # h /\ q = r
      BY <1>1, <2>1, <2>3, <3>3 DEF ListenerPlaced
    <3>. QED BY <3>1, <3>2, <3>3
  <2>6. ASSUME NEW b \in Attempts, at'[b] \in Issued PROVE \E q \in Requests : listener'[q] = b
    <3>1. CASE b = a
      BY <2>4, <3>1
    <3>2. CASE b # a
      <4>1. PICK q \in Requests : listener[q] = b
        BY <1>1, <1>2, <2>1, <2>6, <3>2
      <4>2. q # h
        BY <2>1, <4>1, AttemptFacts DEF Granted
      <4>. QED BY <2>3, <4>1, <4>2
    <3>. QED BY <3>1, <3>2
  <2>7. ASSUME NEW p \in Requests, NEW q \in Requests, Granted(p)', listener'[p] = listener'[q]
        PROVE  p = q
    BY <1>2, <2>2, <2>3, <2>4, <2>7
  <2>. QED BY <2>5, <2>6, <2>7 DEF OneOwner
<1>4. CASE Release(r) \/ Sample(r)
  <2>1. /\ listener[r] \in Attempts /\ at[listener[r]] \in {"holding", "released"}
        /\ at' = [at EXCEPT ![listener[r]] = IF Release(r) THEN "released" ELSE "finished"]
        /\ pc' = [pc EXCEPT ![r] = IF Release(r) THEN "sampling" ELSE "unblock"]
        /\ pc[r] = IF Release(r) THEN "holding" ELSE "sampling"
    BY <1>4, ListenerMoves
  <2>2. listener' = listener
    BY <1>4 DEF Release, Sample
  <2>3. Granted(r) /\ \A q \in Requests : Granted(q)' <=> Granted(q)
    BY <2>1, <2>2, AttemptFacts DEF Granted
  <2>4. ASSUME NEW q \in Requests PROVE ListenerPlaced(q)'
    <3>1. CASE q = r
      BY <1>1, <2>1, <2>2, <2>3, <3>1 DEF ListenerPlaced
    <3>2. CASE q # r
      <4>1. Granted(q) => listener[q] # listener[r]
        BY <1>2, <2>3, <3>2
      <4>2. pc'[q] = pc[q] /\ (Granted(q) => at'[listener[q]] = at[listener[q]])
        BY <1>1, <2>1, <3>2, <4>1, GrantedIssued
      <4>. QED BY <1>1, <2>2, <2>3, <4>2 DEF ListenerPlaced
    <3>. QED BY <3>1, <3>2
  <2>5. \A a \in Attempts : at'[a] \in Issued => at[a] \in Issued
    BY <1>1, <2>1 DEF Issued
  <2>. QED BY <1>2, <2>2, <2>3, <2>4, <2>5 DEF OneOwner
<1>5. CASE ~Grants(r) /\ ~Release(r) /\ ~Sample(r)
  <2>1. /\ listener' = listener
        /\ \A a \in Attempts : /\ at[a] \in Issued => at'[a] = at[a]
                               /\ at'[a] \in Issued => at[a] \in Issued
    BY <1>5, NoGrant
  <2>2. \A q \in Requests :
          /\ Granted(q)' <=> Granted(q)
          /\ Granted(q) => at'[listener[q]] = at[listener[q]]
    <3>1. \A q \in Requests : Granted(q)' <=> Granted(q)
      BY <2>1 DEF Granted
    <3>2. \A q \in Requests : Granted(q) => listener[q] \in Attempts /\ at[listener[q]] \in Issued
      BY GrantedIssued
    <3>3. \A q \in Requests : Granted(q) => at'[listener[q]] = at[listener[q]]
      BY <2>1, <3>2
    <3>. QED BY <3>1, <3>3
  <2>3. pc' = pc \/ \E p : pc' = [pc EXCEPT ![r] = p]
    BY <1>5 DEF Grants, RequestStep, AcquireStep, FinishStep, TryStart, TryExceed, TryRefused,
         BacklogFull, Enqueue, Ready, TimerFires, TimedOutAdmitted, TimedOutShed,
         UnblockEmpty, UnblockStart, UnblockExceed, UnblockRefused, Goto
  <2>4. \/ pc'[r] \in {"trying", "refused", "shed"} /\ (pc[r] \in {"new", "trying", "refused"} \/ ~Granted(r))
        \/ pc'[r] \in {"waiting", "timedout"} /\ pc[r] \in {"refused", "waiting", "timedout"}
        \/ pc'[r] = "holding" /\ pc[r] \in {"waiting", "timedout"} /\ Granted(r)
        \/ pc'[r] \in {"handing", "returned"} /\ pc[r] \in {"unblock", "handing"}
    BY <1>1, <1>5 DEF Grants, RequestStep, AcquireStep, FinishStep, TryStart, TryExceed, TryRefused,
         BacklogFull, Enqueue, Ready, TimerFires, TimedOutAdmitted, TimedOutShed,
         UnblockEmpty, UnblockStart, UnblockExceed, UnblockRefused, Goto
  <2>5. ListenerPlaced(r)'
    BY <1>1, <2>1, <2>2, <2>4 DEF ListenerPlaced
  <2>6. \A q \in Requests : q # r => ListenerPlaced(q)'
    <3>1. \A q \in Requests : q # r => pc'[q] = pc[q]
      BY <1>1, <2>3
    <3>. QED BY <1>1, <2>1, <2>2, <3>1 DEF ListenerPlaced
  <2>. QED BY <1>2, <2>1, <2>2, <2>5, <2>6 DEF OneOwner
<1>. QED BY <1>3, <1>4, <1>5

(* The lock is passed on, and whoever holds it has seen a waiter.          *)
LEMMA LockStep ==
  ASSUME LifoInv, NEW r \in Requests, RequestStep(r)
  PROVE  LockHeld'
<1>1. /\ pc \in [Requests -> PCs] /\ mu \in Requests \cup {None} /\ None \notin Requests
      /\ \A q \in Requests : pc[q] = "handing" <=> mu = q
      /\ mu # None => backlog # <<>>
  BY LifoAssumption DEF LifoInv, TypeOK, LockHeld
<1>2. CASE UnblockStart(r)
  BY <1>1, <1>2 DEF UnblockStart, Goto, LockHeld
<1>3. CASE UnblockRefused(r) \/ UnblockGrant(r)
  <2>1. pc[r] = "handing" /\ pc' = [pc EXCEPT ![r] = "returned"] /\ mu' = None
    BY <1>3 DEF UnblockRefused, UnblockGrant, Goto
  <2>. QED BY <1>1, <2>1 DEF LockHeld
<1>4. CASE Enqueue(r) \/ TimedOutShed(r)
  <2>1. mu' = mu /\ mu = None /\ \E p \in {"waiting", "shed"} : pc' = [pc EXCEPT ![r] = p]
    BY <1>4 DEF Enqueue, TimedOutShed, Goto
  <2>2. \A q \in Requests : pc[q] # "handing"
    BY <1>1, <2>1
  <2>. QED BY <1>1, <2>1, <2>2 DEF LockHeld
<1>5. CASE ~UnblockStart(r) /\ ~UnblockRefused(r) /\ ~UnblockGrant(r) /\ ~Enqueue(r) /\ ~TimedOutShed(r)
  <2>1. mu' = mu /\ backlog' = backlog
    BY <1>5 DEF RequestStep, AcquireStep, FinishStep, TryStart, TryAdmit, TryExceed, TryRefused,
         BacklogFull, Ready, TimerFires, TimedOutAdmitted, Release, Sample, UnblockEmpty,
         UnblockExceed
  <2>2. \/ pc' = pc
        \/ pc[r] # "handing" /\ \E p \in PCs \ {"handing"} : pc' = [pc EXCEPT ![r] = p]
    BY <1>5 DEF RequestStep, AcquireStep, FinishStep, TryStart, TryAdmit, TryExceed, TryRefused,
         BacklogFull, Ready, TimerFires, TimedOutAdmitted, Release, Sample, UnblockEmpty,
         UnblockExceed, Goto, PCs
  <2>3. \A q \in Requests : pc'[q] = "handing" <=> pc[q] = "handing"
    BY <1>1, <2>2
  <2>. QED BY <1>1, <2>1, <2>3 DEF LockHeld
<1>. QED BY <1>2, <1>3, <1>4, <1>5

(* The invariant holds in every reachable state.                           *)
LEMMA LifoInvariant == Spec => []LifoInv
<1>1. Init => LifoInv
  <2>. SUFFICES ASSUME Init PROVE LifoInv
    OBVIOUS
  <2>1. \A r \in Requests : ~Granted(r) /\ pc[r] = "new"
    BY DEF Init, Granted
  <2>2. \A a \in Attempts : at[a] = "new"
    BY DEF Init, Delegate!Init
  <2>3. TypeOK
    BY DEF Init, Delegate!Init, TypeOK, Delegate!TypeOK, Delegate!Places, PCs
  <2>4. \A r \in Requests : CallsPlaced(r) /\ ListenerPlaced(r)
    BY <2>1, <2>2, AttemptFacts DEF CallsPlaced, ListenerPlaced
  <2>5. OneOwner /\ LockHeld
    BY <2>1, <2>2, LifoAssumption DEF OneOwner, LockHeld, Issued, Init
  <2>6. BacklogExact
    <3>1. Waiters = {} /\ Range(backlog) = {} /\ IsInjective(backlog) /\ Len(backlog) = 0
      BY <2>1 DEF Init, Waiters, Range, IsInjective
    <3>. QED BY <3>1, LifoAssumption DEF BacklogExact
  <2>. QED BY <2>3, <2>4, <2>5, <2>6 DEF LifoInv
<1>2. LifoInv /\ [Next]_vars => LifoInv'
  <2>. SUFFICES ASSUME LifoInv, [Next]_vars PROVE LifoInv'
    OBVIOUS
  <2>1. CASE UNCHANGED vars
    BY <2>1 DEF vars, LifoInv, TypeOK, Delegate!TypeOK, CallsPlaced, ListenerPlaced, Granted, OneOwner,
                LockHeld, BacklogExact, Waiters
  <2>2. ASSUME NEW r \in Requests, RequestStep(r) PROVE LifoInv'
    BY <2>2, TypeStep, CallsStep, ListenerStep, LockStep, ExactStep DEF LifoInv
  <2>. QED BY <2>1, <2>2 DEF Next, Rest, RequestStep
<1>. QED BY <1>1, <1>2, PTL DEF Spec

(* The backlog holds exactly the waiters that were handed no permit.       *)
THEOREM BacklogIsExact == Spec => [](TypeOK /\ BacklogExact)
<1>1. LifoInv => TypeOK /\ BacklogExact
  BY DEF LifoInv
<1>. QED BY <1>1, LifoInvariant, PTL

(* No permit leaks in the race of the timer and unblock.                   *)
THEOREM PermitsOwned == Spec => []NoPermitLeak
<1>1. ASSUME LifoInv, NEW a \in Attempts, at[a] = "holding"
      PROVE  Cardinality({r \in Waiters \cup Users : listener[r] = a}) = 1
  <2>1. PICK q \in Requests : listener[q] = a
    BY <1>1 DEF LifoInv, OneOwner, Issued
  <2>2. Granted(q) /\ pc[q] \in PCs /\ ListenerPlaced(q)
    BY <1>1, <2>1, AttemptFacts DEF Granted, LifoInv, TypeOK
  <2>3. q \in Waiters \cup Users
    BY <1>1, <2>1, <2>2 DEF ListenerPlaced, PCs, Waiters, Users
  <2>4. {r \in Waiters \cup Users : listener[r] = a} = {q}
    BY <1>1, <2>1, <2>2, <2>3 DEF LifoInv, OneOwner, Waiters, Users
  <2>. QED BY <2>4, FS_Singleton
<1>2. ASSUME LifoInv, NEW r \in Requests
      PROVE  /\ pc[r] = "shed" => ~Granted(r)
             /\ pc[r] = "holding" => at[listener[r]] = "holding"
  BY <1>2 DEF LifoInv, ListenerPlaced
<1>3. LifoInv => NoPermitLeak
  BY <1>1, <1>2 DEF NoPermitLeak
<1>. QED BY <1>3, LifoInvariant, PTL

-----------------------------------------------------------------------------
(* The delegate under the backlog.                                         *)

(* The limiter's steps are steps of the delegate or leave it alone, so the *)
(* theorems about SimpleLimiter can be used under the backlog.             *)
LEMMA RefinesDelegate == Spec => Delegate!Spec
<1>1. Init => Delegate!Init
  BY DEF Init
<1>2. LifoInv /\ [Next]_vars => [Delegate!Next]_(Delegate!limiterVars)
  <2>. SUFFICES ASSUME LifoInv, [Next]_vars PROVE [Delegate!Next]_(Delegate!limiterVars)
    OBVIOUS
  <2>1. CASE UNCHANGED vars
    BY <2>1 DEF vars, Delegate!limiterVars
  <2>2. ASSUME NEW r \in Requests, RequestStep(r) PROVE [Delegate!Next]_(Delegate!limiterVars)
    <3>1. CASE QueueStep(r)
      BY <3>1 DEF QueueStep, BacklogFull, Enqueue, Ready, TimerFires, TimedOutAdmitted,
                  TimedOutShed, UnblockEmpty, delegateVars, Delegate!limiterVars
    <3>. QED BY <2>2, <3>1, DelegateStep DEF Delegate!Next
  <2>. QED BY <2>1, <2>2 DEF Next, Rest, RequestStep
<1>. QED BY <1>1, <1>2, LifoInvariant, PTL DEF Spec, Delegate!Spec

(* The delegate's counter is exact and its permits never exceed the limits.*)
DelegateBounded ==
  /\ inflight = Cardinality(Delegate!Counted)
  /\ \A k \in 0 .. Cardinality(Attempts) :
       (\A l \in Limits : l <= k) => Cardinality(Delegate!Holders) <= k

(* What is proved about the delegate holds under the backlog.              *)
LEMMA DelegateKeeps == Spec => []DelegateBounded
<1>1. Delegate!Spec => Simple!Spec
  <2>1. Delegate!Init => Simple!Init
    BY DEF Delegate!Init, Simple!Init
  <2>2. [Delegate!Next]_(Delegate!limiterVars) => [Simple!Next]_(Simple!limiterVars)
    BY DEF Delegate!Next, Simple!Next, Delegate!Step, Simple!Step, Delegate!limiterVars, Simple!limiterVars,
           Delegate!CountIn, Simple!CountIn, Delegate!Admit, Simple!Admit, Delegate!Exceed, Simple!Exceed,
           Delegate!CountOut, Simple!CountOut, Delegate!Finish, Simple!Finish, Delegate!Sample,
           Simple!Sample, Delegate!Move, Simple!Move, Delegate!Issued, Simple!Issued
  <2>. QED BY <2>1, <2>2, PTL DEF Delegate!Spec, Simple!Spec
<1>2. Simple!Spec => [](Simple!TypeOK /\ Simple!InflightExact)
  BY DelegateAssumed, Simple!InflightIsExact
<1>3. Simple!Spec => []Simple!HoldersWithinLimits
  BY DelegateAssumed, Simple!ConcurrencyBounded
<1>4. \A S : Simple!Cardinality(S) = Cardinality(S)
  BY DEF Simple!Cardinality, Cardinality
<1>5. Delegate!Counted = Simple!Counted /\ Delegate!Holders = Simple!Holders
  BY DEF Delegate!Counted, Simple!Counted, Delegate!Holders, Simple!Holders
<1>6. Simple!InflightExact /\ Simple!HoldersWithinLimits => DelegateBounded
  BY <1>4, <1>5 DEF Simple!InflightExact, Simple!HoldersWithinLimits, DelegateBounded
<1>. QED BY <1>1, <1>2, <1>3, <1>6, RefinesDelegate, PTL

(* When every request is done, nothing is counted in any more, nobody is   *)
(* left in the backlog and nobody holds the lock.                          *)
THEOREM DrainsToZero == Spec => []DrainedToZero
<1>1. ASSUME LifoInv, DelegateBounded,
             \A r \in Requests : pc[r] \in {"new", "returned", "shed"}
      PROVE  inflight = 0 /\ backlog = <<>> /\ mu = None
  <2>1. ASSUME NEW a \in Attempts PROVE at[a] \notin {"counted", "over", "holding"}
    <3>1. PICK r \in Requests : a = Try(r) \/ a = Hand(r)
      BY AttemptFacts
    <3>2. at[a] \notin {"counted", "over"}
      BY <1>1, <3>1 DEF LifoInv, CallsPlaced
    <3>3. at[a] # "holding"
      <4>. SUFFICES ASSUME at[a] = "holding" PROVE FALSE
        OBVIOUS
      <4>1. PICK q \in Requests : listener[q] = a
        BY <1>1 DEF LifoInv, OneOwner, Issued
      <4>. QED BY <1>1, <4>1, AttemptFacts DEF LifoInv, ListenerPlaced, Granted
    <3>. QED BY <3>2, <3>3
  <2>2. Delegate!Counted = {}
    BY <2>1 DEF Delegate!Counted
  <2>3. inflight = 0
    BY <1>1, <2>2, FS_EmptySet DEF DelegateBounded
  <2>4. Range(backlog) = {} /\ backlog \in Seq(Requests)
    BY <1>1 DEF LifoInv, TypeOK, BacklogExact, Waiters
  <2>5. backlog = <<>>
    <3>1. SUFFICES ASSUME Len(backlog) # 0 PROVE FALSE
      BY <2>4
    <3>2. 1 \in DOMAIN backlog
      BY <2>4, <3>1
    <3>. QED BY <2>4, <3>2 DEF Range
  <2>6. mu = None
    BY <1>1 DEF LifoInv, TypeOK, LockHeld
  <2>. QED BY <2>3, <2>5, <2>6
<1>2. LifoInv /\ DelegateBounded => DrainedToZero
  BY <1>1 DEF DrainedToZero
<1>. QED BY <1>2, LifoInvariant, DelegateKeeps, PTL

(* Requests that run never exceed the largest limit.                       *)
THEOREM UsersBounded == Spec => []UsersWithinLimits
<1>1. ASSUME LifoInv, DelegateBounded, NEW k \in 0 .. Cardinality(Requests),
             \A l \in Limits : l <= k
      PROVE  Cardinality(Users) <= k
  <2>1. IsFiniteSet(Delegate!Holders) /\ IsFiniteSet(Users)
    BY AttemptsFinite, LifoAssumption, FS_Subset DEF Delegate!Holders, Users
  <2>2. Cardinality(Users) <= Cardinality(Delegate!Holders)
    <3>. DEFINE f == [r \in Users |-> listener[r]]
    <3>1. \A r \in Users : Granted(r) /\ listener[r] \in Delegate!Holders
      BY <1>1, GrantedIssued DEF Users, LifoInv, ListenerPlaced, Delegate!Holders
    <3>2. f \in Injection(Users, Delegate!Holders)
      BY <1>1, <3>1 DEF Injection, IsInjective, Users, LifoInv, OneOwner
    <3>. QED BY <2>1, <3>2, FS_Injection
  <2>3. /\ Cardinality(Users) \in Nat /\ Cardinality(Delegate!Holders) \in Nat
        /\ Cardinality(Requests) \in Nat /\ Cardinality(Attempts) \in Nat
    BY <2>1, AttemptsFinite, LifoAssumption, FS_CardinalityType
  <2>4. k \in 0 .. Cardinality(Attempts)
    BY <2>3, AttemptsFinite
  <2>5. Cardinality(Delegate!Holders) <= k
    BY <1>1, <2>4 DEF DelegateBounded
  <2>. QED BY <2>2, <2>3, <2>4, <2>5
<1>2. LifoInv /\ DelegateBounded => UsersWithinLimits
  BY <1>1 DEF UsersWithinLimits
<1>. QED BY <1>2, LifoInvariant, DelegateKeeps, PTL
=============================================================================
