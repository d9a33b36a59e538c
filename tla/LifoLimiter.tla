---------------------------- MODULE LifoLimiter ----------------------------
(***************************************************************************)
(* concurrencylimits.LifoBlockingLimiter (lifo.go) around a SimpleLimiter. *)
(* A request whose fast path fails waits in a bounded backlog, newest      *)
(* first, until a finishing request hands it a permit or its timer fires.  *)
(*                                                                         *)
(* The delegate's Acquire is called from two places, and each call of it   *)
(* is a call of SimpleLimiter: <<r, "try">> on the fast path of r, and     *)
(* <<r, "unblock">> made by r for a waiter after r has finished.  The      *)
(* delegate takes no lock, so its steps interleave also with the section   *)
(* in which unblock holds b.mu.                                            *)
(***************************************************************************)
EXTENDS Integers, Sequences, FiniteSets, Functions

CONSTANTS Requests,      \* requests that call Acquire, each once
          BacklogSize,   \* b.backlogSize
          Limits,        \* the values the delegate's limit may take
          None           \* nobody holds b.mu; no listener

ASSUME LifoAssumption ==
  /\ IsFiniteSet(Requests)
  /\ BacklogSize \in Nat \ {0}
  /\ Limits # {} /\ Limits \subseteq Nat
  /\ None \notin Requests

VARIABLES at, current, inflight, limit,   \* the delegate
          pc,        \* where each request is
          backlog,   \* b.backlog, newest first
          mu,        \* who holds b.mu across a step
          listener   \* the delegate's call behind each request's listener:
                     \* w.listener and w.removed once unblock set them

Attempts == Requests \X {"try", "unblock"}
Try(r)   == <<r, "try">>
Hand(r)  == <<r, "unblock">>

Delegate == INSTANCE SimpleLimiter WITH Calls <- Attempts

delegateVars == <<at, current, inflight, limit>>
vars == <<at, current, inflight, limit, pc, backlog, mu, listener>>

PCs == {"new", "trying", "refused", "waiting", "timedout", "holding", "sampling",
        "unblock", "handing", "returned", "shed"}

Init ==
  /\ Delegate!Init
  /\ pc = [r \in Requests |-> "new"]
  /\ backlog = <<>>
  /\ mu = None
  /\ listener = [r \in Requests |-> <<None>>]

Goto(r, from, to) == pc[r] = from /\ pc' = [pc EXCEPT ![r] = to]

Granted(r) == listener[r] # <<None>>

-----------------------------------------------------------------------------
(* tryAcquire.                                                             *)

TryStart(r) ==
  /\ Goto(r, "new", "trying")
  /\ Delegate!CountIn(Try(r))
  /\ UNCHANGED <<backlog, mu, listener>>

TryAdmit(r) ==
  /\ Goto(r, "trying", "holding")
  /\ Delegate!Admit(Try(r))
  /\ listener' = [listener EXCEPT ![r] = Try(r)]
  /\ UNCHANGED <<backlog, mu>>

TryExceed(r) ==
  /\ pc[r] = "trying"
  /\ Delegate!Exceed(Try(r))
  /\ UNCHANGED <<pc, backlog, mu, listener>>

TryRefused(r) ==
  /\ Goto(r, "trying", "refused")
  /\ Delegate!CountOut(Try(r))
  /\ UNCHANGED <<backlog, mu, listener>>

BacklogFull(r) ==
  /\ mu = None
  /\ Len(backlog) >= BacklogSize
  /\ Goto(r, "refused", "shed")
  /\ UNCHANGED <<delegateVars, backlog, mu, listener>>

Enqueue(r) ==
  /\ mu = None
  /\ Len(backlog) < BacklogSize
  /\ Goto(r, "refused", "waiting")
  /\ backlog' = <<r>> \o backlog
  /\ UNCHANGED <<delegateVars, mu, listener>>

(* case <-w.ready                                                          *)
Ready(r) ==
  /\ Granted(r) /\ mu = None
  /\ Goto(r, "waiting", "holding")
  /\ UNCHANGED <<delegateVars, backlog, mu, listener>>

(* case <-timer.C: the select has chosen, the lock is still to be taken.   *)
TimerFires(r) ==
  /\ Goto(r, "waiting", "timedout")
  /\ UNCHANGED <<delegateVars, backlog, mu, listener>>

(* removeWaiter: everybody but r keeps his place.                          *)
RemoveWaiter(r) ==
  IF r \in Range(backlog)
    THEN \E i \in DOMAIN backlog :
           /\ backlog[i] = r
           /\ backlog' = SubSeq(backlog, 1, i - 1) \o SubSeq(backlog, i + 1, Len(backlog))
    ELSE UNCHANGED backlog

(* unblock came between the timer and the lock.                            *)
TimedOutAdmitted(r) ==
  /\ mu = None /\ Granted(r)
  /\ Goto(r, "timedout", "holding")
  /\ UNCHANGED <<delegateVars, backlog, mu, listener>>
(* Variants: w.removed is not looked at, or the waiter stays in the        *)
(* backlog.                                                                *)
TimedOutShedBlind(r) ==
  /\ mu = None
  /\ Goto(r, "timedout", "shed")
  /\ RemoveWaiter(r)
  /\ UNCHANGED <<delegateVars, mu, listener>>

TimedOutShedStays(r) ==
  /\ mu = None /\ ~Granted(r)
  /\ Goto(r, "timedout", "shed")
  /\ UNCHANGED <<delegateVars, backlog, mu, listener>>

TimedOutShed(r) ==
  /\ mu = None /\ ~Granted(r)
  /\ Goto(r, "timedout", "shed")
  /\ RemoveWaiter(r)
  /\ UNCHANGED <<delegateVars, mu, listener>>

-----------------------------------------------------------------------------
(* lifoListener.OnSuccess, OnIgnore, OnDropped: the inner call, then       *)
(* unblock.                                                                *)

Release(r) ==
  /\ Goto(r, "holding", "sampling")
  /\ Delegate!Finish(listener[r])
  /\ UNCHANGED <<backlog, mu, listener>>

Sample(r) ==
  /\ Goto(r, "sampling", "unblock")
  /\ Delegate!Sample(listener[r])
  /\ UNCHANGED <<backlog, mu, listener>>

UnblockEmpty(r) ==
  /\ mu = None /\ backlog = <<>>
  /\ Goto(r, "unblock", "returned")
  /\ UNCHANGED <<delegateVars, backlog, mu, listener>>

UnblockStart(r) ==
  /\ mu = None /\ backlog # <<>>
  /\ mu' = r
  /\ Goto(r, "unblock", "handing")
  /\ Delegate!CountIn(Hand(r))
  /\ UNCHANGED <<backlog, listener>>

UnblockExceed(r) ==
  /\ pc[r] = "handing"
  /\ Delegate!Exceed(Hand(r))
  /\ UNCHANGED <<pc, backlog, mu, listener>>
(* Variants: the early return leaves the lock taken, or the delegate's     *)
(* counter raised.                                                         *)
UnblockRefusedLocked(r) ==
  /\ Goto(r, "handing", "returned")
  /\ Delegate!CountOut(Hand(r))
  /\ UNCHANGED <<backlog, mu, listener>>

UnblockRefusedLeaks(r) ==
  /\ Goto(r, "handing", "returned")
  /\ at[Hand(r)] = "over"
  /\ mu' = None
  /\ UNCHANGED <<delegateVars, backlog, listener>>

UnblockRefused(r) ==
  /\ Goto(r, "handing", "returned")
  /\ Delegate!CountOut(Hand(r))
  /\ mu' = None
  /\ UNCHANGED <<backlog, listener>>

(* The newest waiter gets the listener and is woken.                       *)
UnblockGrant(r) ==
  /\ Goto(r, "handing", "returned")
  /\ Delegate!Admit(Hand(r))
  /\ listener' = [listener EXCEPT ![Head(backlog)] = Hand(r)]
  /\ backlog' = Tail(backlog)
  /\ mu' = None

-----------------------------------------------------------------------------
Rest == (\A r \in Requests : pc[r] \in {"returned", "shed"}) /\ UNCHANGED vars

AcquireStep(r) ==
  \/ TryAdmit(r) \/ TryExceed(r) \/ TryRefused(r)
  \/ BacklogFull(r) \/ Enqueue(r) \/ Ready(r) \/ TimerFires(r)
  \/ TimedOutAdmitted(r) \/ TimedOutShed(r)

FinishStep(r) ==
  \/ Sample(r)
  \/ UnblockEmpty(r) \/ UnblockStart(r)
  \/ UnblockExceed(r) \/ UnblockRefused(r) \/ UnblockGrant(r)

Next ==
  \/ \E r \in Requests : TryStart(r) \/ AcquireStep(r) \/ Release(r) \/ FinishStep(r)
  \/ Rest

Spec == Init /\ [][Next]_vars

(* A goroutine inside Acquire or unblock is scheduled and its timer fires; *)
(* no holder is obliged to finish its request.                             *)
Fairness == \A r \in Requests : WF_vars(AcquireStep(r)) /\ WF_vars(FinishStep(r))

FairSpec == Spec /\ Fairness

-----------------------------------------------------------------------------
Waiters == {r \in Requests : pc[r] \in {"waiting", "timedout"}}
Users   == {r \in Requests : pc[r] = "holding"}

(* Every variable has its type.                                            *)
TypeOK ==
  /\ Delegate!TypeOK
  /\ pc \in [Requests -> PCs]
  /\ backlog \in Seq(Requests)
  /\ mu \in Requests \cup {None}
  /\ listener \in [Requests -> Attempts \cup {<<None>>}]

(* The backlog holds each waiter that was not handed a permit, once, and   *)
(* nobody else, and keeps to its size.                                     *)
BacklogExact ==
  /\ IsInjective(backlog)
  /\ Range(backlog) = {r \in Waiters : ~Granted(r)}
  /\ Len(backlog) <= BacklogSize

(* A permit never leaks in the race of timer and unblock: each permit held *)
(* at the delegate belongs to exactly one request that uses it or is about *)
(* to find it.  A request is shed only without a permit, and runs only     *)
(* with one.                                                               *)
NoPermitLeak ==
  /\ \A a \in Attempts : at[a] = "holding" =>
       Cardinality({r \in Waiters \cup Users : listener[r] = a}) = 1
  /\ \A r \in Requests :
    /\ pc[r] = "shed" => ~Granted(r)
    /\ pc[r] = "holding" => at[listener[r]] = "holding"

(* Requests that run never exceed the largest limit, whether a permit came *)
(* on the fast path or from the hand of another request, while the timers  *)
(* fire and the limit moves.                                               *)
UsersWithinLimits ==
  \A k \in 0 .. Cardinality(Requests) :
    (\A l \in Limits : l <= k) => Cardinality(Users) <= k

(* When every request is done, the delegate's counter is back at zero, the *)
(* backlog is empty and the lock is free, whichever requests timed out,    *)
(* were handed a permit or were refused on the way.                        *)
DrainedToZero ==
  (\A r \in Requests : pc[r] \in {"new", "returned", "shed"}) =>
    inflight = 0 /\ backlog = <<>> /\ mu = None

(* Every Acquire returns: it is admitted or shed, never stuck on the lock, *)
(* on a permit or in the backlog.                                          *)
AcquireReturns ==
  \A r \in Requests : pc[r] = "trying" ~> pc[r] \notin {"trying", "refused", "waiting", "timedout"}

(* docs.md:345: "it only blocks when the delegate is at its limit".  While *)
(* a request waits, the delegate is full, or a request is on its way that  *)
(* will look at the backlog.                                               *)
WaitsOnlyAtLimit ==
  backlog # <<>> =>
    \/ inflight >= limit
    \/ \E r \in Requests : pc[r] \in {"sampling", "unblock", "handing"}
    \/ \E r \in Waiters : pc[r] = "timedout"
=============================================================================
