-------------------------------- MODULE Pool --------------------------------
(***************************************************************************)
(* queue.Pool (src/queue/pool.go): a fixed set of worker goroutines behind *)
(* a bounded channel.  A call takes a token of the semaphore `sem`, takes  *)
(* the read lock, checks `closed` and sends its task; a worker receives    *)
(* the task, runs it, and gives the token back.  Stop takes the write      *)
(* lock, closes the channel and waits for the workers.                     *)
(*                                                                         *)
(* A request is one call of Submit, SubmitWait or Handler, made by a       *)
(* goroutine of its own, with the task it submits.  A step is the code up  *)
(* to the next operation another goroutine can observe.                    *)
(***************************************************************************)
EXTENDS Integers, Sequences, FiniteSets, Functions

CONSTANTS Requests,        \* the calls
          Workers,         \* the worker goroutines: cfg.Workers, at least 1
          QueueCapacity,   \* cfg.QueueCapacity, at least 0
          MaxWait,         \* cfg.MaxWait: 0 (never block) or a wait
          GateAnswers,     \* what gate.Allow may answer; {TRUE}: no gate
          Stoppers,        \* goroutines that call Stop
          None             \* no task

ASSUME PoolAssumption ==
  /\ IsFiniteSet(Requests) /\ IsFiniteSet(Workers) /\ IsFiniteSet(Stoppers)
  /\ Workers # {}
  /\ QueueCapacity \in Nat
  /\ MaxWait \in Nat
  /\ GateAnswers \subseteq BOOLEAN /\ TRUE \in GateAnswers
  /\ None \notin Requests

Capacity == Cardinality(Workers) + QueueCapacity

VARIABLES
  pc,        \* where each call is
  result,    \* the error it returned, "ok" for nil
  tasks,     \* the channel p.tasks
  sem,       \* len(p.sem): tokens taken
  closed,    \* p.closed; the channel is closed in the same critical section
  worker,    \* where each worker is
  job,       \* the task it holds
  ended,     \* tasks whose body has returned (SubmitWait's done is closed)
  verdicts,  \* the calls of the gate's done callback, per request
  active, accepted, rejected,   \* the counters behind Stats
  stop,      \* where each call of Stop is
  late       \* history: the calls begun after some Stop had returned

callVars == <<pc, result, late>>
workVars == <<worker, job, ended, active>>
vars == <<pc, result, tasks, sem, closed, worker, job, ended, verdicts,
          active, accepted, rejected, stop, late>>

Sheds     == {"overloaded", "full", "timeout", "stopped"}
CallPCs   == {"new", "acquire", "token", "sending", "sent", "waiting", "returned"}
WorkerPCs == {"idle", "took", "running", "ended", "settled", "exited"}
StopPCs   == {"idle", "locking", "draining", "joining", "returned"}

Init ==
  /\ pc = [r \in Requests |-> "new"]
  /\ result = [r \in Requests |-> "none"]
  /\ tasks = <<>> /\ sem = 0 /\ closed = FALSE
  /\ worker = [w \in Workers |-> "idle"]
  /\ job = [w \in Workers |-> None]
  /\ ended = {}
  /\ verdicts = [r \in Requests |-> <<>>]
  /\ active = 0 /\ accepted = 0 /\ rejected = 0
  /\ stop = [s \in Stoppers |-> "idle"]
  /\ late = {}

-----------------------------------------------------------------------------
(* The calls.                                                              *)

Goto(r, from, to) == pc[r] = from /\ pc' = [pc EXCEPT ![r] = to]

Return(r, from, res) ==
  Goto(r, from, "returned") /\ result' = [result EXCEPT ![r] = res]

Settled(r, ok) == verdicts' = [verdicts EXCEPT ![r] = Append(@, ok)]

StopReturned == \E s \in Stoppers : stop[s] = "returned"

NoteLate(r) == late' = IF StopReturned THEN late \cup {r} ELSE late

(* The gate admits the call (noopDone when there is no gate).              *)
GateAllow(r) ==
  /\ TRUE \in GateAnswers
  /\ Goto(r, "new", "acquire")
  /\ NoteLate(r)
  /\ UNCHANGED <<result, tasks, sem, closed, workVars, verdicts, accepted, rejected, stop>>

(* The gate refuses it: nothing was reserved and done is not called.       *)
GateRefuse(r) ==
  /\ FALSE \in GateAnswers
  /\ Return(r, "new", "overloaded")
  /\ rejected' = rejected + 1
  /\ NoteLate(r)
  /\ UNCHANGED <<tasks, sem, closed, workVars, verdicts, accepted, stop>>
(* Variant: a token is taken without a look at the budget.                 *)
AcquireUnbounded(r) ==
  /\ Goto(r, "acquire", "token")
  /\ sem' = sem + 1
  /\ UNCHANGED <<result, late, tasks, closed, workVars, verdicts, accepted, rejected, stop>>

AcquireToken(r) ==
  /\ Goto(r, "acquire", "token")
  /\ sem < Capacity
  /\ sem' = sem + 1
  /\ UNCHANGED <<result, late, tasks, closed, workVars, verdicts, accepted, rejected, stop>>

(* The default case of the select needs a full semaphore; the timer of the *)
(* blocking one may win even when a token is free.                         *)
AcquireFail(r) ==
  /\ MaxWait = 0 => sem = Capacity
  /\ Return(r, "acquire", IF MaxWait > 0 THEN "timeout" ELSE "full")
  /\ Settled(r, FALSE)
  /\ rejected' = rejected + 1
  /\ UNCHANGED <<late, tasks, sem, closed, workVars, accepted, stop>>

(* A writer that waits in Lock keeps new readers out.                      *)
CanRLock == \A s \in Stoppers : stop[s] # "locking"
(* Variant: the closed flag is not checked under the lock.                 *)
RLockUnchecked(r) ==
  /\ CanRLock
  /\ Goto(r, "token", "sending")
  /\ UNCHANGED <<result, late, tasks, sem, closed, workVars, verdicts, accepted, rejected, stop>>

RLockOpen(r) ==
  /\ CanRLock
  /\ ~closed
  /\ Goto(r, "token", "sending")
  /\ UNCHANGED <<result, late, tasks, sem, closed, workVars, verdicts, accepted, rejected, stop>>
(* Variants of the path of a stopped pool: the token is kept, the gate is  *)
(* not told, or the task is sent all the same.                             *)
RLockClosedLeaks(r) ==
  /\ CanRLock /\ closed
  /\ Settled(r, FALSE)
  /\ Return(r, "token", "stopped")
  /\ UNCHANGED <<late, tasks, sem, closed, workVars, accepted, rejected, stop>>

RLockClosedSilent(r) ==
  /\ CanRLock /\ closed
  /\ sem > 0 /\ sem' = sem - 1
  /\ Return(r, "token", "stopped")
  /\ UNCHANGED <<late, tasks, closed, workVars, verdicts, accepted, rejected, stop>>

RLockClosedSends(r) ==
  /\ CanRLock /\ closed
  /\ tasks' = Append(tasks, r)
  /\ Return(r, "token", "stopped")
  /\ UNCHANGED <<late, sem, closed, workVars, verdicts, accepted, rejected, stop>>

RLockClosed(r) ==
  /\ CanRLock
  /\ closed
  /\ sem > 0 /\ sem' = sem - 1
  /\ Settled(r, FALSE)
  /\ Return(r, "token", "stopped")
  /\ UNCHANGED <<late, tasks, closed, workVars, accepted, rejected, stop>>

(* The send under the read lock; it blocks on a full channel, and would    *)
(* panic on a closed one (NoSendOnClosed).                                 *)
Send(r) ==
  /\ Goto(r, "sending", "sent")
  /\ Len(tasks) < Capacity
  /\ tasks' = Append(tasks, r)
  /\ UNCHANGED <<result, late, sem, closed, workVars, verdicts, accepted, rejected, stop>>

(* accepted.Add(1) and RUnlock; then Submit returns, while SubmitWait and  *)
(* Handler wait for the task.                                              *)
Accept(r) ==
  /\ \/ Return(r, "sent", "ok")
     \/ Goto(r, "sent", "waiting") /\ UNCHANGED result
  /\ accepted' = accepted + 1
  /\ UNCHANGED <<late, tasks, sem, closed, workVars, verdicts, rejected, stop>>

WaitDone(r) ==
  /\ r \in ended
  /\ Return(r, "waiting", "ok")
  /\ UNCHANGED <<late, tasks, sem, closed, workVars, verdicts, accepted, rejected, stop>>

-----------------------------------------------------------------------------
(* The workers.                                                            *)

Step(w, from, to) == worker[w] = from /\ worker' = [worker EXCEPT ![w] = to]

Receive(w) ==
  /\ Step(w, "idle", "took")
  /\ tasks # <<>>
  /\ job' = [job EXCEPT ![w] = Head(tasks)]
  /\ tasks' = Tail(tasks)
  /\ UNCHANGED <<callVars, sem, closed, ended, verdicts, active, accepted, rejected, stop>>

Start(w) ==
  /\ Step(w, "took", "running")
  /\ active' = active + 1
  /\ UNCHANGED <<callVars, tasks, sem, closed, job, ended, verdicts, accepted, rejected, stop>>
(* Variant: a body that panics does not close the completion channel.      *)
BodyEndSilent(w) ==
  /\ Step(w, "running", "ended")
  /\ UNCHANGED <<callVars, tasks, sem, closed, job, ended, verdicts, active, accepted, rejected, stop>>

(* The body returns or panics; SubmitWait's completion channel is closed   *)
(* by a defer of the body itself.                                          *)
BodyEnd(w) ==
  /\ Step(w, "running", "ended")
  /\ ended' = ended \cup {job[w]}
  /\ UNCHANGED <<callVars, tasks, sem, closed, job, verdicts, active, accepted, rejected, stop>>

(* done(success), FALSE after a panic or a 5xx; then active.Add(-1).       *)
Settle(w) ==
  /\ Step(w, "ended", "settled")
  /\ \E ok \in BOOLEAN : Settled(job[w], ok)
  /\ active' = active - 1
  /\ UNCHANGED <<callVars, tasks, sem, closed, job, ended, accepted, rejected, stop>>

Release(w) ==
  /\ Step(w, "settled", "idle")
  /\ sem > 0 /\ sem' = sem - 1
  /\ job' = [job EXCEPT ![w] = None]
  /\ UNCHANGED <<callVars, tasks, closed, ended, verdicts, active, accepted, rejected, stop>>
(* Variant: a worker of a closed pool leaves what is queued behind.        *)
ExitUndrained(w) ==
  /\ Step(w, "idle", "exited")
  /\ closed
  /\ UNCHANGED <<callVars, tasks, sem, closed, job, ended, verdicts, active, accepted, rejected, stop>>

Exit(w) ==
  /\ Step(w, "idle", "exited")
  /\ closed /\ tasks = <<>>
  /\ UNCHANGED <<callVars, tasks, sem, closed, job, ended, verdicts, active, accepted, rejected, stop>>

-----------------------------------------------------------------------------
(* Stop: the first caller runs the body of stopOnce, the others wait for   *)
(* it to finish.                                                           *)

StopGoto(s, from, to) == stop[s] = from /\ stop' = [stop EXCEPT ![s] = to]

OnceTaken == \E s \in Stoppers : stop[s] \in {"locking", "draining", "returned"}

StopBegin(s) ==
  /\ ~OnceTaken
  /\ StopGoto(s, "idle", "locking")
  /\ UNCHANGED <<callVars, tasks, sem, closed, workVars, verdicts, accepted, rejected>>

Readers == {r \in Requests : pc[r] \in {"sending", "sent"}}
(* Variant: the channel is closed without the write lock.                  *)
StopCloseUnlocked(s) ==
  /\ StopGoto(s, "locking", "draining")
  /\ closed' = TRUE
  /\ UNCHANGED <<callVars, tasks, sem, workVars, verdicts, accepted, rejected>>

StopClose(s) ==
  /\ Readers = {}
  /\ StopGoto(s, "locking", "draining")
  /\ closed' = TRUE
  /\ UNCHANGED <<callVars, tasks, sem, workVars, verdicts, accepted, rejected>>

StopReturn(s) ==
  /\ \A w \in Workers : worker[w] = "exited"
  /\ StopGoto(s, "draining", "returned")
  /\ UNCHANGED <<callVars, tasks, sem, closed, workVars, verdicts, accepted, rejected>>

StopJoin(s) ==
  /\ OnceTaken
  /\ StopGoto(s, "idle", "joining")
  /\ UNCHANGED <<callVars, tasks, sem, closed, workVars, verdicts, accepted, rejected>>

StopJoined(s) ==
  /\ StopReturned
  /\ StopGoto(s, "joining", "returned")
  /\ UNCHANGED <<callVars, tasks, sem, closed, workVars, verdicts, accepted, rejected>>

-----------------------------------------------------------------------------
(* Everything has been called and has returned.                            *)
Quiet ==
  /\ \A r \in Requests : pc[r] = "returned"
  /\ \A w \in Workers : worker[w] = "exited"
  /\ \A s \in Stoppers : stop[s] = "returned"

Rest == Quiet /\ UNCHANGED vars

CallStep(r) ==
  \/ AcquireToken(r) \/ AcquireFail(r)
  \/ RLockOpen(r) \/ RLockClosed(r)
  \/ Send(r) \/ Accept(r) \/ WaitDone(r)

WorkerStep(w) ==
  Receive(w) \/ Start(w) \/ BodyEnd(w) \/ Settle(w) \/ Release(w) \/ Exit(w)

StopStep(s) == StopClose(s) \/ StopReturn(s) \/ StopJoined(s)

Next ==
  \/ \E r \in Requests : GateAllow(r) \/ GateRefuse(r) \/ CallStep(r)
  \/ \E w \in Workers : WorkerStep(w)
  \/ \E s \in Stoppers : StopBegin(s) \/ StopJoin(s) \/ StopStep(s)
  \/ Rest

Spec == Init /\ [][Next]_vars

(* The Go scheduler runs every runnable goroutine, and task bodies return. *)
(* Nobody is obliged to call Submit or Stop.                               *)
Fairness ==
  /\ \A r \in Requests : WF_vars(CallStep(r))
  /\ \A w \in Workers : WF_vars(WorkerStep(w))
  /\ \A s \in Stoppers : WF_vars(StopStep(s))

FairSpec == Spec /\ Fairness

-----------------------------------------------------------------------------
(* Properties.                                                             *)

Queued == Range(tasks)
Jobs   == {w \in Workers : job[w] # None}
OnWorker(r) == \E w \in Workers : job[w] = r

(* The calls that hold a token and have not handed it to the channel.      *)
Carriers == {r \in Requests : pc[r] \in {"token", "sending"}}

Ran == {r \in Requests : pc[r] \in {"sent", "waiting", "returned"} /\ result[r] \notin Sheds}

(* Every variable has its type.                                            *)
TypeOK ==
  /\ pc \in [Requests -> CallPCs]
  /\ result \in [Requests -> Sheds \cup {"none", "ok"}]
  /\ tasks \in Seq(Requests)
  /\ sem \in 0 .. Capacity
  /\ closed \in BOOLEAN
  /\ worker \in [Workers -> WorkerPCs]
  /\ job \in [Workers -> Requests \cup {None}]
  /\ ended \subseteq Requests
  /\ verdicts \in [Requests -> Seq(BOOLEAN)]
  /\ active \in Int /\ accepted \in Nat /\ rejected \in Nat
  /\ stop \in [Stoppers -> StopPCs]
  /\ late \subseteq Requests

(* A worker holds a task exactly while it is busy.                         *)
JobOK ==
  \A w \in Workers :
    job[w] # None <=> worker[w] \in {"took", "running", "ended", "settled"}

(* Every taken token is accounted for: a call carries it to the channel,   *)
(* its task lies in the channel, or a worker holds the task (the comment   *)
(* of Pool and line 175 rest on it).                                       *)
TokenAccounting ==
  sem = Cardinality(Carriers) + Len(tasks) + Cardinality(Jobs)

(* The send under the read lock finds room (line 175), so that a writer    *)
(* waiting in Stop is never kept waiting by a blocked reader.              *)
SendNeverBlocks == \A r \in Requests : pc[r] = "sending" => Len(tasks) < Capacity

(* No send happens on the closed channel, which would panic in the caller. *)
NoSendOnClosed == \A r \in Requests : pc[r] = "sending" => ~closed

(* The receive that gives a token back finds one, in the worker and in the *)
(* path of a stopped pool, so that neither blocks for good.                *)
ReleaseNeverBlocks ==
  (\E w \in Workers : job[w] # None) \/ Carriers # {} => sem > 0

(* The channel operations of pool.go never block for good and never panic. *)
ChannelSafety == SendNeverBlocks /\ NoSendOnClosed /\ ReleaseNeverBlocks

(* Gate.Allow's contract: done is called at most once for an admitted      *)
(* call, never for one the gate refused, and has been called once the call *)
(* was shed or the worker let go of the task.                              *)
DoneExactlyOnce ==
  \A r \in Requests :
    /\ Len(verdicts[r]) <= 1
    /\ result[r] = "overloaded" => verdicts[r] = <<>>
    /\ result[r] \in {"full", "timeout", "stopped"} => verdicts[r] = <<FALSE>>
    /\ r \in Ran /\ r \notin Queued /\ ~OnWorker(r) => verdicts[r] # <<>>

(* A call that was answered with an error never has its task executed, not *)
(* even later.                                                             *)
ShedNeverRuns ==
  \A r \in Requests :
    result[r] \in Sheds => r \notin Queued /\ ~OnWorker(r) /\ r \notin ended

(* When a call of Stop has returned the queue is drained: every accepted   *)
(* task has ended and is settled, no worker is left, every token still out *)
(* is with a call that will give it back, and no later call is accepted.   *)
StopDrains ==
  StopReturned =>
    /\ tasks = <<>> /\ active = 0
    /\ \A w \in Workers : worker[w] = "exited" /\ job[w] = None
    /\ \A r \in Ran : r \in ended /\ verdicts[r] # <<>>
    /\ sem = Cardinality(Carriers)
    /\ late \cap Ran = {}

(* A worker that is not waiting for anybody.                               *)
CanWork(w) ==
  \/ worker[w] \in {"took", "running", "ended"}
  \/ worker[w] = "settled" /\ sem > 0
  \/ worker[w] = "idle" /\ (tasks # <<>> \/ closed)

(* No wait is in vain, without a further call from outside: while a call   *)
(* waits for its task, the worker that holds it can go on or, if the task  *)
(* is queued, some worker can; Stop waits for workers that can go on; and  *)
(* the other calls of Stop wait for one that has begun.                    *)
NobodyWaitsInVain ==
  /\ \A r \in Requests : pc[r] = "waiting" =>
       \/ r \in ended
       \/ \E w \in Workers : job[w] = r /\ CanWork(w)
       \/ r \in Queued /\ \E w \in Workers : CanWork(w)
  /\ \A s \in Stoppers : stop[s] = "draining" =>
       (\A w \in Workers : worker[w] = "exited") \/ \E w \in Workers : CanWork(w)
  /\ (\E s \in Stoppers : stop[s] = "joining") => OnceTaken

(* Every call returns, whatever Stop does meanwhile.                       *)
CallsReturn == \A r \in Requests : pc[r] # "new" ~> pc[r] = "returned"

(* Every call of Stop returns, however many calls race with it.            *)
StopsReturn == \A s \in Stoppers : stop[s] # "idle" ~> stop[s] = "returned"

(* The pool as its callers see it.                                         *)
Status(r) ==
  CASE result[r] \in Sheds -> "shed"
    [] r \in Queued        -> "queued"
    [] OnWorker(r)         -> "running"
    [] r \in Ran /\ r \notin Queued /\ ~OnWorker(r) -> "done"
    [] OTHER               -> "new"

Abstract == INSTANCE SheddingQueue WITH
  Parallelism <- Cardinality(Workers), MayDrop <- FALSE,
  status <- [r \in Requests |-> Status(r)], stopped <- StopReturned

(* The pool implements the shedding queue: admission within the budget, at *)
(* most Workers tasks at a time, each admitted task run to its end, and a  *)
(* Stop that returns with nothing in flight.                               *)
ImplementsSheddingQueue == Abstract!Spec

(* What is queued is started, and what runs finishes.                      *)
AdmittedIsServed == Abstract!Fairness

(* Everybody is served: each call of Submit and of Stop returns, and each  *)
(* admitted task ends, also one that no call waits for.                    *)
EveryoneIsServed == CallsReturn /\ StopsReturn /\ AdmittedIsServed

=============================================================================
