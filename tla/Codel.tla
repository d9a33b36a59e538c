-------------------------------- MODULE Codel --------------------------------
(***************************************************************************)
(* queue.CodelPool (src/queue/codel.go): worker goroutines behind a slice  *)
(* guarded by a mutex and a condition variable.  At each dequeue CoDel     *)
(* looks at how long the oldest task has waited and may drop it; while it  *)
(* is dropping, adaptive LIFO serves the newest task.                      *)
(*                                                                         *)
(* A section under p.mu is one step.  The clock is an integer that may     *)
(* advance between any two steps; it starts at 1, so that 0 is Go's zero   *)
(* time.  lastBelow and lastEmpty are history: when a dequeue last found   *)
(* the oldest task below the target, and when the queue was last empty.    *)
(***************************************************************************)
EXTENDS Integers, Sequences, FiniteSets

CONSTANTS Requests,      \* the calls of Submit, SubmitWait and Handler
          Workers,       \* worker goroutines, at least one
          QueueCapacity, \* cfg.Capacity, at least 1
          Target, Interval,   \* cfg.Target, cfg.Interval, in clock ticks
          AdaptiveLIFO,  \* cfg.AdaptiveLIFO
          GateAnswers,   \* what gate.Allow may answer; {TRUE}: no gate
          Stoppers,      \* goroutines that call Stop
          MaxTime,       \* bound on the clock
          None           \* no task

ASSUME CodelAssumption ==
  /\ IsFiniteSet(Requests) /\ IsFiniteSet(Workers) /\ IsFiniteSet(Stoppers)
  /\ Workers # {}
  /\ QueueCapacity \in Nat \ {0}
  /\ Target \in Nat \ {0} /\ Interval \in Nat \ {0} /\ MaxTime \in Nat
  /\ AdaptiveLIFO \in BOOLEAN
  /\ GateAnswers \subseteq BOOLEAN /\ TRUE \in GateAnswers
  /\ None \notin Requests

VARIABLES
  now,                                      \* p.now()
  buf, closed,                              \* p.buf, p.closed
  dropping, firstAbove, dropNext, count,    \* the CoDel control state
  pc, result,                               \* the calls
  worker, job,                              \* the workers and their tasks
  outcome,                                  \* how the task ended: closes SubmitWait's done
  verdicts,                                 \* calls of the gate's done, per request
  active, accepted, rejected, dropped,      \* the counters behind Stats
  stop,                                     \* the calls of Stop
  lastBelow, lastEmpty                      \* history

control  == <<dropping, firstAbove, dropNext, count>>
history  == <<lastBelow, lastEmpty>>
callVars == <<pc, result>>
counters == <<active, accepted, rejected, dropped>>
vars == <<now, buf, closed, control, callVars, worker, job, outcome, verdicts,
          counters, stop, history>>

Sheds     == {"overloaded", "full", "stopped"}
CallPCs   == {"new", "gated", "waiting", "returned"}
WorkerPCs == {"idle", "parked", "discarding", "took", "running", "ended", "exited"}
StopPCs   == {"idle", "draining", "joining", "returned"}

Init ==
  /\ now = 1
  /\ buf = <<>> /\ closed = FALSE
  /\ dropping = FALSE /\ firstAbove = 0 /\ dropNext = 0 /\ count = 0
  /\ pc = [r \in Requests |-> "new"]
  /\ result = [r \in Requests |-> "none"]
  /\ worker = [w \in Workers |-> "idle"]
  /\ job = [w \in Workers |-> None]
  /\ outcome = [r \in Requests |-> "none"]
  /\ verdicts = [r \in Requests |-> <<>>]
  /\ active = 0 /\ accepted = 0 /\ rejected = 0 /\ dropped = 0
  /\ stop = [s \in Stoppers |-> "idle"]
  /\ lastBelow = 1 /\ lastEmpty = 1

(* The queue has been empty up to the present as long as it is empty.      *)
Tick ==
  /\ now < MaxTime
  /\ now' = now + 1
  /\ lastEmpty' = IF buf = <<>> THEN now' ELSE lastEmpty
  /\ UNCHANGED <<buf, closed, control, callVars, worker, job, outcome, verdicts,
                 counters, stop, lastBelow>>

-----------------------------------------------------------------------------
(* The calls.                                                              *)

Goto(r, from, to) == pc[r] = from /\ pc' = [pc EXCEPT ![r] = to]

Return(r, from, res) ==
  Goto(r, from, "returned") /\ result' = [result EXCEPT ![r] = res]

Settled(r, ok) == verdicts' = [verdicts EXCEPT ![r] = Append(@, ok)]

GateAllow(r) ==
  /\ TRUE \in GateAnswers
  /\ Goto(r, "new", "gated")
  /\ UNCHANGED <<now, buf, closed, control, result, worker, job, outcome, verdicts,
                 counters, stop, history>>

GateRefuse(r) ==
  /\ FALSE \in GateAnswers
  /\ Return(r, "new", "overloaded")
  /\ rejected' = rejected + 1
  /\ UNCHANGED <<now, buf, closed, control, worker, job, outcome, verdicts,
                 active, accepted, dropped, stop, history>>

SubmitStopped(r) ==
  /\ closed
  /\ Return(r, "gated", "stopped")
  /\ Settled(r, FALSE)
  /\ UNCHANGED <<now, buf, closed, control, worker, job, outcome,
                 counters, stop, history>>
(* Variant: the gate is not told.                                          *)
SubmitFullSilent(r) ==
  /\ ~closed
  /\ Len(buf) >= QueueCapacity
  /\ Return(r, "gated", "full")
  /\ rejected' = rejected + 1
  /\ UNCHANGED <<now, buf, closed, control, worker, job, outcome, verdicts,
                 active, accepted, dropped, stop, history>>

SubmitFull(r) ==
  /\ ~closed
  /\ Len(buf) >= QueueCapacity
  /\ Return(r, "gated", "full")
  /\ rejected' = rejected + 1
  /\ Settled(r, FALSE)
  /\ UNCHANGED <<now, buf, closed, control, worker, job, outcome,
                 active, accepted, dropped, stop, history>>

Parked == {w \in Workers : worker[w] = "parked"}

(* notEmpty.Signal() wakes one waiting worker, if there is one.            *)
Signal ==
  IF Parked = {}
    THEN UNCHANGED worker
    ELSE \E w \in Parked : worker' = [worker EXCEPT ![w] = "idle"]
(* Variants: the newest task goes to the head, or a worker is signalled    *)
(* only when the queue was empty.                                          *)
EnqueueFront(r) ==
  /\ ~closed
  /\ Len(buf) < QueueCapacity
  /\ buf' = <<[task |-> r, enq |-> now]>> \o buf
  /\ accepted' = accepted + 1
  /\ Signal
  /\ Return(r, "gated", "ok")
  /\ UNCHANGED <<now, closed, control, job, outcome, verdicts,
                 active, rejected, dropped, stop, history>>

EnqueueSignalsFirst(r) ==
  /\ ~closed
  /\ Len(buf) < QueueCapacity
  /\ buf' = Append(buf, [task |-> r, enq |-> now])
  /\ accepted' = accepted + 1
  /\ IF buf = <<>> THEN Signal ELSE UNCHANGED worker
  /\ Return(r, "gated", "ok")
  /\ UNCHANGED <<now, closed, control, job, outcome, verdicts,
                 active, rejected, dropped, stop, history>>

(* Submit returns nil; SubmitWait and Handler wait for the task.           *)
Enqueue(r) ==
  /\ ~closed
  /\ Len(buf) < QueueCapacity
  /\ buf' = Append(buf, [task |-> r, enq |-> now])
  /\ accepted' = accepted + 1
  /\ Signal
  /\ \/ Return(r, "gated", "ok")
     \/ Goto(r, "gated", "waiting") /\ UNCHANGED result
  /\ UNCHANGED <<now, closed, control, job, outcome, verdicts,
                 active, rejected, dropped, stop, history>>

(* <-done; ErrDropped if it was the drop callback that closed it.          *)
WaitDone(r) ==
  /\ outcome[r] # "none"
  /\ Return(r, "waiting", IF outcome[r] = "dropped" THEN "dropped" ELSE "ok")
  /\ UNCHANGED <<now, buf, closed, control, worker, job, outcome, verdicts,
                 counters, stop, history>>

-----------------------------------------------------------------------------
(* shouldDrop, evaluated on the oldest task.                               *)

Below == now - buf[1].enq < Target

Standing == ~Below /\ firstAbove # 0 /\ now >= firstAbove

ShouldDrop == Standing /\ (dropping => now >= dropNext)

(* time.Duration(interval / sqrt(n)): the largest d with d*d*n <= interval^2 *)
DropDelay(n) ==
  CHOOSE d \in 0 .. Interval :
    d * d * n <= Interval * Interval /\ (d + 1) * (d + 1) * n > Interval * Interval
(* Variants of the return below the target: the dropping flag stays, or    *)
(* the timer of the standing queue runs on.                                *)
ControlLawStaysDropping ==
  CASE Below -> firstAbove' = 0 /\ UNCHANGED <<dropping, dropNext, count>>
    [] ~Below /\ firstAbove = 0 ->
         firstAbove' = now + Interval /\ UNCHANGED <<dropping, dropNext, count>>
    [] ShouldDrop ->
         dropping' = TRUE /\ count' = 1 /\ dropNext' = now + Interval /\ UNCHANGED firstAbove
    [] OTHER -> UNCHANGED control

ControlLawKeepsTimer ==
  CASE Below -> dropping' = FALSE /\ UNCHANGED <<firstAbove, dropNext, count>>
    [] ~Below /\ firstAbove = 0 ->
         firstAbove' = now + Interval /\ UNCHANGED <<dropping, dropNext, count>>
    [] ShouldDrop ->
         dropping' = TRUE /\ count' = 1 /\ dropNext' = now + Interval /\ UNCHANGED firstAbove
    [] OTHER -> UNCHANGED control

ControlLaw ==
  CASE Below ->
         firstAbove' = 0 /\ dropping' = FALSE /\ UNCHANGED <<dropNext, count>>
    [] ~Below /\ firstAbove = 0 ->
         firstAbove' = now + Interval /\ UNCHANGED <<dropping, dropNext, count>>
    [] ShouldDrop /\ ~dropping ->
         dropping' = TRUE /\ count' = 1 /\ dropNext' = now + Interval /\ UNCHANGED firstAbove
    [] ShouldDrop /\ dropping ->
         /\ count' = count + 1
         /\ dropNext' = now + DropDelay(count + 1)
         /\ UNCHANGED <<dropping, firstAbove>>
    [] OTHER -> UNCHANGED control

NoteDequeue ==
  /\ lastBelow' = IF Below THEN now ELSE lastBelow
  /\ lastEmpty' = IF buf' = <<>> THEN now ELSE lastEmpty

-----------------------------------------------------------------------------
(* The workers.                                                            *)

Step(w, from, to) == worker[w] = from /\ worker' = [worker EXCEPT ![w] = to]

Park(w) ==
  /\ buf = <<>> /\ ~closed
  /\ Step(w, "idle", "parked")
  /\ UNCHANGED <<now, buf, closed, control, callVars, job, outcome, verdicts,
                 counters, stop, history>>
(* Variant: a worker of a closed pool leaves what is queued behind.        *)
ExitUndrained(w) ==
  /\ closed
  /\ Step(w, "idle", "exited")
  /\ UNCHANGED <<now, buf, closed, control, callVars, job, outcome, verdicts,
                 counters, stop, history>>

Exit(w) ==
  /\ buf = <<>> /\ closed
  /\ Step(w, "idle", "exited")
  /\ UNCHANGED <<now, buf, closed, control, callVars, job, outcome, verdicts,
                 counters, stop, history>>

RemoveAt(s, i) == SubSeq(s, 1, i - 1) \o SubSeq(s, i + 1, Len(s))

Take(w, i) ==
  /\ job' = [job EXCEPT ![w] = buf[i].task]
  /\ buf' = RemoveAt(buf, i)

DropOldest(w) ==
  /\ buf # <<>> /\ ShouldDrop
  /\ Step(w, "idle", "discarding")
  /\ ControlLaw
  /\ Take(w, 1)
  /\ dropped' = dropped + 1
  /\ NoteDequeue
  /\ UNCHANGED <<now, closed, callVars, outcome, verdicts, active, accepted, rejected, stop>>

(* p.dropping is read after shouldDrop has set it.                         *)
Serve(w) ==
  /\ buf # <<>> /\ ~ShouldDrop
  /\ Step(w, "idle", "took")
  /\ ControlLaw
  /\ Take(w, IF AdaptiveLIFO /\ dropping' THEN Len(buf) ELSE 1)
  /\ NoteDequeue
  /\ UNCHANGED <<now, closed, callVars, outcome, verdicts, counters, stop>>

(* onDrop, outside the lock: done(false), then SubmitWait's done.          *)
Discard(w) ==
  /\ Step(w, "discarding", "idle")
  /\ Settled(job[w], FALSE)
  /\ outcome' = [outcome EXCEPT ![job[w]] = "dropped"]
  /\ job' = [job EXCEPT ![w] = None]
  /\ UNCHANGED <<now, buf, closed, control, callVars, counters, stop, history>>

Start(w) ==
  /\ Step(w, "took", "running")
  /\ active' = active + 1
  /\ UNCHANGED <<now, buf, closed, control, callVars, job, outcome, verdicts,
                 accepted, rejected, dropped, stop, history>>

BodyEnd(w) ==
  /\ Step(w, "running", "ended")
  /\ outcome' = [outcome EXCEPT ![job[w]] = "ran"]
  /\ UNCHANGED <<now, buf, closed, control, callVars, job, verdicts,
                 counters, stop, history>>

(* done(success), FALSE after a panic or a 5xx; then active.Add(-1).       *)
Settle(w) ==
  /\ Step(w, "ended", "idle")
  /\ \E ok \in BOOLEAN : Settled(job[w], ok)
  /\ active' = active - 1
  /\ job' = [job EXCEPT ![w] = None]
  /\ UNCHANGED <<now, buf, closed, control, callVars, outcome,
                 accepted, rejected, dropped, stop, history>>

-----------------------------------------------------------------------------
(* Stop.                                                                   *)

StopGoto(s, from, to) == stop[s] = from /\ stop' = [stop EXCEPT ![s] = to]

StopReturned == \E s \in Stoppers : stop[s] = "returned"
OnceTaken    == \E s \in Stoppers : stop[s] \in {"draining", "returned"}
(* Variant: the sleeping workers are not woken.                            *)
StopCloseQuiet(s) ==
  /\ ~OnceTaken
  /\ StopGoto(s, "idle", "draining")
  /\ closed' = TRUE
  /\ UNCHANGED <<now, buf, control, callVars, worker, job, outcome, verdicts, counters, history>>

(* closed, and notEmpty.Broadcast().                                       *)
StopClose(s) ==
  /\ ~OnceTaken
  /\ StopGoto(s, "idle", "draining")
  /\ closed' = TRUE
  /\ worker' = [w \in Workers |-> IF w \in Parked THEN "idle" ELSE worker[w]]
  /\ UNCHANGED <<now, buf, control, callVars, job, outcome, verdicts, counters, history>>
(* Variant: the workers are not waited for.                                *)
StopReturnEarly(s) ==
  /\ StopGoto(s, "draining", "returned")
  /\ UNCHANGED <<now, buf, closed, control, callVars, worker, job, outcome, verdicts,
                 counters, history>>

StopReturn(s) ==
  /\ \A w \in Workers : worker[w] = "exited"
  /\ StopGoto(s, "draining", "returned")
  /\ UNCHANGED <<now, buf, closed, control, callVars, worker, job, outcome, verdicts,
                 counters, history>>

StopJoin(s) ==
  /\ OnceTaken
  /\ StopGoto(s, "idle", "joining")
  /\ UNCHANGED <<now, buf, closed, control, callVars, worker, job, outcome, verdicts,
                 counters, history>>

StopJoined(s) ==
  /\ StopReturned
  /\ StopGoto(s, "joining", "returned")
  /\ UNCHANGED <<now, buf, closed, control, callVars, worker, job, outcome, verdicts,
                 counters, history>>

-----------------------------------------------------------------------------
(* Nothing is under way: every call has returned, the queue is empty, the  *)
(* workers sleep or are gone, and Stop has not been called or has returned. *)
Quiet ==
  /\ \A r \in Requests : pc[r] = "returned"
  /\ buf = <<>>
  /\ \A w \in Workers : worker[w] \in {"parked", "exited"}
  /\ \A s \in Stoppers : stop[s] \in {"idle", "returned"}

Rest == Quiet /\ UNCHANGED vars

CallStep(r) == SubmitStopped(r) \/ SubmitFull(r) \/ Enqueue(r) \/ WaitDone(r)

WorkerStep(w) ==
  \/ Park(w) \/ Exit(w) \/ DropOldest(w) \/ Serve(w) \/ Discard(w)
  \/ Start(w) \/ BodyEnd(w) \/ Settle(w)

StopStep(s) == StopReturn(s) \/ StopJoined(s)

Next ==
  \/ Tick
  \/ \E r \in Requests : GateAllow(r) \/ GateRefuse(r) \/ CallStep(r)
  \/ \E w \in Workers : WorkerStep(w)
  \/ \E s \in Stoppers : StopClose(s) \/ StopJoin(s) \/ StopStep(s)
  \/ Rest

Spec == Init /\ [][Next]_vars

(* Goroutines are scheduled and task bodies return; the clock need not     *)
(* advance for anything the pool promises.                                 *)
Fairness ==
  /\ \A r \in Requests : WF_vars(CallStep(r))
  /\ \A w \in Workers : WF_vars(WorkerStep(w))
  /\ \A s \in Stoppers : WF_vars(StopStep(s))

FairSpec == Spec /\ Fairness

-----------------------------------------------------------------------------
(* Properties.                                                             *)

Queued == {buf[i].task : i \in DOMAIN buf}
OnWorker(r) == \E w \in Workers : job[w] = r
Accepted == {r \in Requests : pc[r] \in {"waiting", "returned"} /\ result[r] \notin Sheds}

(* Every variable has its type.                                            *)
TypeOK ==
  /\ now \in Nat
  /\ buf \in Seq([task : Requests, enq : Nat])
  /\ closed \in BOOLEAN
  /\ dropping \in BOOLEAN /\ firstAbove \in Nat /\ dropNext \in Nat /\ count \in Nat
  /\ pc \in [Requests -> CallPCs]
  /\ result \in [Requests -> Sheds \cup {"none", "ok", "dropped"}]
  /\ worker \in [Workers -> WorkerPCs]
  /\ job \in [Workers -> Requests \cup {None}]
  /\ outcome \in [Requests -> {"none", "ran", "dropped"}]
  /\ verdicts \in [Requests -> Seq(BOOLEAN)]
  /\ active \in Int /\ accepted \in Nat /\ rejected \in Nat /\ dropped \in Nat
  /\ stop \in [Stoppers -> StopPCs]
  /\ lastBelow \in Nat /\ lastEmpty \in Nat

(* The head is the oldest task (line 250: "head = max sojourn"), also when *)
(* adaptive LIFO takes tasks from the other end, and the queue keeps to    *)
(* its capacity.                                                           *)
HeadIsOldest ==
  /\ \A i \in DOMAIN buf : buf[1].enq <= buf[i].enq
  /\ Len(buf) <= QueueCapacity

(* A worker sleeps on the condition variable only if every queued task has *)
(* an awake worker on its way to it: no Signal is lost or goes to a worker *)
(* that finds the task gone while another sleeps.                          *)
NoLostWakeup ==
  Parked # {} =>
    Len(buf) <= Cardinality({w \in Workers : worker[w] = "idle"})

(* A worker that is not waiting for anybody.                               *)
CanWork(w) ==
  \/ worker[w] \in {"discarding", "took", "running", "ended"}
  \/ worker[w] = "idle" /\ (buf # <<>> \/ closed)

(* No wait is in vain, without a further call from outside: while a call   *)
(* waits for its task, the worker that holds it can go on or, if the task  *)
(* is queued, some worker can; Stop waits for workers that can go on; and  *)
(* the other calls of Stop wait for one that has begun.                    *)
NobodyWaitsInVain ==
  /\ \A r \in Requests : pc[r] = "waiting" =>
       \/ outcome[r] # "none"
       \/ \E w \in Workers : job[w] = r /\ CanWork(w)
       \/ r \in Queued /\ \E w \in Workers : CanWork(w)
  /\ \A s \in Stoppers : stop[s] = "draining" =>
       (\A w \in Workers : worker[w] = "exited") \/ \E w \in Workers : CanWork(w)
  /\ (\E s \in Stoppers : stop[s] = "joining") => OnceTaken

(* Gate.Allow's contract: done is called exactly once, when the task has   *)
(* run, was dropped or was otherwise shed.                                 *)
DoneExactlyOnce ==
  \A r \in Requests :
    /\ Len(verdicts[r]) <= 1
    /\ result[r] = "overloaded" => verdicts[r] = <<>>
    /\ result[r] \in {"full", "stopped"} => verdicts[r] = <<FALSE>>
    /\ outcome[r] = "dropped" => verdicts[r] = <<FALSE>>
    /\ r \in Accepted /\ r \notin Queued /\ ~OnWorker(r) => verdicts[r] # <<>>

(* While CoDel drops, its state is that of one dropping period: it was     *)
(* entered after a full interval, and the next drop is never further away  *)
(* than the control law puts it.                                           *)
ControlConsistent ==
  dropping =>
    /\ firstAbove # 0 /\ firstAbove <= now
    /\ count >= 1
    /\ dropNext <= now + DropDelay(count)

(* CoDel drops only out of a standing queue: for a whole interval no       *)
(* dequeue has found the oldest task below the target.                     *)
DropNeedsStandingQueue ==
  [][dropped' # dropped => now - lastBelow >= Interval]_vars

(* Every call returns, whether its task is run, dropped or refused.        *)
CallsReturn == \A r \in Requests : pc[r] # "new" ~> pc[r] = "returned"

(* Every call of Stop returns.                                             *)
StopsReturn == \A s \in Stoppers : stop[s] # "idle" ~> stop[s] = "returned"

Discarding(r) == \E w \in Workers : job[w] = r /\ worker[w] = "discarding"

Status(r) ==
  CASE result[r] \in Sheds -> "shed"
    [] outcome[r] = "dropped" \/ Discarding(r) -> "dropped"
    [] r \in Queued  -> "queued"
    [] OnWorker(r) /\ ~Discarding(r) -> "running"
    [] outcome[r] = "ran" /\ ~OnWorker(r) -> "done"
    [] OTHER -> "new"

Abstract == INSTANCE SheddingQueue WITH
  Capacity <- QueueCapacity + Cardinality(Workers),
  Parallelism <- Cardinality(Workers), MayDrop <- TRUE,
  status <- [r \in Requests |-> Status(r)], stopped <- StopReturned

(* The pool implements the shedding queue that may drop queued work.       *)
ImplementsSheddingQueue == Abstract!Spec

(* What is queued is started or dropped, and what runs finishes.           *)
AdmittedIsServed == Abstract!Fairness

(* Everybody is served: each call of Submit and of Stop returns, and each  *)
(* admitted task ends, also one that no call waits for.                    *)
EveryoneIsServed == CallsReturn /\ StopsReturn /\ AdmittedIsServed

(* docs.md:512: "a transient queue under `interval` is never dropped".     *)
(* Whatever is dropped comes out of a queue that has not been empty for an *)
(* interval.                                                               *)
TransientNeverDropped ==
  [][dropped' # dropped => now - lastEmpty >= Interval]_vars
=============================================================================
