# load-shedding: TLA+ models and proofs

Specifications of the load-shedding library in `src/`: worker pools with bounded
queues (`queue`), adaptive concurrency limiters (`concurrencylimits`), the Quarkus
port (`quarkus`), and adapters (`gozero`, `sentinel`). Each module is translated
from the Go code; `PROJECT.json` maps each definition to its lines.

## 1. Inventory

| Component | State it keeps | Operations | Hard behaviour |
|---|---|---|---|
| `queue.Pool` (`pool.go`) | semaphore `sem`, channel `tasks`, `closed` under an RWMutex, `stopOnce`, three counters | `Submit`, `SubmitWait`, `Handler`, `Stop`, `Stats`, worker loop | submissions race `Stop`; a send must find room; the token, the gate's `done` and the task each exactly once; `Stop` drains |
| `queue.CodelPool` (`codel.go`) | slice `buf`, `closed`, condition variable, CoDel state (`dropping`, `firstAbove`, `dropNext`, `count`), four counters | the same, plus dropping at dequeue | lost wake-ups, stale control state, newest-first service against oldest-first judgement |
| admission gates (`gate.go`, `gozero/gate.go`) | `enabled`, the controller behind it | `Allow`, its `done`, `SetEnabled` | `done` exactly once; toggled between `Allow` and `done` |
| CPU sampler (`cpu.go`, `cpu_linux.go`) | smoothed usage, previous counters | background refresh, `cpuUsage` | truncation of the average, unsigned wrap |
| `SimpleLimiter` (`limiter.go`) | atomic `inflight`, a `Limit` algorithm | `Acquire`, listener calls | increment, check and decrement are separate steps; the limit moves |
| `LifoBlockingLimiter` (`lifo.go`) | `backlog`, waiters, a delegate limiter | `Acquire`, `unblock` | timer against hand-off; entry into the backlog against the last release |
| limit algorithms (`vegas.go`, `gradient.go`, `gradient2.go`, `fixed.go`), `WindowedLimit` (`windowed.go`) | an estimate under a mutex, a window of samples | `OnSample`, `Limit` | numeric bounds, probing, windows delivered out of order |
| `quarkus.OverloadDetector` (`detector.go`) | atomic count and limit; baseline, probe count and jitter under a mutex | `IsOverloaded`, `RequestBegin`, `RequestEnd` | count taken before the lock and used after it; a baseline that must expire |
| `quarkus.PriorityLoadShedding` (`priority.go`) | threshold and its time under a mutex | `ShedLoad` | clock read before the lock; folding of cohort numbers |
| `quarkus.Shedder` (`shedder.go`) | the two above | `Admit`, `done`, `Handler` | check-then-act |
| HTTP middleware (`handler.go`, `response_writer.go`, `gozero.go`, `sentinel/shedder.go`) | the captured status, the promise of a controller | `Handler`, `WriteHeader`, `Write`, `Unwrap` | which status decides the outcome; each promise settled once, also after a panic |
| `simulate`, `cmd/simulate` | none | a closed-form computation | none |

Interactions. A pool calls its gate before anything else and hands the gate's
`done` to the task; a middleware is a `SubmitWait` whose task serves the request;
`LifoBlockingLimiter` calls `Acquire` of its delegate from two places, with and
without its own mutex; `SimpleLimiter` reads its algorithm after its counter and
feeds it from each listener; `Shedder.Admit` loads the detector's two atomics,
may ask the priority component, and only then counts the request. `WindowedLimit`
feeds an algorithm from whichever caller closes a window, after its lock is released;
a CPU gate reads an average that a background goroutine writes; a gate's switch may
be thrown between `Allow` and `done`.

What makes each correct:

* pools: the number of unfinished accepted tasks stays in the budget; no send
  blocks or panics; an error means the task never runs, acceptance means that it
  ends (or, in `CodelPool`, is dropped); the gate hears of each outcome once;
  `Stop` returns, with nothing left; every caller returns;
* CoDel: the task judged is the oldest, a drop needs a standing queue, no worker
  sleeps next to a task;
* limiters: the counter is exact, concurrency never passes the published limit,
  no permit is lost in the backlog;
* algorithms: the limit stays positive and under its bound, only a loaded service
  raises it, the baseline is renewed, and a window is delivered whole;
* middleware and gates: each promise is settled once, with the outcome that the
  client saw; the CPU average keeps below its plateau;
* Quarkus: the count is exact, the limit stays in range and moves by bounded
  steps, the baseline expires, thresholds are computed at a bounded rate and are fresh
  when they decide, priorities are not reordered.

## 2. Modules

| Module | Models | Composition |
|---|---|---|
| `SheddingQueue` | what both pools promise: shed or admit within a capacity, run at most `Parallelism` at once, close, stop empty | the abstract specification |
| `Pool` | `pool.go` | refines `SheddingQueue` with `MayDrop <- FALSE` |
| `Codel` | `codel.go` | refines `SheddingQueue` with `MayDrop <- TRUE` |
| `SimpleLimiter` | `limiter.go`, one call of `Handler` per call | |
| `LifoLimiter` | `lifo.go` | instantiates `SimpleLimiter` as the delegate, and refines it |
| `Vegas`, `Gradient`, `Gradient2` | `vegas.go`, `gradient.go`, `gradient2.go` with `limit.go` | |
| `WindowedLimit` | `windowed.go` | |
| `AdaptiveLimit` | an algorithm alone or under a window, `fixed.go` | extends `WindowedLimit`, instantiates the three algorithms |
| `CpuSampler` | `cpu.go`, `refreshCpu` of `cpu_linux.go` | |
| `Middleware` | `handler.go`, `gozero`, `sentinel/shedder.go`, `gate.go`, `response_writer.go` | extends `SimpleLimiter`, instantiates `CpuSampler` |
| `OverloadDetector` | `detector.go` | |
| `QuarkusShedder` | `priority.go`, `shedder.go` | instantiates `OverloadDetector` |
| `PoolProofs`, `CodelProofs`, `SimpleLimiterProofs`, `OverloadDetectorProofs`, `AdaptiveLimitProofs` | theorems | extend the modules they are about |
| `LifoLimiterProofs` | theorems | extends `LifoLimiter`, instantiates `SimpleLimiterProofs` for the delegate |
| `QuarkusShedderProofs` | theorems | extends `QuarkusShedder`, instantiates `OverloadDetectorProofs` |
| `MiddlewareProofs` | theorems | extends `Middleware` and `SimpleLimiterProofs` |
| `MC*` | instances for TLC | |

### Granularity

A step is the code up to the next operation that another goroutine can observe:
an atomic operation, a channel operation, or a critical section. A section under
a plain mutex that calls nothing outside is one step (all of `CodelPool`,
`ShedLoad`, `OverloadDetector.update`). `unblock` calls its delegate, which takes
no lock, in the middle of its section, so `LifoLimiter` keeps the owner `mu` of
the mutex over several steps. `Pool`'s read lock spans the send and the counter,
so readers are visible (`pc` in `sending`, `sent`), and a `Stop` that waits for
the write lock (`locking`) keeps new readers out, as `sync.RWMutex` does.

### Pool

`pc[r]` follows one call through `submitWithOutcome`: `new`, gate (`GateAllow`,
`GateRefuse`), `acquire` (`AcquireToken`, `AcquireFail`), `token`, the closed
check (`RLockOpen`, `RLockClosed`), `sending` (`Send`), `sent` (`Accept`), then
`returned`, or `waiting` and `WaitDone` for `SubmitWait` and `Handler`. `worker[w]`
follows the loop: `Receive`, `Start` (`active.Add(1)`), `BodyEnd` (the body's own
defer closes `SubmitWait`'s channel), `Settle` (`done`, `active.Add(-1)`), `Release`
(`<-p.sem`), `Exit`. `stop[s]` follows `Stop` under `sync.Once`: the first caller
goes through `StopBegin`, `StopClose`, `StopReturn`, the others through `StopJoin`,
`StopJoined`. `verdicts[r]` lists the calls of the gate's `done`; `late` is a
history variable, the calls begun after some `Stop` returned.

Abstractions: when a token or a task becomes free, a newcomer may take it before a
goroutine that already waits (Go hands over in order; the model allows more). With
`MaxWait > 0` the timer may win at any time, whether or not a token is free. A task
returns or panics; it does not end its goroutine and does not call its own pool. A
gate answers any value of `GateAnswers`.

### Codel

`buf` holds `[task, enq]` records, `now` is the injected clock, and 0 stands for
Go's zero time (the clock starts at 1). `ControlLaw` is `shouldDrop`'s writes;
`ShouldDrop` its answer, both on the head. `DropOldest` and `Serve` are one
iteration of the worker under the mutex; `Serve` reads `dropping'`, the value
`shouldDrop` has just written. `Park` and `Signal` are the condition variable: a
worker asleep (`parked`) is woken by one `Signal` or by `StopClose`'s broadcast, and
a woken worker (`idle`) re-checks the queue. `Discard` is the drop callback, outside
the lock. `DropDelay(n)` is `interval/sqrt(n)` truncated. `lastBelow` and
`lastEmpty` are history.

### SimpleLimiter and LifoLimiter

`at[c]` follows one `Acquire` and its listener; `current[c]` is what `Add(1)`
returned. `Finish` may be called any number of times on a listener, and only the
first counts out. The algorithm is any new member of `Limits` after each sample.
`LifoLimiter` names the delegate's calls `<<r, "try">>` and `<<r, "unblock">>`; a
request's `listener` is the delegate's call behind it, set by itself on the fast
path or by `UnblockGrant` of another request.

### The limit algorithms and WindowedLimit

Each algorithm's `OnSample` is one section under its mutex, so it is one step, split
into the ways through it (`Probe`, `LowerBaseline`, `Update`). Limits and averages
are in tenths and gradients in thousandths, rounded down, where the code has
`float64`; no property rests on an exact fraction. `Vegas` with its default smoothing
stays whole, and its `QueueSizes` allows for the rounding of the ceiling as in
`OverloadDetector`. What the code lets happen and the model keeps: `GradientLimit`
applies its queue size after `maxLimit`, so that a `maxLimit` below four is exceeded;
its probe sets the limit without looking at `maxLimit`; `Gradient2Limit` ignores
`didDrop`. `LimitInRange` states the bounds that do hold. `RaisedOnlyWhenLoaded` makes two
exceptions: `Gradient2Limit`, and a `GradientLimit` below the larger of its `minLimit` and
its least queue size of four. No option rejects an initial limit or a `maxLimit` that puts
it there, and the next sample, a drop or a probe as well, may lift it, but no further than
to that number. The instance begins below its minimum and has a maximum below it, so both
exceptions are taken. The initial limit and the minimum are assumed positive, no more: as
no option checks them either, a caller who gives nought is outside the model.

In `WindowedLimit` a caller reads the clock (`ReadClock`), enters the lock in one of
four ways (`StartWindow`, `Accumulate`, `Discard`, `Close`), and after `Close` calls
the algorithm as a step of its own (`Deliver`, composed with `OnSample` in
`AdaptiveLimit`). `members` and `origin` are history: which samples a window holds.
An algorithm alone is given arbitrary samples, those of a window among them, so that
one stack with a window per kind of algorithm is enough to check the composition.

### Middleware and CpuSampler

`stack` says what serves the requests: one of the four middleware, a user of the CPU
gate, or `bare`, users of `SimpleLimiter` who may call a listener as often as they
like. `phase[c]` follows a request through admission, the handler and the deferred
function; `limiter` goes through the steps of `SimpleLimiter` for both. A handler may
call `WriteHeader` with any member of `Statuses`, write, flush through
`http.ResponseController`, panic and return, in any order and number. `resp[c]` holds
what the writer recorded, what net/http sent, and what it would have sent without the
writer. The switch of a gate may be thrown at any time. go-zero's shedder and Sentinel
are external: they grant or refuse freely, and `flying` counts their open promises.
The pool behind a gate is modelled in `Pool` and `Codel`; here it runs a request or
sheds it.

`CpuSampler` keeps the kernel's ticks times `time.Second` modulo `Width` (2^64), the
cgroup's consumption since the last successful reading (`pending`), and the average.
Only the sampler is modelled, not the function that a caller of `CPUThresholdGate` may
give in its place. Either file may fail to be read. The average is the truncated sum of the code, and may
come out one lower where the exact sum is whole, as floating point does for some of
the values.

### OverloadDetector and QuarkusShedder

A slot is a goroutine that serves one request after the other. `RequestLeave` is
the atomic decrement, `Update*` the five ways through `update`, and `carried` the
local variable between the two; it is set back to 0 when `update` returns, since
the code has no such variable then. The response time is any member of `Rtts`.
`probeJitter` is a whole number of `1/JitterUnit`, any from one half to one
(`JitterRange`): the code draws from [0.5, 1), and the sum may be rounded to one. `QueueSizes` is the ceiling
of `limit * (1 - lowest/rtt)`; when the exact value is a positive whole number the
floating-point product may lie just above it, and both outcomes are allowed.
`MaxInt` stands for `math.MaxInt64`, above every response time. In `QuarkusShedder`,
`LoadRequests` and `CompareLimit` are the two atomic loads of `IsOverloaded`,
`ReadClock` the clock read before the lock, `Recompute` and `Reuse` the critical
section of `ShedLoad`; `StepBack` sets the wall clock back, but not to before the shedder
was built; `enabled` is chosen when the shedder is built. CPU loads are in tenths and
thresholds in thousandths, so that the cubic formula is exact; a clock tick is the
threshold's lifetime. `computations` and `computedAt` are history and say how many thresholds
were computed and when the last one was, by the clock at that moment and not by the one
that the call had read before the lock; `latest` and `setBack` are the clock's own history.

### Variants

Each modelled module carries a few operators whose comment starts with "Variant":
an action with a slip that the code could have had (a guard dropped, a reset
forgotten). No specification uses them. Putting one in the place of the operator
after it makes the property that `PROJECT.json` ("mutants") names fail, which shows
that the property depends on that line of the code.

## 3. What the runs check

Passing runs (distinct states in parentheses):

| Run | Instance | Properties |
|---|---|---|
| `MCPool` (61,669) | 4 calls, 2 workers, 1 queue slot, one `Stop`, a gate that may refuse | `TypeOK`, `TokenAccounting`, `ChannelSafety`, `DoneExactlyOnce`, `ShedNeverRuns`, `StopDrains` |
| `MCPoolLive` (85,106) | 3 calls with `MaxWait`, 1 worker, 1 slot, 2 callers of `Stop` | `NobodyWaitsInVain`, `EveryoneIsServed`, `ImplementsSheddingQueue` |
| `MCCodel` (1,014,448) | 4 calls, 2 workers, capacity 3, adaptive LIFO, a clock up to 6, target 1, interval 2 | `HeadIsOldest`, `NoLostWakeup`, `DoneExactlyOnce`, `ControlConsistent`, `DropNeedsStandingQueue` |
| `MCCodelLive` (44,972) | 2 calls, 2 workers, 2 callers of `Stop`, a clock up to 3, a gate that may refuse | `NobodyWaitsInVain`, `EveryoneIsServed`, `ImplementsSheddingQueue` |
| `MCLifo` (35,695) | 3 requests, backlog 2, limits 0, 1, 2, fairness | `BacklogExact`, `NoPermitLeak`, `UsersWithinLimits`, `DrainedToZero`, `AcquireReturns` |
| `MCDetector` (84,645) | 5 slots, limits 1..11, probe factor 1, three response times | `CountExact`, `BaselineIsMinimum`, `BaselineExpires`, `LimitMovesGently` |
| `MCQuarkus` (1,733,608) | 3 slots of different priority, extreme cohorts, loads negative and one half; a clock set back; a limit of 1 or 2 that moves both ways; priorities enabled and disabled | `ThresholdRate`, `BandsDisjoint`, `OvershootsOnlyByRace`, `DecidesByFreshThreshold` |
| `MCAdaptive` (414,605) | the three algorithms alone, `fixed` and `gradient2` under a window of 2 callers | `LimitInRange`, `BaselineRenewed`, `RaisedOnlyWhenLoaded`, `WindowFaithful`, `WindowsApart` |
| `MCMiddleware` (515,398) | 4 users of `SimpleLimiter` with limits 1, 2; 2 requests through each middleware or gate; statuses 103, 200, 503 | `InflightExact`, `HoldersWithinLimits`, `ControllerExact`, `OutcomeMatchesStatus`, `UsageBelowPlateau` |

The two pools are related to `SheddingQueue` twice. `ImplementsSheddingQueue` is its
specification without fairness: each step is a step of the abstract queue or none.
`EveryoneIsServed` contains its fairness (`AdmittedIsServed`: what is queued is started or
dropped, and what runs finishes), and says that every call of `Submit` (`CallsReturn`) and
of `Stop` (`StopsReturn`) returns. `NobodyWaitsInVain` is the safety property behind it:
whoever waits for a task or for the workers, waits for a worker that can take its next step
(`CanWork`: not asleep, not gone, not blocked), and a second caller of `Stop` waits for a
first one. It rules out the deadlocks that TLC's own check cannot see while some other
caller may still move.

Runs that find what a document or a comment says violated ("findings"):

| Run | Statement | What happens |
|---|---|---|
| `MCLifoWakeup` | `docs.md:345`: blocks only at the limit | the last holder leaves between the refusal and the entry into the backlog |
| `MCCodelTransient` | `docs.md:512`: a transient queue under `interval` is never dropped | `firstAbove` outlives an empty queue |
| `MCMiddlewareStatus` | `handler.go:38`: the writer tells a success from a 5xx | after a 103 the writer drops a 503; the client gets 200 and the limiter hears of a success |

None of these breaks the budget, leaks a permit or loses a task. Other windows that
the models contain, and that no property forbids: a worker gives its token back after
the caller of the task has been told, and so does the gate hear the outcome (`Release`
and `Settle` after `BodyEnd`), so the caller's next submission may be refused, and a
test like `gate_test.go:86-88` may look at the gate too early; a late call may be refused with `ErrQueueFull` where
another late call holds the last token (`AcquireFail` before `RLockClosed`); a call of
`SimpleLimiter` that is about to be rejected is counted and may have another call
rejected; and overlapping calls of `Admit` pass the check before either counts, which
`OvershootsOnlyByRace` confines to overlaps. Two comments say more than the code does, and
the properties say what it does instead: `priority.go:118` ("at most once per second")
holds of the times that calls read, but two calls, one that read the clock early and waited
and one that read it late, may compute at the same moment (`ThresholdRate` bounds their
number all the same); and `gradient.go:40` ("caps the limit") fails for a maximum below four,
the least queue size, which is applied after it (`LimitInRange` has the bound that holds).

### Bounds, and why they are enough

* Calls and workers: a race in `Pool` needs a submission, a worker and a `Stop`;
  with four calls, two workers and one slot the budget of three is overrun, tasks
  queue behind both workers, and a call is late. Two callers of `Stop` are needed
  only for `StopJoin`, and appear in the liveness runs.
* The clock of `Codel` is bounded by `MaxTime` in the guard of `Tick`. Starting a
  timer, confirming a standing queue, dropping twice in one period and leaving it
  take `Target + 2 * Interval` ticks; `MCCodel` has them for a target of 1 and an
  interval of 2, and reaches `count = 2`. Its four calls leave two in the queue when
  dropping begins, so that adaptive LIFO serves from the other end. `Stop` is left to
  `MCCodelLive`, whose two calls, two workers and two callers of `Stop` cover every
  way in which a sleeping worker, a drop and the broadcast can meet.
* `MCDetector` puts `MaxLimit` at 11 and `InitialLimit` at 9, so that the limit
  crosses 10, where `log10Plus1` changes, in both directions. `ProbeFactor = 1` makes
  probes frequent; five slots make `2 * carried` fall on both sides of the limit.
* `MCQuarkus` runs long enough for two recomputations; three slots allow a call with
  an old clock reading to arrive after a newer recomputation, and two calls with readings
  more than a second apart to compute at the same moment. `Cohorts` holds a
  number above 128, a negative multiple of 128, and `math.MinInt`. The limit rises from one
  to two and falls again, and the third slot is the one that would overshoot.
* `MCLifo` has three requests so that one holds, two wait, and the backlog of two is
  full or not; a limit of nought makes `unblock` be refused with nobody holding.
* `MCAdaptive` starts at a limit of 2, below the minimum of 5, with maxima below and above
  that (3, 20). A
  baseline interval of three samples makes probes frequent; round trips of 1, 2 and 8
  reach both ends of each gradient, and in-flight counts of 1 and 20 lie on both sides
  of half of any limit. `MaxSamples` bounds a window to three samples where two close
  it, `MaxTime` the clock to five ticks, three windows.
* `MCMiddleware`: two requests are enough for a promise to be settled while another
  is open; the four users of `SimpleLimiter` overrun a limit of two by two. 103, 200
  and 503 are one informational, one successful and one failed status. The CPU clock
  wraps after eight ticks, `CpuMax` is 30 so that the plateau is 11, between the
  thresholds 5 and 12, and `MaxPending` allows a failed read or two in a row.
* Symmetry is used in safety runs on requests, workers, slots and calls, which the
  modules treat alike; the runs with liveness and `MCQuarkus`, whose slots differ in
  priority, use none.

The questions are asked where they are hardest: the liveness of `LifoLimiter` in the
same run as its safety, and the counter of `SimpleLimiter` in the composition with its
middleware.

Deadlock is checked in every run. `Rest` lets a finished system stutter, and says
precisely what finished means; a state without a step that is not `Rest` would be
reported. `OverloadDetector`, `QuarkusShedder` and
`AdaptiveLimit` need no `Rest`.

### Fairness

Weak fairness of each goroutine's steps once it is inside a call: the Go scheduler
preempts and runs every runnable goroutine, mutexes are handed over after a
millisecond at most (starvation mode), and channel waiters are queued. Task bodies
are assumed to end (`BodyEnd` is part of a worker's steps), and a started timer to
fire. Nobody is obliged to call `Submit` or `Stop`, no holder of a permit to finish,
and the clock not to advance. `AcquireReturns` holds without the holders' help,
because each waiter has a timer.

## 4. What is proved

All for every value of the constants that the modules' assumptions admit.

**`PoolProofs`.** `TypeCorrect`, `TokensAccounted` and `ChannelSafe` rest on
`ChannelInv == Typed /\ TokenAccounting /\ NoSendOnClosed`, `Typed` being
`TypeOK /\ JobOK`. `SendNeverBlocks` is not inductive: that the channel has room follows
only from counting tokens, since a sender is itself one of the `sem <= Capacity` tokens
and is not in the channel. `ReleaseNeverBlocks` follows in the same way. `NoSendOnClosed`
is kept by `StopClose` because the write lock has no readers, and by `RLockOpen` because
of its check. `GateToldOnce` (`DoneExactlyOnce`), `ShedIsFinal` (`ShedNeverRuns`) and
`StopLeavesNothing` (`StopDrains`) need in addition

* `Placed`: each request is in exactly one place, outside, refused, in the channel (once),
  on one worker, or past, and its verdicts and its end agree with that place;
* `StopInv`: the pool is closed exactly when a `Stop` has passed its lock, a worker leaves
  only a closed and empty channel, `active` counts the busy workers, a late call is turned away.

`PoolInv == ChannelInv /\ Placed /\ StopInv` is inductive. `PoolRefinesQueue` proves
`ImplementsSheddingQueue`: under the mapping of `Pool`, each action is a step of
`SheddingQueue` or a stutter. Its guards (a capacity not exceeded, no more than
`Parallelism` tasks at once, nothing left when `stopped`) are what `PoolInv` provides.
`WaitsAreServed` proves `NobodyWaitsInVain`: by `Placed` a task whose caller waits is
over, on a worker, or in the channel; a worker never blocks on the semaphore when it
gives its token back, since the token is counted; and no worker exits while the channel holds a
task. That a second caller of `Stop` has a first one ahead of it (`JoinersHaveOne`) is an
invariant of its own.

**`CodelProofs`.** The inductive invariant is `CodelInv == Typed /\ Ordered /\ ControlInv /\
NoLostWakeup /\ StopInv /\ Placed`. `Ordered`, all the buffer in the order of its time
stamps, is more than `OldestFirst` (`HeadIsOldest`) says, and needed because the head
changes. `ControlInv` adds to `ControlConsistent` that a running timer was set an interval
after the last dequeue below the target at the earliest, from which
`DropsOutOfStandingQueue` (`DropNeedsStandingQueue`) follows. `NoLostWakeup`
(`WakeupsSuffice`) is inductive next to `closed => Parked = {}`: a `Signal` wakes one sleeper per
task, a woken worker that finds the queue empty leaves no task behind. `Placed` gives
`GateToldOnce` (`DoneExactlyOnce`) and
`CodelRefinesQueue` (`ImplementsSheddingQueue`, with drops). `WaitsAreServed`
(`NobodyWaitsInVain`) adds `NoLostWakeup` to the argument of `PoolProofs`: where a task is
queued, not all workers sleep without a wake-up on its way, and after `Stop` none
sleeps. `DropDelayIs` shows that the
integer square root of the control law exists and that a delay never exceeds the interval,
which `DroppingPeriod` (`ControlConsistent`) rests on.

**`SimpleLimiterProofs`.** `InflightIsExact`, `RanksAreBounded`, `ConcurrencyBounded`
(`HoldersWithinLimits`). The inductive invariant is `LimiterInv == TypeOK /\ InflightExact /\
Ranks /\ AdmittedUnderLimit`. That concurrency is bounded although check and increment are
not atomic rests on `Ranks`: of the calls counted in, at most `k` saw a counter of `k` or
less. A newcomer sees one more than the number of calls counted in, so it joins the first
`k` only if there were fewer than `k`. A call that is admitted saw a value within some
published limit, hence within the largest.

**`LifoLimiterProofs`.** `BacklogIsExact` (`BacklogExact`), `PermitsOwned` (`NoPermitLeak`),
`DrainsToZero` (`DrainedToZero`), and `UsersBounded` (`UsersWithinLimits`). The inductive
invariant `LifoInv` says how far the two calls of the delegate and the listener of a
request are for each of its program counters, that every permit has one owner, that
listeners are not shared, that the lock is held exactly across the delegate's call inside
`unblock`, and that the backlog is then not empty. The lemma `RefinesDelegate` (each step is the
delegate's or leaves it alone, which the way the module is written gives) turns what is proved
about `SimpleLimiter` into facts about the delegate, with `Attempts` for its calls;
`DrainsToZero` and `UsersBounded` are consequences.

**`OverloadDetectorProofs`.** `CountIsExact`, `BaselineIsTheMinimum`, `BaselineIsRenewed`
(`BaselineExpires`), `LimitIsGentle` (`LimitMovesGently`), from `DetectorInv == TypeOK /\
CountExact /\ LimitInRange /\ BaselineIsMinimum /\ BaselineExpires`. `BaselineExpires`
bounds the probe count by the largest limit, since the test compares it with the limit of the
moment, which may have fallen or risen since the last; it needs `LimitInRange`, and no more of
the jitter than that it is not above one. `LimitMovesGently` speaks of the larger of beta and one unit of `log10Plus1`
because `BetaFactor` may be 0 or 1, and a short queue then raises the limit by one unit all the same.

**`QuarkusShedderProofs`.** `ThresholdRateBounded` (`ThresholdRate`), `ThresholdsAreFresh`
(`DecidesByFreshThreshold`), `PrioritiesApart` (`BandsDisjoint`), `OvershootNeedsRace` (`OvershootsOnlyByRace`), and
`ShedderRunsDetector`: the shedder implements the detector (`Detector!Spec`), so that the
theorems about it hold inside. `ShedderInv` adds `ThresholdInv` and `RaceInv`. The first says
that the stamp of the threshold has paid for every computation: whoever computes has a stamp
more than a lifetime later, whenever it comes, so the stamp moves up by that much with every
one, and no stamp is ahead of the latest time of the clock. While the clock is not set
back, no stamp is ahead of the clock itself, so a threshold is at least as new as its
stamp, which is what `ThresholdsAreFresh` needs. `RaceInv`: as long as
no two calls of `Admit` have overlapped, one call at most is inside, what it saw is
not below the count, and there is room when it is about to count itself.
`PrioritiesApart` holds for every cohort, the least integer included, by the sign of Go's
remainder.

**`MiddlewareProofs`.** `LimiterUsedProperly`: the middleware's limiter runs the specification
of `SimpleLimiter`, so `InflightExact` and `HoldersWithinLimits` hold in it. `PromisesSettledOnce`
(`ControllerExact`), `OutcomeIsWhatTheClientSaw` (`OutcomeMatchesStatus`), `UsageHasAPlateau`
(`UsageBelowPlateau`). The inductive invariant is `MiddlewareInv ==
CallsTyped /\ PromiseInv /\ ResponseInv /\ SamplerInv /\ NeverShed`. `PromiseInv` adds that only
an external controller's call that has asked holds a promise. `ResponseInv` relates what the
codeWriter recorded to what net/http sent, for each phase: whatever the handler does, only
a flush below the writer, an informational status, or the implicit 200 can tell the two apart. The
plateau is a fact about one refresh: 19 below the maximum, truncation takes back what full
load adds. The assumption on `CpuMax` is 19 or more, as it is false below; the code has 1000.

**`AdaptiveLimitProofs`.** `LimitsStayInRange` (`LimitInRange`), `BaselineIsRenewed`
(`BaselineRenewed`), `LoadRaisesTheLimit` (`RaisedOnlyWhenLoaded`), `WindowsStayApart`
(`WindowsApart`), and `WindowsAreFaithful` (`WindowFaithful`): for every sample, smoothing, tolerance, jitter and number of callers. The invariant is
`AdaptiveInv == AlgorithmTyped /\ LimitInRange /\ BaselineInv /\ WindowInv /\ MembersInv`. That a drop
or a probe lifts a `GradientLimit` to its minimum or to four at most, whatever it began with, is
because the square root of a limit of four and more is no larger than the limit; that `VegasLimit`
is not lifted by a drop, because its steps (`LogPositive`) are at least one. `BaselineInv` adds the countdown
(`sinceProbe + resetRttCounter` is bounded; `VegasLimit` counts what `sinceProbe` counts). `WindowInv`
knows that what a caller read from the clock is not ahead of it, and not the zero time;
`MembersInv` carries the totals and the worst of a window through the lock and past it. The mean of
a window is a quotient of sums over its samples, folds over a finite set in the order of `CHOOSE`. The
lemmas on them (`SumOfOneMore`: a sum grows by what one value grows) need induction over finite sets, but not
the library's theorem with its operator parameter: `SmallestSubset` says that of any *set* of subsets
one is smallest, which comes from the well-foundedness of the strict subset ordering,
and a smallest counterexample cannot exist.

The assumptions are the modules' own (`PoolAssumption`, `CodelAssumption` and so on),
as are the abstractions of section 2; TLC evaluates them in every run. `OverloadDetector` and
`QuarkusShedder` share theirs: `ShedderAssumption` contains `Detector!DetectorAssumption`.

Only model-checked: liveness under fairness (`EveryoneIsServed`, with the fairness of the
abstract queue in it, and `AcquireReturns`), since the prover has no rule for `ENABLED`.
What can be proved of them is `NobodyWaitsInVain`. Every invariant and every action property of a
passing run is proved.

`RanksBounded` and `Codel`'s `TypeOK` (`TypeCorrect`, with the capacity of the buffer) are
proved and checked by no run; so is the second half of `WakeupsSuffice`, that nobody sleeps
once `Stop` has closed the queue.

## 5. Plan

Done: all modules of section 2, with their runs, and a theorem for every safety and action
property that the passing runs check.

Possible extensions of the models: `SimpleLimiter` over `Vegas` in one state space, now that
`LimitsStayInRange` says which limits it publishes; a task that submits to its own pool, or ends
its goroutine.

Next theorems: that what `AdaptiveLimit` publishes lies in the `Limits` of `SimpleLimiter`, so that
`ConcurrencyBounded` gives a bound in numbers for each algorithm; bounds on the
fractions that the models round down.

## 6. Not modelled

* The libraries behind `gozero` and `sentinel`, net/http, and the rules that
  `sentinel.New` loads: external. Their decisions are arbitrary in `Middleware`.
* `simulate`, `cmd/simulate`: a sequential computation that prints tables.
* The reading of `/proc` and cgroup files in `cpu_linux.go`: I/O and parsing.
* A task that ends its goroutine (`runtime.Goexit`) takes its worker and its slot with
  it, and a task that waits for its own pool waits for itself once every worker does:
  `pool.go` has nothing against either, and the models leave both out.
* In `CpuSampler`, the product of the cgroup's counter is not wrapped (an hour of
  failed reads at full load), and there is at least one CPU.
* Logging, and the text of HTTP answers.
* The function that a caller of `CPUThresholdGate` may give in place of the CPU sampler.
* A second call of a listener of `LifoBlockingLimiter`, which would look at the backlog once
  more; `SimpleLimiter`'s listeners may be called repeatedly.
* In `Middleware`, a pool that sheds settles the promise and answers 503 in one step: nobody
  can look at the response in between.
* `WindowedLimit` with a `minWindowTime` above its `maxWindowTime`.
* `InitialLimit` outside `1 .. MaxLimit` in `quarkus`: the detector does not clamp it
  before its first update, and the model assumes it in range.
