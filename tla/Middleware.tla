----------------------------- MODULE Middleware -----------------------------
(***************************************************************************)
(* The HTTP middleware of the library over the controllers behind it.      *)
(* `stack` says which:                                                     *)
(*   bare          no middleware: callers use SimpleLimiter themselves     *)
(*   limiter       concurrencylimits.Handler over SimpleLimiter            *)
(*   shedder       gozero.Shedder.Handler over go-zero's shedder           *)
(*   sentinel      sentinel.Shedder.Handler over Sentinel                  *)
(*   adaptiveGate  queue's Handler behind gozero.Gate                      *)
(*   cpuGate       a user of queue.CPUThresholdGate                        *)
(* go-zero's shedder and Sentinel are external; of them `flying` is kept,  *)
(* the promises granted and not settled.  The pool behind a gate is Pool's *)
(* and Codel's subject: here it takes a request or sheds it.  The gate's   *)
(* done does nothing behind a CPU gate, so a call ends with its answer.    *)
(*                                                                         *)
(* A response has what the codeWriter recorded (code, wroteHeader), what   *)
(* net/http `sent` as the final status, and what it would have sent        *)
(* without the middleware (`asked`); net/http is external.                 *)
(***************************************************************************)
EXTENDS SimpleLimiter

CONSTANTS Stacks,
          Handled,       \* calls that come through a middleware, if there is one
          Statuses,      \* what handlers pass to WriteHeader
          Thresholds,    \* of CPUThresholdGate
          CpuMax, Cores, CpuLimits, Second, CpuTicks, Width,
          Elapsed, Uses, MaxPending

ASSUME MiddlewareAssumption ==
  /\ Stacks \subseteq
       {"bare", "limiter", "shedder", "sentinel", "adaptiveGate", "cpuGate"}
  /\ Handled \subseteq Calls
  /\ Statuses \subseteq 100 .. 599
  /\ Thresholds \subseteq Nat
  /\ {Cores, Second, CpuTicks, Width} \subseteq Nat \ {0}
  /\ CpuMax \in Nat /\ CpuMax >= 19       \* cpuMaxMilli is 1000
  /\ CpuLimits \subseteq 1 .. 10 * Cores
  /\ Elapsed \subseteq Nat /\ Uses \subseteq Nat /\ MaxPending \in Nat

VARIABLES stack, threshold,
          enabled,     \* the gate's switch
          phase,       \* where each call is
          resp,        \* its response
          granted,     \* the external controller gave it a promise
          flying,      \* promises granted and not settled
          outcome,     \* what the middleware reported of it
          sampler, cpuLimit, clock, preSystem, pending, cpuUsageValue

Cpu == INSTANCE CpuSampler

callVars == <<phase, resp, granted, flying, outcome>>
samplerVars == <<sampler, cpuLimit, clock, preSystem, pending, cpuUsageValue>>
behind == <<limiterVars, samplerVars>>
vars == <<stack, threshold, enabled, callVars, behind>>

Fresh == [code |-> 200, wroteHeader |-> FALSE, sent |-> 0, asked |-> 0,
          informed |-> FALSE, flushed |-> FALSE, panicked |-> FALSE]

MiddlewareInit ==
  /\ Init
  /\ Cpu!SamplerInit
  /\ stack \in Stacks
  /\ threshold \in IF stack = "cpuGate" THEN Thresholds ELSE {0}
  /\ enabled = TRUE
  /\ phase = [c \in Calls |-> "new"]
  /\ resp = [c \in Calls |-> Fresh]
  /\ granted = [c \in Calls |-> FALSE]
  /\ flying = 0
  /\ outcome = [c \in Calls |-> "none"]

Gated    == stack \in {"adaptiveGate", "cpuGate"}
External == stack \in {"shedder", "sentinel", "adaptiveGate"}

GoOn(c, from, to) == phase[c] = from /\ phase' = [phase EXCEPT ![c] = to]

-----------------------------------------------------------------------------
(* What a status does to a response.                                       *)

Final(s)    == s >= 200 \/ s = 101
Asked(r, s) == IF r.asked = 0 /\ Final(s) THEN [r EXCEPT !.asked = s] ELSE r

(* net/http: the first final status is sent, an informational one (but     *)
(* not 101) is sent at once and is not the final one.                      *)
Send(r, s) == IF r.sent = 0 /\ Final(s) THEN [r EXCEPT !.sent = s] ELSE r

-----------------------------------------------------------------------------
(* Admission.                                                              *)

Answer503(c) == resp' = [resp EXCEPT ![c] = Send(Asked(@, 503), 503)]

Acquire(c) ==
  /\ stack = "limiter"
  /\ \/ GoOn(c, "new", "asking") /\ CountIn(c) /\ UNCHANGED resp
     \/ GoOn(c, "asking", "serving") /\ Admit(c) /\ UNCHANGED resp
     \/ phase[c] = "asking" /\ Exceed(c) /\ UNCHANGED <<phase, resp>>
     \/ GoOn(c, "asking", "shed") /\ CountOut(c) /\ Answer503(c)
  /\ UNCHANGED <<granted, flying, outcome>>

(* The switch is read once, at the start of Allow.                         *)
GateOff(c) ==
  /\ Gated /\ ~enabled
  /\ GoOn(c, "new", IF stack = "cpuGate" THEN "ended" ELSE "admitted")
  /\ UNCHANGED <<resp, granted, flying, outcome, behind>>

GateOn(c) ==
  /\ Gated => enabled
  /\ stack \notin {"limiter", "bare"}
  /\ GoOn(c, "new", "asking")
  /\ UNCHANGED <<resp, granted, flying, outcome, behind>>

(* CPUThresholdGate.Allow after the switch; the first reader of the usage  *)
(* starts the sampler.                                                     *)
ReadUsage(c) ==
  /\ stack = "cpuGate" /\ phase[c] = "asking" /\ threshold > 0
  /\ Cpu!startCpuSampler
  /\ UNCHANGED <<callVars, limiterVars>>

BelowThreshold(c) ==
  /\ stack = "cpuGate"
  /\ threshold > 0 => sampler # "off" /\ cpuUsageValue < threshold
  /\ GoOn(c, "asking", "ended")
  /\ UNCHANGED <<resp, granted, flying, outcome, behind>>

AtThreshold(c) ==
  /\ stack = "cpuGate"
  /\ threshold > 0 /\ sampler # "off" /\ cpuUsageValue >= threshold
  /\ GoOn(c, "asking", "shed")
  /\ Answer503(c)
  /\ UNCHANGED <<granted, flying, outcome, behind>>

(* The library grants or refuses as it likes.                              *)
Grant(c) ==
  /\ External
  /\ GoOn(c, "asking", IF stack = "adaptiveGate" THEN "admitted" ELSE "serving")
  /\ granted' = [granted EXCEPT ![c] = TRUE]
  /\ flying' = flying + 1
  /\ UNCHANGED <<resp, outcome, behind>>

Refuse(c) ==
  /\ External
  /\ GoOn(c, "asking", "shed")
  /\ Answer503(c)
  /\ UNCHANGED <<granted, flying, outcome, behind>>

(* The done of a gate, a promise's Pass or Fail, or an entry's Exit.       *)
(* Variant: the switch is read again when the request is done.             *)
doneIfEnabled(c) ==
  flying' = IF granted[c] /\ enabled THEN flying - 1 ELSE flying

done(c) == flying' = IF granted[c] THEN flying - 1 ELSE flying

PoolRuns(c) ==
  /\ stack = "adaptiveGate"
  /\ GoOn(c, "admitted", "serving")
  /\ UNCHANGED <<resp, granted, flying, outcome, behind>>

(* The pool is full, stopped or late, or CoDel drops: done(false) and 503. *)
PoolSheds(c) ==
  /\ stack = "adaptiveGate"
  /\ GoOn(c, "admitted", "shed")
  /\ done(c)
  /\ outcome' = [outcome EXCEPT ![c] = "failure"]
  /\ Answer503(c)
  /\ UNCHANGED <<granted, behind>>

-----------------------------------------------------------------------------
(* The handler and its ResponseWriter.                                     *)

(* Variant: the last status is recorded, whatever is sent.                 *)
WriteHeaderLast(r, s) == [Send(r, s) EXCEPT !.wroteHeader = TRUE, !.code = s]

codeWriterWriteHeader(r, s) ==
  IF r.wroteHeader THEN r
  ELSE [Send(r, s) EXCEPT !.wroteHeader = TRUE, !.code = s]

Through(r, s) == IF stack = "sentinel" THEN Send(r, s) ELSE codeWriterWriteHeader(r, s)

Serving(c, r) ==
  /\ phase[c] = "serving"
  /\ resp' = [resp EXCEPT ![c] = r]
  /\ UNCHANGED <<phase, granted, flying, outcome, behind>>

WriteHeader(c) ==
  \E s \in Statuses :
    Serving(c, [Through(Asked(resp[c], s), s) EXCEPT !.informed = @ \/ ~Final(s)])

(* The bytes follow, with an implicit 200 if net/http has no status yet.   *)
Write(c) == Serving(c, Send(Through(Asked(resp[c], 200), 200), 200))

(* http.ResponseController unwraps the writer and flushes the one below.   *)
Flush(c) == Serving(c, [Send(Asked(resp[c], 200), 200) EXCEPT !.flushed = TRUE])

(* A handler that sent nothing gets an implicit 200.                       *)
Return(c) ==
  /\ GoOn(c, "serving", "served")
  /\ resp' = [resp EXCEPT ![c] = Send(Asked(@, 200), 200)]
  /\ UNCHANGED <<granted, flying, outcome, behind>>

Panic(c) ==
  /\ GoOn(c, "serving", "served")
  /\ resp' = [resp EXCEPT ![c].panicked = TRUE]
  /\ UNCHANGED <<granted, flying, outcome, behind>>

-----------------------------------------------------------------------------
(* The deferred function.                                                  *)

Outcome(c) ==
  IF ~resp[c].panicked /\ resp[c].code < 500 THEN "success" ELSE "failure"

(* Sentinel's exit tells no outcome.                                       *)
Settle(c) ==
  /\ External
  /\ GoOn(c, "served", "ended")
  /\ done(c)
  /\ outcome' = IF stack = "sentinel" THEN outcome
                ELSE [outcome EXCEPT ![c] = Outcome(c)]
  /\ UNCHANGED <<resp, granted, behind>>

(* listener.OnSuccess or OnDropped, up to the sample and with it.          *)
Report(c) ==
  /\ stack = "limiter"
  /\ \/ /\ GoOn(c, "served", "reported")
        /\ outcome' = [outcome EXCEPT ![c] = Outcome(c)]
        /\ Finish(c)
     \/ /\ GoOn(c, "reported", "ended")
        /\ UNCHANGED outcome
        /\ Sample(c)
  /\ UNCHANGED <<resp, granted, flying>>

-----------------------------------------------------------------------------
SetEnabled ==
  /\ Gated
  /\ enabled' = ~enabled
  /\ UNCHANGED <<callVars, behind>>

RefreshUsage ==
  /\ Cpu!SamplerNext
  /\ UNCHANGED <<enabled, callVars, limiterVars>>

CallStep(c) ==
  \/ GateOff(c) \/ GateOn(c) \/ ReadUsage(c) \/ BelowThreshold(c) \/ AtThreshold(c)
  \/ Grant(c) \/ Refuse(c) \/ PoolRuns(c) \/ PoolSheds(c)
  \/ WriteHeader(c) \/ Write(c) \/ Flush(c) \/ Return(c) \/ Panic(c) \/ Settle(c)
  \/ (Acquire(c) \/ Report(c)) /\ UNCHANGED samplerVars

(* All requests are over.                                                  *)
Rest ==
  /\ \/ stack = "bare" /\ \A c \in Calls : at[c] \in {"rejected", "finished"}
     \/ stack # "bare" /\ \A c \in Handled : phase[c] \in {"shed", "ended"}
  /\ UNCHANGED vars

BareUse == stack = "bare" /\ Next /\ UNCHANGED <<enabled, callVars, samplerVars>>

MiddlewareNext ==
  /\ \/ (\E c \in Handled : CallStep(c)) /\ UNCHANGED enabled
     \/ BareUse \/ SetEnabled \/ RefreshUsage \/ Rest
  /\ UNCHANGED <<stack, threshold>>

MiddlewareSpec == MiddlewareInit /\ [][MiddlewareNext]_vars

-----------------------------------------------------------------------------
(* Every promise that an external controller gave is settled exactly once, *)
(* when its request is over: shed by the pool, served or panicked, and     *)
(* whatever became of the gate's switch in between.                        *)
ControllerExact ==
  flying = Cardinality({c \in Calls :
             granted[c] /\ phase[c] \in {"admitted", "serving", "served"}})

(* A success is reported only of a request whose client got less than 500, *)
(* and a failure only of a panic or of a client that got 500 or more;      *)
(* unless the handler flushed below the writer first.  The client gets     *)
(* what the handler asked for, unless it sent an informational status.     *)
OutcomeMatchesStatus ==
  \A c \in Calls :
    /\ outcome[c] = "success" => resp[c].sent < 500 /\ ~resp[c].panicked
    /\ outcome[c] = "failure" =>
         resp[c].panicked \/ resp[c].flushed \/ resp[c].sent >= 500
    /\ ~resp[c].informed => resp[c].sent = resp[c].asked

(* A request whose handler asks for 500 or more is not reported as a       *)
(* success.  codeWriter "captures the response status code so the handler  *)
(* can distinguish a success from a 5xx/503" (handler.go:38), but it takes *)
(* an informational status for the final one.                              *)
DistinguishesFailure ==
  \A c \in Calls : outcome[c] = "success" => resp[c].asked < 500

(* Since the average is truncated, full load never takes it further than   *)
(* 19 below the maximum, and a gate with a threshold above that sheds no   *)
(* request.  Without a cgroup it stays at zero.                            *)
UsageBelowPlateau ==
  /\ cpuUsageValue \in 0 .. CpuMax - 19
  /\ sampler = "noCgroup" => cpuUsageValue = 0
  /\ stack = "cpuGate" /\ threshold > CpuMax - 19 => \A c \in Calls : phase[c] # "shed"
=============================================================================
