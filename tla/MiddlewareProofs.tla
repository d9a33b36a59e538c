-------------------------- MODULE MiddlewareProofs --------------------------
(***************************************************************************)
(* Behind every middleware: SimpleLimiter is used as its specification     *)
(* says, every promise of an external controller is settled exactly once,  *)
(* the outcome reported of a request is the one its client saw, and the    *)
(* CPU usage that a gate compares stays below its plateau.                 *)
(***************************************************************************)
EXTENDS Middleware, SimpleLimiterProofs

-----------------------------------------------------------------------------
(* The inductive invariant.                                                *)

Phases == {"new", "asking", "admitted", "serving", "served", "reported", "shed", "ended"}

Outcomes == {"none", "success", "failure"}

Response == [code : Nat, wroteHeader : BOOLEAN, sent : Nat, asked : Nat,
             informed : BOOLEAN, flushed : BOOLEAN, panicked : BOOLEAN]

CallsTyped ==
  /\ stack \in Stacks /\ threshold \in Nat
  /\ phase \in [Calls -> Phases]
  /\ resp \in [Calls -> Response]
  /\ granted \in [Calls -> BOOLEAN]
  /\ outcome \in [Calls -> Outcomes]
  /\ flying \in Int

(* A promise is of an external controller, and only a call that asked has  *)
(* one.                                                                    *)
PromiseInv ==
  /\ \A c \in Calls : granted[c] => External /\ phase[c] \notin {"new", "asking"}
  /\ ControllerExact

(* What the codeWriter recorded against what net/http sent: nothing is     *)
(* sent past it but the implicit 200 of a flush, a write or a return, and  *)
(* what it recorded first was sent unless a flush came before.             *)
Captured(r) ==
  /\ ~r.wroteHeader => r.code = 200
  /\ r.sent \in {0, 200, r.code}
  /\ r.wroteHeader /\ Final(r.code) /\ ~r.flushed => r.sent = r.code

(* While the handler runs, a response without a header is a blank one, and *)
(* only an informational status leaves the final one unsent.               *)
Open(r) ==
  /\ ~r.wroteHeader /\ ~r.flushed => r.sent = 0
  /\ r.wroteHeader /\ ~r.informed => r.sent # 0

(* The client gets what the handler asked for.                             *)
Matched(r) == ~r.informed => r.sent = r.asked

(* A call in phase ph with response r and outcome o.                       *)
Fine(ph, r, o) ==
  /\ ph \in Phases /\ r \in Response /\ o \in Outcomes
  /\ ph \in {"new", "asking", "admitted"} => r = Fresh
  /\ Matched(r)
  /\ stack # "sentinel" /\ ph # "shed" => Captured(r)
  /\ stack # "sentinel" /\ ph = "serving" => Open(r)
  /\ o # "none" => stack # "sentinel" /\ ph \in {"reported", "ended", "shed"}
  /\ o = "success" => r.sent < 500 /\ ~r.panicked
  /\ o = "failure" => r.panicked \/ r.flushed \/ r.sent >= 500

ResponseInv == \A c \in Calls : Fine(phase[c], resp[c], outcome[c])

(* The sampler's numbers.                                                  *)
SamplerTyped ==
  /\ sampler \in {"off", "running", "noCgroup"}
  /\ clock \in Nat /\ preSystem \in Nat /\ pending \in Nat
  /\ sampler = "running" => cpuLimit \in Nat \ {0}
  /\ cpuUsageValue \in Nat

SamplerInv ==
  /\ SamplerTyped
  /\ cpuUsageValue <= CpuMax - 19
  /\ sampler \in {"off", "noCgroup"} => cpuUsageValue = 0

(* A gate with a threshold above the plateau never sheds.                  *)
NeverShed ==
  stack = "cpuGate" /\ threshold > CpuMax - 19 => \A c \in Calls : phase[c] # "shed"

MiddlewareInv == CallsTyped /\ PromiseInv /\ ResponseInv /\ SamplerInv /\ NeverShed

-----------------------------------------------------------------------------
(* Responses (handler.go, codeWriter).                                     *)

(* Nobody notices that a status was asked for.                             *)
LEMMA AskedFields ==
  ASSUME NEW r \in Response, NEW s \in Nat
  PROVE  /\ Asked(r, s) \in Response
         /\ Asked(r, s).code = r.code /\ Asked(r, s).wroteHeader = r.wroteHeader
         /\ Asked(r, s).sent = r.sent /\ Asked(r, s).informed = r.informed
         /\ Asked(r, s).flushed = r.flushed /\ Asked(r, s).panicked = r.panicked
         /\ Asked(r, s).asked = IF r.asked = 0 /\ Final(s) THEN s ELSE r.asked
BY DEF Asked, Response

(* net/http sends the first final status.                                  *)
LEMMA SendFields ==
  ASSUME NEW r \in Response, NEW s \in Nat
  PROVE  /\ Send(r, s) \in Response
         /\ Send(r, s).code = r.code /\ Send(r, s).wroteHeader = r.wroteHeader
         /\ Send(r, s).asked = r.asked /\ Send(r, s).informed = r.informed
         /\ Send(r, s).flushed = r.flushed /\ Send(r, s).panicked = r.panicked
         /\ Send(r, s).sent = IF r.sent = 0 /\ Final(s) THEN s ELSE r.sent
BY DEF Send, Response

(* The codeWriter lets only its first status through, and records it.      *)
LEMMA WriterFields ==
  ASSUME NEW r \in Response, NEW s \in Nat
  PROVE  LET w == codeWriterWriteHeader(r, s) IN
         /\ w \in Response /\ w.wroteHeader
         /\ w.code = (IF r.wroteHeader THEN r.code ELSE s)
         /\ w.sent = (IF ~r.wroteHeader /\ r.sent = 0 /\ Final(s) THEN s ELSE r.sent)
         /\ w.asked = r.asked /\ w.informed = r.informed
         /\ w.flushed = r.flushed /\ w.panicked = r.panicked
BY SendFields DEF codeWriterWriteHeader, Response

Settled(r)  == r \in Response /\ Matched(r) /\ (stack # "sentinel" => Captured(r))
Writable(r) == Settled(r) /\ (stack # "sentinel" => Open(r))

(* A final status is asked for and goes through the writer of the stack.   *)
LEMMA ThroughFields ==
  ASSUME NEW r \in Response, NEW s \in Nat
  PROVE  LET a == Asked(r, s)
             t == Through(a, s)
         IN /\ t \in Response
            /\ stack = "sentinel" => /\ t.code = r.code /\ t.wroteHeader = r.wroteHeader
                                     /\ t.sent = IF r.sent = 0 /\ Final(s) THEN s ELSE r.sent
            /\ stack # "sentinel" => /\ t.wroteHeader
                                     /\ t.code = IF r.wroteHeader THEN r.code ELSE s
                                     /\ t.sent = IF ~r.wroteHeader /\ r.sent = 0 /\ Final(s)
                                                   THEN s ELSE r.sent
            /\ t.asked = IF r.asked = 0 /\ Final(s) THEN s ELSE r.asked
            /\ t.informed = r.informed /\ t.flushed = r.flushed /\ t.panicked = r.panicked
<1>. DEFINE a == Asked(r, s)
<1>1. /\ a \in Response
      /\ a.code = r.code /\ a.wroteHeader = r.wroteHeader
      /\ a.sent = r.sent /\ a.informed = r.informed
      /\ a.flushed = r.flushed /\ a.panicked = r.panicked
      /\ a.asked = IF r.asked = 0 /\ Final(s) THEN s ELSE r.asked
  BY AskedFields
<1>. HIDE DEF a
<1>2. CASE stack = "sentinel"
  <2>1. Through(a, s) = Send(a, s)
    BY <1>2 DEF Through
  <2>2. /\ Send(a, s) \in Response
        /\ Send(a, s).code = a.code /\ Send(a, s).wroteHeader = a.wroteHeader
        /\ Send(a, s).asked = a.asked /\ Send(a, s).informed = a.informed
        /\ Send(a, s).flushed = a.flushed /\ Send(a, s).panicked = a.panicked
        /\ Send(a, s).sent = IF a.sent = 0 /\ Final(s) THEN s ELSE a.sent
    BY <1>1, SendFields
  <2>. QED BY <1>1, <1>2, <2>1, <2>2 DEF a
<1>3. CASE stack # "sentinel"
  <2>1. Through(a, s) = codeWriterWriteHeader(a, s)
    BY <1>3 DEF Through
  <2>2. LET w == codeWriterWriteHeader(a, s) IN
        /\ w \in Response /\ w.wroteHeader
        /\ w.code = (IF a.wroteHeader THEN a.code ELSE s)
        /\ w.sent = (IF ~a.wroteHeader /\ a.sent = 0 /\ Final(s) THEN s ELSE a.sent)
        /\ w.asked = a.asked /\ w.informed = a.informed
        /\ w.flushed = a.flushed /\ w.panicked = a.panicked
    BY <1>1, WriterFields
  <2>. QED BY <1>1, <1>3, <2>1, <2>2 DEF a
<1>. QED BY <1>2, <1>3

(* WriteHeader, of an informational status or a final one.                 *)
LEMMA WriteHeaderKeeps ==
  ASSUME NEW r, Writable(r), NEW s \in Statuses
  PROVE  Writable([Through(Asked(r, s), s) EXCEPT !.informed = @ \/ ~Final(s)])
<1>. DEFINE t == Through(Asked(r, s), s)
            u == [t EXCEPT !.informed = @ \/ ~Final(s)]
<1>1. r \in Response /\ s \in Nat \ {0}
  BY MiddlewareAssumption DEF Writable, Settled
<1>2. /\ t \in Response
      /\ stack = "sentinel" => t.sent = IF r.sent = 0 /\ Final(s) THEN s ELSE r.sent
      /\ stack # "sentinel" => /\ t.wroteHeader
                               /\ t.code = IF r.wroteHeader THEN r.code ELSE s
                               /\ t.sent = IF ~r.wroteHeader /\ r.sent = 0 /\ Final(s)
                                             THEN s ELSE r.sent
      /\ t.asked = IF r.asked = 0 /\ Final(s) THEN s ELSE r.asked
      /\ t.informed = r.informed /\ t.flushed = r.flushed
  BY <1>1, ThroughFields
<1>. HIDE DEF t
<1>3. /\ u \in Response
      /\ u.code = t.code /\ u.wroteHeader = t.wroteHeader /\ u.sent = t.sent
      /\ u.asked = t.asked /\ u.flushed = t.flushed
      /\ u.informed <=> t.informed \/ ~Final(s)
  BY <1>2 DEF Response
<1>. HIDE DEF u
<1>4. Matched(u)
  BY <1>1, <1>2, <1>3 DEF Matched, Writable, Settled, Open
<1>5. ASSUME stack # "sentinel" PROVE Captured(u) /\ Open(u)
  <2>1. Captured(r) /\ Open(r)
    BY <1>5 DEF Writable, Settled
  <2>2. u.sent \in {0, 200, u.code}
    BY <1>1, <1>2, <1>3, <1>5, <2>1 DEF Captured, Open
  <2>3. u.wroteHeader /\ Final(u.code) /\ ~u.flushed => u.sent = u.code
    BY <1>1, <1>2, <1>3, <1>5, <2>1 DEF Captured, Open
  <2>4. u.wroteHeader /\ ~u.informed => u.sent # 0
    BY <1>1, <1>2, <1>3, <1>5, <2>1 DEF Open
  <2>. QED BY <1>2, <1>3, <1>5, <2>2, <2>3, <2>4 DEF Captured, Open
<1>6. Writable(u)
  BY <1>3, <1>4, <1>5 DEF Writable, Settled
<1>. QED BY <1>6 DEF u, t

(* Write, with its implicit 200.                                           *)
LEMMA WriteKeeps ==
  ASSUME NEW r, Writable(r)
  PROVE  Writable(Send(Through(Asked(r, 200), 200), 200))
<1>. DEFINE t == Through(Asked(r, 200), 200)
            u == Send(t, 200)
<1>1. r \in Response /\ Final(200)
  BY DEF Writable, Settled, Final
<1>2. /\ t \in Response
      /\ stack = "sentinel" => t.sent = IF r.sent = 0 THEN 200 ELSE r.sent
      /\ stack # "sentinel" => /\ t.wroteHeader
                               /\ t.code = IF r.wroteHeader THEN r.code ELSE 200
                               /\ t.sent = IF ~r.wroteHeader /\ r.sent = 0
                                             THEN 200 ELSE r.sent
      /\ t.asked = IF r.asked = 0 THEN 200 ELSE r.asked
      /\ t.informed = r.informed /\ t.flushed = r.flushed
  BY <1>1, ThroughFields
<1>. HIDE DEF t
<1>3. /\ u \in Response
      /\ u.code = t.code /\ u.wroteHeader = t.wroteHeader
      /\ u.sent = IF t.sent = 0 THEN 200 ELSE t.sent
      /\ u.asked = t.asked /\ u.flushed = t.flushed /\ u.informed = t.informed
  BY <1>1, <1>2, SendFields
<1>. HIDE DEF u
<1>4. Matched(u)
  BY <1>1, <1>2, <1>3 DEF Matched, Writable, Settled, Open
<1>5. ASSUME stack # "sentinel" PROVE Captured(u) /\ Open(u)
  <2>1. Captured(r) /\ Open(r)
    BY <1>5 DEF Writable, Settled
  <2>2. u.sent \in {0, 200, u.code} /\ u.sent # 0
    BY <1>1, <1>2, <1>3, <1>5, <2>1 DEF Captured, Open
  <2>3. u.wroteHeader /\ Final(u.code) /\ ~u.flushed => u.sent = u.code
    BY <1>1, <1>2, <1>3, <1>5, <2>1 DEF Captured, Open, Final
  <2>. QED BY <1>2, <1>3, <1>5, <2>2, <2>3 DEF Captured, Open
<1>6. Writable(u)
  BY <1>3, <1>4, <1>5 DEF Writable, Settled
<1>. QED BY <1>6 DEF u, t

(* The implicit 200 of a flush or a return goes past the codeWriter.       *)
LEMMA ImplicitKeeps ==
  ASSUME NEW r, Writable(r)
  PROVE  LET u == Send(Asked(r, 200), 200) IN
         Settled(u) /\ Writable([u EXCEPT !.flushed = TRUE])
<1>. DEFINE a == Asked(r, 200)
            u == Send(a, 200)
            f == [u EXCEPT !.flushed = TRUE]
<1>1. r \in Response /\ Final(200)
  BY DEF Writable, Settled, Final
<1>2. /\ a \in Response
      /\ a.code = r.code /\ a.wroteHeader = r.wroteHeader
      /\ a.sent = r.sent /\ a.informed = r.informed /\ a.flushed = r.flushed
      /\ a.asked = IF r.asked = 0 THEN 200 ELSE r.asked
  BY <1>1, AskedFields
<1>. HIDE DEF a
<1>3. /\ u \in Response
      /\ u.code = r.code /\ u.wroteHeader = r.wroteHeader
      /\ u.sent = IF r.sent = 0 THEN 200 ELSE r.sent
      /\ u.asked = a.asked /\ u.informed = r.informed /\ u.flushed = r.flushed
  BY <1>1, <1>2, SendFields
<1>. HIDE DEF u
<1>4. /\ f \in Response
      /\ f.code = u.code /\ f.wroteHeader = u.wroteHeader /\ f.sent = u.sent
      /\ f.asked = u.asked /\ f.informed = u.informed /\ f.flushed
  BY <1>3 DEF Response
<1>. HIDE DEF f
<1>5. Matched(u) /\ Matched(f)
  BY <1>1, <1>2, <1>3, <1>4 DEF Matched, Writable, Settled
<1>6. ASSUME stack # "sentinel" PROVE Captured(u) /\ Captured(f) /\ Open(f)
  <2>1. Captured(r) /\ Open(r)
    BY <1>6 DEF Writable, Settled
  <2>2. u.sent \in {200, u.code} /\ u.sent # 0
    BY <1>1, <1>3, <2>1 DEF Captured
  <2>3. u.wroteHeader /\ Final(u.code) /\ ~u.flushed => u.sent = u.code
    BY <1>1, <1>3, <2>1 DEF Captured, Final
  <2>. QED BY <1>3, <1>4, <2>1, <2>2, <2>3 DEF Captured, Open
<1>7. Settled(u) /\ Writable(f)
  BY <1>3, <1>4, <1>5, <1>6 DEF Writable, Settled
<1>. QED BY <1>7 DEF f, u, a

-----------------------------------------------------------------------------
(* The phases of a call, with its response and its outcome.                *)

(* A request that has not been served has a fresh response.                *)
LEMMA FreshResponse ==
  ASSUME NEW ph \in {"new", "asking", "admitted"}, NEW r, NEW o, Fine(ph, r, o)
  PROVE  /\ r = Fresh /\ r \in Response /\ o = "none"
         /\ r.code = 200 /\ r.sent = 0
         /\ Captured(r) /\ Open(r) /\ Matched(r)
<1>1. r = Fresh /\ r \in Response /\ o = "none"
  BY DEF Fine, Phases
<1>2. /\ ~r.wroteHeader /\ ~r.flushed /\ ~r.informed /\ ~r.panicked
      /\ r.code = 200 /\ r.sent = 0 /\ r.asked = 0
  BY <1>1 DEF Fresh
<1>. QED BY <1>1, <1>2 DEF Captured, Open, Matched

(* with which it may be served, or be over behind a CPU gate.              *)
LEMMA BeforeService ==
  ASSUME NEW ph \in {"new", "asking", "admitted"}, NEW r, NEW o, Fine(ph, r, o),
         NEW to \in {"asking", "admitted", "serving", "ended"}
  PROVE  Fine(to, r, o)
<1>1. to \in Phases /\ "none" \in Outcomes
  BY DEF Phases, Outcomes
<1>. QED BY <1>1, FreshResponse DEF Fine

(* A 503 may replace it.                                                   *)
LEMMA Answered ==
  ASSUME NEW ph \in {"new", "asking", "admitted"}, NEW r, NEW o, Fine(ph, r, o)
  PROVE  LET u == Send(Asked(r, 503), 503) IN
         Fine("shed", u, o) /\ (stack # "sentinel" => Fine("shed", u, "failure"))
<1>. DEFINE a == Asked(r, 503)
            u == Send(a, 503)
<1>1. r \in Response /\ o = "none" /\ r.sent = 0 /\ r.asked = 0 /\ Final(503)
  BY FreshResponse DEF Fresh, Final
<1>2. a \in Response /\ a.sent = 0 /\ a.asked = 503
  BY <1>1, AskedFields
<1>. HIDE DEF a
<1>3. u \in Response /\ u.sent = 503 /\ u.asked = 503
  BY <1>1, <1>2, SendFields
<1>. HIDE DEF u
<1>4. Matched(u) /\ "shed" \in Phases /\ "none" \in Outcomes /\ "failure" \in Outcomes
  BY <1>3 DEF Matched, Phases, Outcomes
<1>5. Fine("shed", u, o) /\ (stack # "sentinel" => Fine("shed", u, "failure"))
  BY <1>1, <1>3, <1>4 DEF Fine
<1>. QED BY <1>5 DEF u, a

(* While the handler runs.                                                 *)
LEMMA Serves ==
  ASSUME NEW r, NEW o, Fine("serving", r, o)
  PROVE  /\ Writable(r) /\ o = "none"
         /\ \A u : Writable(u) => Fine("serving", u, o)
         /\ \A u : Settled(u) => Fine("served", u, o)
         /\ Settled([r EXCEPT !.panicked = TRUE])
<1>1. Writable(r) /\ o = "none" /\ r \in Response
  BY DEF Fine, Writable, Settled, Outcomes
<1>2. "serving" \in Phases /\ "served" \in Phases /\ "none" \in Outcomes
  BY DEF Phases, Outcomes
<1>3. ASSUME NEW u, Writable(u) PROVE Fine("serving", u, o)
  BY <1>1, <1>2, <1>3 DEF Fine, Writable, Settled
<1>4. ASSUME NEW u, Settled(u) PROVE Fine("served", u, o)
  BY <1>1, <1>2, <1>4 DEF Fine, Settled
<1>5. PICK u : u = [r EXCEPT !.panicked = TRUE]
  OBVIOUS
<1>6. /\ u \in Response
      /\ u.code = r.code /\ u.wroteHeader = r.wroteHeader /\ u.sent = r.sent
      /\ u.asked = r.asked /\ u.informed = r.informed /\ u.flushed = r.flushed
  BY <1>1, <1>5 DEF Response
<1>7. Settled(u)
  BY <1>1, <1>6 DEF Writable, Settled, Matched, Captured
<1>. QED BY <1>1, <1>3, <1>4, <1>5, <1>7

(* The deferred function reports what the client saw.                      *)
LEMMA Judgement ==
  ASSUME NEW c \in Calls, NEW o, Fine("served", resp[c], o),
         NEW to \in {"reported", "ended"}
  PROVE  /\ Fine(to, resp[c], o) /\ o = "none"
         /\ stack # "sentinel" => Fine(to, resp[c], Outcome(c))
<1>. DEFINE r == resp[c]
<1>1. r \in Response /\ Matched(r) /\ o = "none" /\ (stack # "sentinel" => Captured(r))
  BY DEF Fine, Outcomes
<1>2. to \in Phases /\ o \in Outcomes /\ Outcome(c) \in {"success", "failure"}
  BY <1>1 DEF Phases, Outcomes, Outcome
<1>3. Fine(to, r, o)
  BY <1>1, <1>2 DEF Fine
<1>4. ASSUME stack # "sentinel", Outcome(c) = "success" PROVE r.sent < 500 /\ ~r.panicked
  <2>1. ~r.panicked /\ r.code < 500
    BY <1>4 DEF Outcome
  <2>2. r.sent \in {0, 200, r.code}
    BY <1>1, <1>4 DEF Captured
  <2>. QED BY <1>1, <2>1, <2>2 DEF Response
<1>5. ASSUME stack # "sentinel", Outcome(c) = "failure"
      PROVE  r.panicked \/ r.flushed \/ r.sent >= 500
  <2>1. r.panicked \/ ~(r.code < 500)
    BY <1>5 DEF Outcome
  <2>2. ASSUME ~(r.code < 500), ~r.flushed PROVE r.sent >= 500
    <3>1. r.code \in Nat /\ r.code >= 500
      BY <1>1, <2>2 DEF Response
    <3>2. r.wroteHeader /\ Final(r.code)
      BY <1>1, <1>5, <3>1 DEF Captured, Final
    <3>. QED BY <1>1, <1>5, <2>2, <3>1, <3>2 DEF Captured
  <2>. QED BY <2>1, <2>2
<1>6. ASSUME stack # "sentinel" PROVE Fine(to, r, Outcome(c))
  <2>1. Outcome(c) \in Outcomes /\ Outcome(c) # "none"
    BY <1>2 DEF Outcomes
  <2>2. Captured(r)
    BY <1>1, <1>6
  <2>. QED BY <1>1, <1>2, <1>4, <1>5, <1>6, <2>1, <2>2 DEF Fine
<1>. QED BY <1>1, <1>3, <1>6

(* Every step of a call moves that call alone, to a phase, a response and  *)
(* an outcome that fit.                                                    *)
CallMoves(c) ==
  \E p, r, o : /\ Fine(p, r, o)
               /\ phase' = [phase EXCEPT ![c] = p]
               /\ resp' = [resp EXCEPT ![c] = r]
               /\ outcome' = [outcome EXCEPT ![c] = o]

(* Admission.                                                              *)
LEMMA AdmissionMoves ==
  ASSUME CallsTyped, ResponseInv, NEW c \in Calls,
         \/ Acquire(c) \/ GateOff(c) \/ GateOn(c) \/ ReadUsage(c) \/ BelowThreshold(c)
         \/ AtThreshold(c) \/ Grant(c) \/ Refuse(c) \/ PoolRuns(c) \/ PoolSheds(c)
  PROVE  CallMoves(c)
<1>1. /\ phase \in [Calls -> Phases] /\ resp \in [Calls -> Response]
      /\ outcome \in [Calls -> Outcomes]
      /\ Fine(phase[c], resp[c], outcome[c])
  BY DEF CallsTyped, ResponseInv
<1>2. /\ phase = [phase EXCEPT ![c] = phase[c]]
      /\ resp = [resp EXCEPT ![c] = resp[c]]
      /\ outcome = [outcome EXCEPT ![c] = outcome[c]]
  BY <1>1
<1>3. ASSUME UNCHANGED <<phase, resp, outcome>> PROVE CallMoves(c)
  BY <1>1, <1>2, <1>3 DEF CallMoves
<1>4. ASSUME NEW from \in {"new", "asking", "admitted"},
             NEW to \in {"asking", "admitted", "serving", "ended"},
             GoOn(c, from, to), UNCHANGED <<resp, outcome>>
      PROVE  CallMoves(c)
  <2>1. phase[c] = from /\ phase' = [phase EXCEPT ![c] = to]
    BY <1>4 DEF GoOn
  <2>2. Fine(from, resp[c], outcome[c])
    BY <1>1, <2>1
  <2>3. Fine(to, resp[c], outcome[c])
    BY <2>2, BeforeService
  <2>. QED BY <1>2, <1>4, <2>1, <2>3 DEF CallMoves
<1>5. ASSUME NEW from \in {"new", "asking", "admitted"}, GoOn(c, from, "shed"),
             Answer503(c), outcome' = outcome
      PROVE  CallMoves(c)
  <2>1. phase[c] = from /\ phase' = [phase EXCEPT ![c] = "shed"]
    BY <1>5 DEF GoOn
  <2>2. PICK r : r = Send(Asked(resp[c], 503), 503)
    OBVIOUS
  <2>3. resp' = [resp EXCEPT ![c] = r]
    BY <1>1, <1>5, <2>2 DEF Answer503
  <2>4. Fine("shed", r, outcome[c])
    <3>1. Fine(from, resp[c], outcome[c])
      BY <1>1, <2>1
    <3>. QED BY <2>2, <3>1, Answered
  <2>. QED BY <1>2, <1>5, <2>1, <2>3, <2>4 DEF CallMoves
<1>6. CASE PoolSheds(c)
  <2>1. /\ phase[c] = "admitted" /\ phase' = [phase EXCEPT ![c] = "shed"]
        /\ outcome' = [outcome EXCEPT ![c] = "failure"] /\ stack # "sentinel"
    BY <1>6 DEF PoolSheds, GoOn
  <2>2. PICK r : r = Send(Asked(resp[c], 503), 503)
    OBVIOUS
  <2>3. resp' = [resp EXCEPT ![c] = r]
    BY <1>1, <1>6, <2>2 DEF PoolSheds, Answer503
  <2>4. Fine("shed", r, "failure")
    <3>1. Fine("admitted", resp[c], outcome[c])
      BY <1>1, <2>1
    <3>. QED BY <2>1, <2>2, <3>1, Answered
  <2>. QED BY <2>1, <2>3, <2>4 DEF CallMoves
<1>7. CASE Acquire(c)
  BY <1>3, <1>4, <1>5, <1>7 DEF Acquire
<1>8. CASE GateOff(c)
  BY <1>4, <1>8 DEF GateOff
<1>9. CASE GateOn(c) \/ PoolRuns(c) \/ BelowThreshold(c)
  BY <1>4, <1>9 DEF GateOn, PoolRuns, BelowThreshold
<1>10. CASE Grant(c)
  BY <1>4, <1>10 DEF Grant
<1>11. CASE AtThreshold(c) \/ Refuse(c)
  BY <1>5, <1>11 DEF AtThreshold, Refuse
<1>12. CASE ReadUsage(c)
  BY <1>3, <1>12 DEF ReadUsage, callVars
<1>. QED BY <1>6, <1>7, <1>8, <1>9, <1>10, <1>11, <1>12

(* Service, and the report after it.                                       *)
LEMMA ServiceMoves ==
  ASSUME CallsTyped, ResponseInv, NEW c \in Calls,
         \/ WriteHeader(c) \/ Write(c) \/ Flush(c) \/ Return(c) \/ Panic(c)
         \/ Settle(c) \/ Report(c)
  PROVE  CallMoves(c)
<1>1. /\ phase \in [Calls -> Phases] /\ resp \in [Calls -> Response]
      /\ outcome \in [Calls -> Outcomes]
      /\ Fine(phase[c], resp[c], outcome[c])
  BY DEF CallsTyped, ResponseInv
<1>2. /\ phase = [phase EXCEPT ![c] = phase[c]]
      /\ resp = [resp EXCEPT ![c] = resp[c]]
      /\ outcome = [outcome EXCEPT ![c] = outcome[c]]
  BY <1>1
<1>3. ASSUME NEW u, Serving(c, u), phase[c] = "serving" /\ Writable(resp[c]) => Writable(u)
      PROVE  CallMoves(c)
  <2>1. /\ phase[c] = "serving" /\ resp' = [resp EXCEPT ![c] = u]
        /\ phase' = phase /\ outcome' = outcome
    BY <1>3 DEF Serving
  <2>2. Fine("serving", u, outcome[c])
    BY <1>1, <1>3, <2>1, Serves
  <2>. QED BY <1>2, <2>1, <2>2 DEF CallMoves
<1>4. CASE WriteHeader(c)
  <2>1. PICK s \in Statuses :
          Serving(c, [Through(Asked(resp[c], s), s) EXCEPT !.informed = @ \/ ~Final(s)])
    BY <1>4 DEF WriteHeader
  <2>. QED BY <1>3, <2>1, WriteHeaderKeeps
<1>5. CASE Write(c)
  <2>1. Serving(c, Send(Through(Asked(resp[c], 200), 200), 200))
    BY <1>5 DEF Write
  <2>. QED BY <1>3, <2>1, WriteKeeps
<1>6. CASE Flush(c)
  <2>1. Serving(c, [Send(Asked(resp[c], 200), 200) EXCEPT !.flushed = TRUE])
    BY <1>6 DEF Flush
  <2>. QED BY <1>3, <2>1, ImplicitKeeps
<1>7. CASE Return(c)
  <2>1. PICK u : u = Send(Asked(resp[c], 200), 200)
    OBVIOUS
  <2>2. /\ phase[c] = "serving" /\ phase' = [phase EXCEPT ![c] = "served"]
        /\ resp' = [resp EXCEPT ![c] = u] /\ outcome' = outcome
    BY <1>1, <1>7, <2>1 DEF Return, GoOn
  <2>3. Fine("served", u, outcome[c])
    BY <1>1, <2>1, <2>2, Serves, ImplicitKeeps
  <2>. QED BY <1>2, <2>2, <2>3 DEF CallMoves
<1>8. CASE Panic(c)
  <2>1. PICK u : u = [resp[c] EXCEPT !.panicked = TRUE]
    OBVIOUS
  <2>2. /\ phase[c] = "serving" /\ phase' = [phase EXCEPT ![c] = "served"]
        /\ resp' = [resp EXCEPT ![c] = u] /\ outcome' = outcome
    BY <1>1, <1>8, <2>1 DEF Panic, GoOn
  <2>3. Fine("served", u, outcome[c])
    BY <1>1, <2>1, <2>2, Serves
  <2>. QED BY <1>2, <2>2, <2>3 DEF CallMoves
<1>9. CASE Settle(c)
  <2>1. /\ phase[c] = "served" /\ phase' = [phase EXCEPT ![c] = "ended"] /\ resp' = resp
    BY <1>9 DEF Settle, GoOn
  <2>2. /\ Fine("ended", resp[c], outcome[c])
        /\ stack # "sentinel" => Fine("ended", resp[c], Outcome(c))
    BY <1>1, <2>1, Judgement
  <2>3. CASE stack = "sentinel"
    <3>1. outcome' = outcome
      BY <1>9, <2>3 DEF Settle
    <3>. QED BY <1>2, <2>1, <2>2, <3>1 DEF CallMoves
  <2>4. CASE stack # "sentinel"
    <3>1. outcome' = [outcome EXCEPT ![c] = Outcome(c)]
      BY <1>9, <2>4 DEF Settle
    <3>. QED BY <1>2, <2>1, <2>2, <2>4, <3>1 DEF CallMoves
  <2>. QED BY <2>3, <2>4
<1>10. CASE Report(c) /\ phase[c] = "served"
  <2>1. /\ phase' = [phase EXCEPT ![c] = "reported"] /\ resp' = resp
        /\ outcome' = [outcome EXCEPT ![c] = Outcome(c)] /\ stack # "sentinel"
    BY <1>10 DEF Report, GoOn
  <2>2. Fine("reported", resp[c], Outcome(c))
    BY <1>1, <1>10, <2>1, Judgement
  <2>. QED BY <1>2, <2>1, <2>2 DEF CallMoves
<1>11. CASE Report(c) /\ phase[c] # "served"
  <2>1. /\ phase[c] = "reported" /\ phase' = [phase EXCEPT ![c] = "ended"]
        /\ resp' = resp /\ outcome' = outcome
    BY <1>11 DEF Report, GoOn
  <2>2. Fine("ended", resp[c], outcome[c])
    BY <1>1, <2>1 DEF Fine, Phases
  <2>. QED BY <1>2, <2>1, <2>2 DEF CallMoves
<1>. QED BY <1>4, <1>5, <1>6, <1>7, <1>8, <1>9, <1>10, <1>11

-----------------------------------------------------------------------------
(* What each kind of step leaves alone.                                    *)

(* Calls go through a middleware only as Handled says.                     *)
LEMMA StepCases ==
  ASSUME [MiddlewareNext]_vars
  PROVE  /\ stack' = stack /\ threshold' = threshold
         /\ \/ \E c \in Calls : CallStep(c)
            \/ UNCHANGED callVars
<1>1. CASE UNCHANGED vars
  BY <1>1 DEF vars
<1>2. CASE MiddlewareNext
  <2>1. stack' = stack /\ threshold' = threshold
    BY <1>2 DEF MiddlewareNext
  <2>2. CASE \E c \in Handled : CallStep(c)
    BY <2>1, <2>2, MiddlewareAssumption
  <2>3. CASE BareUse \/ SetEnabled \/ RefreshUsage \/ Rest
    BY <2>1, <2>3 DEF BareUse, SetEnabled, RefreshUsage, Rest, vars
  <2>. QED BY <1>2, <2>2, <2>3 DEF MiddlewareNext
<1>. QED BY <1>1, <1>2

(* Every step of a call moves it alone.                                    *)
LEMMA CallMovesAlone ==
  ASSUME CallsTyped, ResponseInv, NEW c \in Calls, CallStep(c)
  PROVE  CallMoves(c)
BY AdmissionMoves, ServiceMoves DEF CallStep

(* Responses and outcomes go on fitting.                                   *)
LEMMA ResponseStep ==
  ASSUME CallsTyped, ResponseInv, [MiddlewareNext]_vars
  PROVE  /\ ResponseInv'
         /\ phase' \in [Calls -> Phases] /\ resp' \in [Calls -> Response]
         /\ outcome' \in [Calls -> Outcomes]
<1>1. /\ phase \in [Calls -> Phases] /\ resp \in [Calls -> Response]
      /\ outcome \in [Calls -> Outcomes] /\ stack' = stack
      /\ \A q \in Calls : Fine(phase[q], resp[q], outcome[q])
  BY StepCases DEF CallsTyped, ResponseInv
<1>2. ASSUME \A q \in Calls : Fine(phase'[q], resp'[q], outcome'[q])
      PROVE  ResponseInv'
  BY <1>1, <1>2 DEF ResponseInv, Fine, Captured, Open
<1>3. ASSUME NEW c \in Calls, CallStep(c)
      PROVE  /\ ResponseInv'
             /\ phase' \in [Calls -> Phases] /\ resp' \in [Calls -> Response]
             /\ outcome' \in [Calls -> Outcomes]
  <2>1. CallMoves(c)
    BY <1>3, CallMovesAlone
  <2>2. PICK p, r, o : /\ Fine(p, r, o)
                       /\ phase' = [phase EXCEPT ![c] = p]
                       /\ resp' = [resp EXCEPT ![c] = r]
                       /\ outcome' = [outcome EXCEPT ![c] = o]
    BY <2>1 DEF CallMoves
  <2>3. p \in Phases /\ r \in Response /\ o \in Outcomes
    BY <2>2 DEF Fine
  <2>4. /\ phase' \in [Calls -> Phases] /\ resp' \in [Calls -> Response]
        /\ outcome' \in [Calls -> Outcomes]
    BY <1>1, <2>2, <2>3
  <2>5. /\ phase'[c] = p /\ resp'[c] = r /\ outcome'[c] = o
        /\ \A q \in Calls \ {c} : phase'[q] = phase[q] /\ resp'[q] = resp[q] /\ outcome'[q] = outcome[q]
    BY <1>1, <2>2
  <2>6. \A q \in Calls : Fine(phase'[q], resp'[q], outcome'[q])
    <3>1. Fine(phase'[c], resp'[c], outcome'[c])
      BY <2>2, <2>5
    <3>2. ASSUME NEW q \in Calls \ {c} PROVE Fine(phase'[q], resp'[q], outcome'[q])
      <4>1. Fine(phase[q], resp[q], outcome[q])
        BY <1>1
      <4>. QED BY <2>5, <4>1
    <3>. QED BY <3>1, <3>2
  <2>. QED BY <1>2, <2>4, <2>6
<1>4. CASE UNCHANGED callVars
  <2>1. phase' = phase /\ resp' = resp /\ outcome' = outcome
    BY <1>4 DEF callVars
  <2>. QED BY <1>1, <1>2, <2>1
<1>. QED BY <1>3, <1>4, StepCases

-----------------------------------------------------------------------------
(* Promises.                                                               *)

Promised == {c \in Calls : granted[c] /\ phase[c] \in {"admitted", "serving", "served"}}

(* A step of a call grants a promise, settles one, or leaves them alone.   *)
LEMMA PromiseMoves ==
  ASSUME CallsTyped, PromiseInv, NEW c \in Calls, CallStep(c), stack' = stack
  PROVE  /\ granted' \in [Calls -> BOOLEAN]
         /\ \A q \in Calls : granted'[q] => External' /\ phase'[q] \notin {"new", "asking"}
         /\ \/ Promised' = Promised \cup {c} /\ c \notin Promised /\ flying' = flying + 1
            \/ Promised' = Promised \ {c} /\ c \in Promised /\ flying' = flying - 1
            \/ Promised' = Promised /\ flying' = flying
<1>1. /\ phase \in [Calls -> Phases] /\ granted \in [Calls -> BOOLEAN]
      /\ \A q \in Calls : granted[q] => External /\ phase[q] \notin {"new", "asking"}
      /\ External' = External
  BY DEF CallsTyped, PromiseInv, External
<1>2. ASSUME granted' = granted, flying' = flying, phase' = phase
      PROVE  /\ granted' \in [Calls -> BOOLEAN]
             /\ \A q \in Calls : granted'[q] => External' /\ phase'[q] \notin {"new", "asking"}
             /\ Promised' = Promised
  BY <1>1, <1>2 DEF Promised
<1>3. ASSUME NEW from, NEW to, GoOn(c, from, to), granted' = granted, flying' = flying,
             \/ ~granted[c]
             \/ from \in {"admitted", "serving"} /\ to \in {"serving", "served"}
      PROVE  /\ granted' \in [Calls -> BOOLEAN]
             /\ \A q \in Calls : granted'[q] => External' /\ phase'[q] \notin {"new", "asking"}
             /\ Promised' = Promised
  <2>1. phase[c] = from /\ phase' = [phase EXCEPT ![c] = to]
    BY <1>3 DEF GoOn
  <2>. QED BY <1>1, <1>3, <2>1 DEF Promised
<1>4. ASSUME phase[c] \in {"new", "asking"} \/ ~External PROVE ~granted[c]
  BY <1>1, <1>4
<1>5. CASE Acquire(c)
  <2>1. granted' = granted /\ flying' = flying /\ ~granted[c]
    BY <1>4, <1>5 DEF Acquire, External
  <2>. QED BY <1>2, <1>3, <1>5, <2>1 DEF Acquire
<1>6. CASE Report(c)
  <2>1. granted' = granted /\ flying' = flying /\ ~granted[c]
    BY <1>4, <1>6 DEF Report, External
  <2>. QED BY <1>3, <1>6, <2>1 DEF Report
<1>7. CASE GateOff(c) \/ GateOn(c) \/ BelowThreshold(c) \/ AtThreshold(c) \/ Refuse(c)
  <2>1. granted' = granted /\ flying' = flying /\ ~granted[c]
    BY <1>4, <1>7 DEF GateOff, GateOn, BelowThreshold, AtThreshold, Refuse, GoOn
  <2>. QED BY <1>3, <1>7, <2>1 DEF GateOff, GateOn, BelowThreshold, AtThreshold, Refuse
<1>8. CASE ReadUsage(c) \/ WriteHeader(c) \/ Write(c) \/ Flush(c)
  BY <1>2, <1>8 DEF ReadUsage, callVars, WriteHeader, Write, Flush, Serving
<1>9. CASE PoolRuns(c) \/ Return(c) \/ Panic(c)
  BY <1>3, <1>9 DEF PoolRuns, Return, Panic
<1>10. CASE Grant(c)
  <2>1. PICK to \in {"admitted", "serving"} : phase' = [phase EXCEPT ![c] = to]
    BY <1>10 DEF Grant, GoOn
  <2>2. /\ phase[c] = "asking" /\ External /\ granted' = [granted EXCEPT ![c] = TRUE]
        /\ flying' = flying + 1
    BY <1>10 DEF Grant, GoOn
  <2>3. Promised' = Promised \cup {c} /\ c \notin Promised
    BY <1>1, <2>1, <2>2 DEF Promised
  <2>4. /\ granted' \in [Calls -> BOOLEAN]
        /\ \A q \in Calls : granted'[q] => External' /\ phase'[q] \notin {"new", "asking"}
    BY <1>1, <2>1, <2>2
  <2>. QED BY <2>2, <2>3, <2>4
<1>11. CASE PoolSheds(c) \/ Settle(c)
  <2>1. PICK to \in {"shed", "ended"} : phase' = [phase EXCEPT ![c] = to]
    BY <1>11 DEF PoolSheds, Settle, GoOn
  <2>2. /\ phase[c] \in {"admitted", "served"} /\ granted' = granted
        /\ flying' = IF granted[c] THEN flying - 1 ELSE flying
    BY <1>11 DEF PoolSheds, Settle, GoOn, done
  <2>3. /\ granted' \in [Calls -> BOOLEAN]
        /\ \A q \in Calls : granted'[q] => External' /\ phase'[q] \notin {"new", "asking"}
    BY <1>1, <2>1, <2>2
  <2>4. CASE granted[c]
    <3>1. Promised' = Promised \ {c} /\ c \in Promised
      BY <1>1, <2>1, <2>2, <2>4 DEF Promised
    <3>. QED BY <2>2, <2>3, <2>4, <3>1
  <2>5. CASE ~granted[c]
    <3>1. Promised' = Promised
      BY <1>1, <2>1, <2>2, <2>5 DEF Promised
    <3>. QED BY <2>2, <2>3, <2>5, <3>1
  <2>. QED BY <2>4, <2>5
<1>. QED BY <1>5, <1>6, <1>7, <1>8, <1>9, <1>10, <1>11 DEF CallStep

(* The promises in the air go on being those of requests not yet over.     *)
LEMMA PromiseStep ==
  ASSUME CallsTyped, PromiseInv, [MiddlewareNext]_vars
  PROVE  PromiseInv' /\ granted' \in [Calls -> BOOLEAN] /\ flying' \in Int
<1>1. /\ granted \in [Calls -> BOOLEAN] /\ flying \in Int /\ stack' = stack
      /\ \A q \in Calls : granted[q] => External /\ phase[q] \notin {"new", "asking"}
      /\ flying = Cardinality(Promised) /\ External' = External
  BY StepCases DEF CallsTyped, PromiseInv, ControllerExact, Promised, External
<1>2. Promised \subseteq Calls /\ IsFiniteSet(Promised) /\ Cardinality(Promised) \in Nat
  <2>1. Promised \subseteq Calls
    BY DEF Promised
  <2>. QED BY <2>1, CallSetsFinite
<1>3. ASSUME NEW c \in Calls, CallStep(c)
      PROVE  PromiseInv' /\ granted' \in [Calls -> BOOLEAN] /\ flying' \in Int
  <2>1. /\ granted' \in [Calls -> BOOLEAN]
        /\ \A q \in Calls : granted'[q] => External' /\ phase'[q] \notin {"new", "asking"}
        /\ \/ Promised' = Promised \cup {c} /\ c \notin Promised /\ flying' = flying + 1
           \/ Promised' = Promised \ {c} /\ c \in Promised /\ flying' = flying - 1
           \/ Promised' = Promised /\ flying' = flying
    BY <1>1, <1>3, PromiseMoves
  <2>2. flying' = Cardinality(Promised')
    <3>1. CASE Promised' = Promised \cup {c} /\ c \notin Promised /\ flying' = flying + 1
      BY <1>1, <1>2, <3>1, FS_AddElement
    <3>2. CASE Promised' = Promised \ {c} /\ c \in Promised /\ flying' = flying - 1
      BY <1>1, <1>2, <3>2, FS_RemoveElement
    <3>3. CASE Promised' = Promised /\ flying' = flying
      BY <1>1, <3>3
    <3>. QED BY <2>1, <3>1, <3>2, <3>3
  <2>3. flying' \in Int
    BY <1>1, <2>1
  <2>. QED BY <2>1, <2>2, <2>3 DEF PromiseInv, ControllerExact, Promised
<1>4. CASE UNCHANGED callVars
  <2>1. phase' = phase /\ granted' = granted /\ flying' = flying
    BY <1>4 DEF callVars
  <2>2. Promised' = Promised
    BY <2>1 DEF Promised
  <2>. QED BY <1>1, <2>1, <2>2 DEF PromiseInv, ControllerExact, Promised
<1>. QED BY <1>3, <1>4, StepCases

-----------------------------------------------------------------------------
(* The limiter behind the middleware.                                      *)

(* A middleware touches the limiter only through Acquire and its listener. *)
LEMMA LimiterOnly ==
  ASSUME [MiddlewareNext]_vars
  PROVE  [Next]_limiterVars
<1>1. ASSUME NEW c \in Handled, CallStep(c) PROVE Next \/ UNCHANGED limiterVars
  <2>1. c \in Calls
    BY MiddlewareAssumption
  <2>2. CASE Acquire(c) \/ Report(c)
    <3>1. CountIn(c) \/ Admit(c) \/ Exceed(c) \/ CountOut(c) \/ Finish(c) \/ Sample(c)
      BY <2>2 DEF Acquire, Report
    <3>. QED BY <2>1, <3>1 DEF Next, Step
  <2>3. CASE \/ GateOff(c) \/ GateOn(c) \/ ReadUsage(c) \/ BelowThreshold(c) \/ AtThreshold(c)
             \/ Grant(c) \/ Refuse(c) \/ PoolRuns(c) \/ PoolSheds(c)
             \/ WriteHeader(c) \/ Write(c) \/ Flush(c) \/ Return(c) \/ Panic(c) \/ Settle(c)
    BY <2>3 DEF GateOff, GateOn, ReadUsage, BelowThreshold, AtThreshold, Grant, Refuse,
                PoolRuns, PoolSheds, WriteHeader, Write, Flush, Serving, Return, Panic, Settle,
                behind
  <2>. QED BY <1>1, <2>2, <2>3 DEF CallStep
<1>2. CASE SetEnabled \/ RefreshUsage \/ Rest \/ UNCHANGED vars
  BY <1>2 DEF SetEnabled, RefreshUsage, Rest, vars, behind
<1>3. CASE BareUse
  BY <1>3 DEF BareUse
<1>. QED BY <1>1, <1>2, <1>3 DEF MiddlewareNext

-----------------------------------------------------------------------------
(* The CPU usage (cpu.go and refreshCpu).                                  *)

(* An instantaneous reading is cut at the maximum.                         *)
LEMMA InstantRange ==
  ASSUME NEW cpuDelta \in Nat, NEW systemDelta \in Nat, cpuLimit \in Nat \ {0}
  PROVE  Cpu!Instant(cpuDelta, systemDelta) \in 0 .. CpuMax
<1>1. CpuMax \in Nat /\ Cores \in Nat
  BY MiddlewareAssumption
<1>2. CASE cpuDelta = 0 \/ systemDelta = 0
  BY <1>1, <1>2 DEF Cpu!Instant
<1>3. CASE cpuDelta # 0 /\ systemDelta # 0
  <2>1. PICK a \in Nat : a = 10 * cpuDelta * Cores * CpuMax
    BY <1>1
  <2>2. PICK b \in Nat \ {0} : b = systemDelta * cpuLimit
    BY <1>3
  <2>3. a \div b \in Nat
    BY <2>1, <2>2
  <2>. QED BY <1>1, <1>3, <2>1, <2>2, <2>3 DEF Cpu!Instant
<1>. QED BY <1>2, <1>3

(* Truncation keeps the average below the plateau.                         *)
LEMMA SmoothedRange ==
  ASSUME SamplerInv, NEW cur \in 0 .. CpuMax, NEW v \in Cpu!Smoothed(cur)
  PROVE  /\ v \in Nat /\ v <= CpuMax - 19
         /\ cpuUsageValue = 0 /\ cur = 0 => v = 0
<1>1. CpuMax \in Nat /\ CpuMax >= 19 /\ cpuUsageValue \in Nat /\ cpuUsageValue <= CpuMax - 19
  BY MiddlewareAssumption DEF SamplerInv, SamplerTyped
<1>2. PICK sum \in Nat : sum = 19 * cpuUsageValue + cur
  BY <1>1
<1>3. \/ v = sum \div 20
      \/ v = sum \div 20 - 1 /\ sum > 0 /\ sum % 20 = 0
  BY <1>2 DEF Cpu!Smoothed
<1>4. PICK d \in Nat : d = sum \div 20
  BY <1>2
<1>5. PICK m \in 0 .. 19 : m = sum % 20
  BY <1>2
<1>6. sum = 20 * d + m
  BY <1>2, <1>4, <1>5
<1>7. v = d \/ (v = d - 1 /\ d > 0)
  BY <1>2, <1>3, <1>4, <1>5, <1>6
<1>. QED BY <1>1, <1>2, <1>6, <1>7

(* A new average.                                                          *)
LEMMA NewAverage ==
  ASSUME SamplerInv, NEW cur \in 0 .. CpuMax, cpuUsageValue' \in Cpu!Smoothed(cur)
  PROVE  /\ cpuUsageValue' \in Nat /\ cpuUsageValue' <= CpuMax - 19
         /\ cpuUsageValue = 0 /\ cur = 0 => cpuUsageValue' = 0
<1>1. PICK v : v = cpuUsageValue'
  OBVIOUS
<1>2. v \in Cpu!Smoothed(cur)
  BY <1>1
<1>3. /\ v \in Nat /\ v <= CpuMax - 19
      /\ cpuUsageValue = 0 /\ cur = 0 => v = 0
  BY <1>2, SmoothedRange
<1>. QED BY <1>1, <1>3

(* Clocks go on being natural numbers.                                     *)
LEMMA ClockMoves ==
  ASSUME clock \in Nat, NEW elapsed \in Elapsed, Cpu!Advance(elapsed)
  PROVE  clock' \in Nat /\ Cpu!systemCpuUsage(clock') \in Nat
<1>1. PICK t : t = clock'
  OBVIOUS
<1>2. elapsed \in Nat /\ Second \in Nat /\ Width \in Nat \ {0} /\ CpuTicks \in Nat \ {0}
  BY MiddlewareAssumption
<1>3. PICK x \in Nat : x = clock + elapsed * Second
  BY <1>2
<1>4. t = x % Width
  BY <1>1, <1>3 DEF Cpu!Advance
<1>5. t \in Nat
  BY <1>2, <1>3, <1>4
<1>6. t \div CpuTicks \in Nat
  BY <1>2, <1>5
<1>. QED BY <1>1, <1>5, <1>6 DEF Cpu!systemCpuUsage

(* A difference of two clocks, modulo 2^64, is a natural number.           *)
LEMMA Remainder == ASSUME NEW d \in Int, NEW w \in Nat \ {0} PROVE d % w \in Nat
OBVIOUS

(* Whatever moves the sampler keeps its invariant.                         *)
LEMMA SamplerMoves ==
  ASSUME SamplerInv, Cpu!startCpuSampler \/ Cpu!SamplerNext \/ UNCHANGED samplerVars
  PROVE  SamplerInv'
<1>1. /\ clock \in Nat /\ preSystem \in Nat /\ pending \in Nat /\ cpuUsageValue \in Nat
      /\ sampler \in {"off", "running", "noCgroup"}
      /\ sampler = "running" => cpuLimit \in Nat \ {0}
      /\ cpuUsageValue <= CpuMax - 19
      /\ sampler \in {"off", "noCgroup"} => cpuUsageValue = 0
  BY DEF SamplerInv, SamplerTyped
<1>2. /\ CpuMax \in Nat /\ CpuMax >= 19 /\ Width \in Nat \ {0} /\ CpuTicks \in Nat \ {0}
      /\ CpuLimits \subseteq Nat \ {0} /\ Uses \subseteq Nat /\ 0 \in 0 .. CpuMax
  BY MiddlewareAssumption
<1>3. CASE UNCHANGED samplerVars
  BY <1>1, <1>3 DEF samplerVars, SamplerInv, SamplerTyped
<1>4. CASE Cpu!startCpuSampler
  <2>1. /\ sampler = "off" /\ sampler' \in {"running", "noCgroup"} /\ pending' = 0
        /\ sampler' = "running" => cpuLimit' \in CpuLimits
        /\ clock' = clock /\ cpuUsageValue' = cpuUsageValue
    BY <1>4 DEF Cpu!startCpuSampler
  <2>2. preSystem' \in Nat
    <3>1. clock \div CpuTicks \in Nat
      BY <1>1, <1>2
    <3>. QED BY <1>1, <1>4, <3>1 DEF Cpu!startCpuSampler, Cpu!systemCpuUsage
  <2>. QED BY <1>1, <1>2, <2>1, <2>2 DEF SamplerInv, SamplerTyped
<1>5. CASE Cpu!RefreshWithoutCgroup
  <2>1. /\ sampler = "noCgroup" /\ sampler' = sampler /\ cpuLimit' = cpuLimit
        /\ preSystem' = preSystem /\ pending' = pending
        /\ cpuUsageValue' \in Cpu!Smoothed(0) /\ clock' \in Nat
    BY <1>1, <1>5, ClockMoves DEF Cpu!RefreshWithoutCgroup
  <2>2. cpuUsageValue' = 0
    BY <1>1, <1>2, <2>1, NewAverage
  <2>. QED BY <1>1, <1>2, <2>1, <2>2 DEF SamplerInv, SamplerTyped
<1>6. CASE Cpu!RefreshFails
  <2>1. /\ sampler = "running" /\ sampler' = sampler /\ cpuLimit' = cpuLimit
        /\ preSystem' = preSystem
        /\ cpuUsageValue' \in Cpu!Smoothed(0) /\ clock' \in Nat
    BY <1>1, <1>6, ClockMoves DEF Cpu!RefreshFails
  <2>2. pending' \in Nat
    BY <1>1, <1>2, <1>6 DEF Cpu!RefreshFails
  <2>3. cpuUsageValue' \in Nat /\ cpuUsageValue' <= CpuMax - 19
    BY <1>2, <2>1, NewAverage
  <2>. QED BY <1>1, <2>1, <2>2, <2>3 DEF SamplerInv, SamplerTyped
<1>7. CASE Cpu!Refresh
  <2>1. /\ sampler = "running" /\ sampler' = sampler /\ cpuLimit' = cpuLimit
        /\ pending' = 0 /\ preSystem' \in Nat /\ clock' \in Nat
    BY <1>1, <1>7, ClockMoves DEF Cpu!Refresh
  <2>2. PICK used \in Uses :
          cpuUsageValue' \in
            Cpu!Smoothed(Cpu!Instant(pending + used, (preSystem' - preSystem) % Width))
    BY <1>7 DEF Cpu!Refresh
  <2>3. PICK delta \in Nat : delta = (preSystem' - preSystem) % Width
    <3>1. PICK p \in Nat : p = preSystem'
      BY <2>1
    <3>2. (p - preSystem) % Width \in Nat
      <4>1. p - preSystem \in Int
        BY <1>1
      <4>. QED BY <1>2, <4>1, Remainder
    <3>3. (preSystem' - preSystem) % Width \in Nat
      BY <3>1, <3>2, Zenon
    <3>. QED BY <3>3, Zenon
  <2>4. PICK cur \in 0 .. CpuMax : cur = Cpu!Instant(pending + used, delta)
    <3>1. pending + used \in Nat /\ cpuLimit \in Nat \ {0}
      BY <1>1, <1>2, <2>1
    <3>. QED BY <3>1, InstantRange
  <2>5. cpuUsageValue' \in Nat /\ cpuUsageValue' <= CpuMax - 19
    BY <2>2, <2>3, <2>4, NewAverage
  <2>. QED BY <1>1, <2>1, <2>5 DEF SamplerInv, SamplerTyped
<1>. QED BY <1>3, <1>4, <1>5, <1>6, <1>7 DEF Cpu!SamplerNext

(* The sampler moves by its own steps alone.                               *)
LEMMA SamplerOnly ==
  ASSUME [MiddlewareNext]_vars
  PROVE  Cpu!startCpuSampler \/ Cpu!SamplerNext \/ UNCHANGED samplerVars
<1>1. ASSUME NEW c \in Handled, CallStep(c)
      PROVE  Cpu!startCpuSampler \/ UNCHANGED samplerVars
  BY <1>1 DEF CallStep, GateOff, GateOn, ReadUsage, BelowThreshold, AtThreshold, Grant, Refuse,
              PoolRuns, PoolSheds, WriteHeader, Write, Flush, Serving, Return, Panic, Settle,
              behind
<1>2. CASE BareUse \/ SetEnabled \/ Rest \/ UNCHANGED vars
  BY <1>2 DEF BareUse, SetEnabled, Rest, vars, behind
<1>3. CASE RefreshUsage
  BY <1>3 DEF RefreshUsage
<1>. QED BY <1>1, <1>2, <1>3 DEF MiddlewareNext

(* Only AtThreshold sheds behind a CPU gate.                               *)
LEMMA NeverShedStep ==
  ASSUME CallsTyped, SamplerInv, NeverShed, [MiddlewareNext]_vars
  PROVE  NeverShed'
<1>1. /\ stack' = stack /\ threshold' = threshold /\ threshold \in Nat
      /\ phase \in [Calls -> Phases] /\ CpuMax \in Nat
      /\ cpuUsageValue \in Nat /\ cpuUsageValue <= CpuMax - 19
  BY StepCases, MiddlewareAssumption DEF CallsTyped, SamplerInv, SamplerTyped
<1>. SUFFICES ASSUME stack = "cpuGate", threshold > CpuMax - 19
              PROVE  \A q \in Calls : phase'[q] # "shed"
  BY <1>1 DEF NeverShed
<1>2. \A q \in Calls : phase[q] # "shed"
  BY DEF NeverShed
<1>3. ASSUME NEW c \in Calls, CallStep(c) PROVE \A q \in Calls : phase'[q] # "shed"
  <2>1. ASSUME NEW from, NEW to, GoOn(c, from, to), to # "shed"
        PROVE  \A q \in Calls : phase'[q] # "shed"
    BY <1>1, <1>2, <2>1 DEF GoOn
  <2>2. ~AtThreshold(c)
    BY <1>1 DEF AtThreshold
  <2>3. ~Refuse(c) /\ ~PoolSheds(c) /\ ~Acquire(c) /\ ~Grant(c) /\ ~PoolRuns(c)
        /\ ~Settle(c) /\ ~Report(c)
    BY DEF Refuse, PoolSheds, Acquire, Grant, PoolRuns, Settle, Report, External
  <2>4. CASE GateOff(c) \/ GateOn(c) \/ BelowThreshold(c) \/ Return(c) \/ Panic(c)
    BY <2>1, <2>4 DEF GateOff, GateOn, BelowThreshold, Return, Panic
  <2>5. CASE ReadUsage(c) \/ WriteHeader(c) \/ Write(c) \/ Flush(c)
    BY <1>2, <2>5 DEF ReadUsage, callVars, WriteHeader, Write, Flush, Serving
  <2>. QED BY <1>3, <2>2, <2>3, <2>4, <2>5 DEF CallStep
<1>4. CASE UNCHANGED callVars
  BY <1>2, <1>4 DEF callVars
<1>. QED BY <1>3, <1>4, StepCases

-----------------------------------------------------------------------------
(* A new stack satisfies the invariant.                                    *)
LEMMA InitMiddleware == ASSUME MiddlewareInit PROVE MiddlewareInv
<1>1. /\ phase = [c \in Calls |-> "new"] /\ resp = [c \in Calls |-> Fresh]
      /\ granted = [c \in Calls |-> FALSE] /\ outcome = [c \in Calls |-> "none"]
      /\ flying = 0 /\ stack \in Stacks
  BY DEF MiddlewareInit
<1>2. Fresh \in Response
  BY DEF Fresh, Response
<1>3. threshold \in Nat
  BY MiddlewareAssumption DEF MiddlewareInit
<1>4. CallsTyped
  <2>1. phase \in [Calls -> Phases] /\ outcome \in [Calls -> Outcomes]
    BY <1>1 DEF Phases, Outcomes
  <2>2. resp \in [Calls -> Response] /\ granted \in [Calls -> BOOLEAN] /\ flying \in Int
    BY <1>1, <1>2
  <2>. QED BY <1>1, <1>3, <2>1, <2>2 DEF CallsTyped
<1>5. PromiseInv
  <2>1. \A c \in Calls : ~granted[c]
    BY <1>1
  <2>2. Promised = {}
    BY <2>1 DEF Promised
  <2>3. flying = Cardinality(Promised)
    BY <1>1, <2>2, FS_EmptySet
  <2>. QED BY <2>1, <2>3 DEF PromiseInv, ControllerExact, Promised
<1>6. ResponseInv
  <2>1. Matched(Fresh) /\ Captured(Fresh)
    BY DEF Fresh, Matched, Captured
  <2>2. Fine("new", Fresh, "none")
    BY <1>2, <2>1 DEF Fine, Phases, Outcomes
  <2>. QED BY <1>1, <2>2 DEF ResponseInv
<1>7. SamplerInv
  <2>1. sampler = "off" /\ clock = 0 /\ preSystem = 0 /\ pending = 0 /\ cpuUsageValue = 0
    BY DEF MiddlewareInit, Cpu!SamplerInit
  <2>2. 0 <= CpuMax - 19
    BY MiddlewareAssumption
  <2>. QED BY <2>1, <2>2 DEF SamplerInv, SamplerTyped
<1>8. NeverShed
  BY <1>1 DEF NeverShed
<1>. QED BY <1>4, <1>5, <1>6, <1>7, <1>8 DEF MiddlewareInv

(* Every step keeps the inductive invariant.                               *)
LEMMA MiddlewareStep ==
  ASSUME MiddlewareInv, [MiddlewareNext]_vars
  PROVE  MiddlewareInv'
<1>1. CallsTyped /\ PromiseInv /\ ResponseInv /\ SamplerInv /\ NeverShed
  BY DEF MiddlewareInv
<1>2. /\ ResponseInv'
      /\ phase' \in [Calls -> Phases] /\ resp' \in [Calls -> Response]
      /\ outcome' \in [Calls -> Outcomes]
  BY <1>1, ResponseStep
<1>3. PromiseInv' /\ granted' \in [Calls -> BOOLEAN] /\ flying' \in Int
  BY <1>1, PromiseStep
<1>4. CallsTyped'
  BY <1>1, <1>2, <1>3, StepCases DEF CallsTyped
<1>5. SamplerInv'
  BY <1>1, SamplerOnly, SamplerMoves
<1>6. NeverShed'
  BY <1>1, NeverShedStep
<1>. QED BY <1>2, <1>3, <1>4, <1>5, <1>6 DEF MiddlewareInv

(* The invariant holds in every reachable state.                           *)
LEMMA MiddlewareInvariant == MiddlewareSpec => []MiddlewareInv
<1>1. MiddlewareInit => MiddlewareInv
  BY InitMiddleware
<1>2. MiddlewareInv /\ [MiddlewareNext]_vars => MiddlewareInv'
  BY MiddlewareStep
<1>. QED BY <1>1, <1>2, PTL DEF MiddlewareSpec

(* Whatever the stack, its SimpleLimiter is used as SimpleLimiter's        *)
(* specification says (handler.go: Acquire, then one call of the listener; *)
(* limiter.go), so its counter stays exact and its bound holds.            *)
THEOREM LimiterUsedProperly ==
  MiddlewareSpec => Spec /\ []InflightExact /\ []HoldersWithinLimits
<1>1. MiddlewareInit => Init
  BY DEF MiddlewareInit
<1>2. [MiddlewareNext]_vars => [Next]_limiterVars
  BY LimiterOnly
<1>3. MiddlewareSpec => Spec
  BY <1>1, <1>2, PTL DEF MiddlewareSpec, Spec
<1>4. TypeOK /\ InflightExact => InflightExact
  OBVIOUS
<1>. QED BY <1>3, <1>4, InflightIsExact, ConcurrencyBounded, PTL

(* Every promise of go-zero's shedder or of Sentinel is settled exactly    *)
(* once, whatever the pool and the gate's switch do in between             *)
(* (gozero/shedder.go, gozero/gate.go and sentinel/shedder.go).            *)
THEOREM PromisesSettledOnce == MiddlewareSpec => []ControllerExact
<1>1. MiddlewareInv => ControllerExact
  BY DEF MiddlewareInv, PromiseInv
<1>. QED BY <1>1, MiddlewareInvariant, PTL

(* A success is reported only of a request whose client got less than 500, *)
(* a failure only of a panic or of 500 or more unless the handler flushed  *)
(* first, and the client gets what the handler asked for unless it sent an *)
(* informational status (handler.go, codeWriter).                          *)
THEOREM OutcomeIsWhatTheClientSaw == MiddlewareSpec => []OutcomeMatchesStatus
<1>1. MiddlewareInv => OutcomeMatchesStatus
  BY DEF MiddlewareInv, ResponseInv, Fine, Matched, OutcomeMatchesStatus
<1>. QED BY <1>1, MiddlewareInvariant, PTL

(* The truncated average of the CPU usage (cpu.go) never comes closer than *)
(* 19 to the maximum, stays zero without a cgroup, and a gate with a       *)
(* threshold above that sheds nothing.                                     *)
THEOREM UsageHasAPlateau == MiddlewareSpec => []UsageBelowPlateau
<1>1. ASSUME MiddlewareInv PROVE UsageBelowPlateau
  <2>1. cpuUsageValue \in 0 .. CpuMax - 19
    BY <1>1, MiddlewareAssumption DEF MiddlewareInv, SamplerInv, SamplerTyped
  <2>. QED BY <1>1, <2>1 DEF MiddlewareInv, SamplerInv, NeverShed, UsageBelowPlateau
<1>. QED BY <1>1, MiddlewareInvariant, PTL
=============================================================================
