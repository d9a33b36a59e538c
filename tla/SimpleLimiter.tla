--------------------------- MODULE SimpleLimiter ---------------------------
(***************************************************************************)
(* concurrencylimits.SimpleLimiter (limiter.go): Acquire counts the call   *)
(* in, reads the limit of the algorithm, and counts the call out again if  *)
(* it came too late; a listener counts an admitted call out once and feeds *)
(* the algorithm.  `inflight` is an atomic integer and the three parts of  *)
(* Acquire are separate steps.                                             *)
(*                                                                         *)
(* A call is one call of Acquire with the listener it may return.  The     *)
(* algorithm behind the Limit interface may publish any value of Limits    *)
(* after a sample.                                                         *)
(***************************************************************************)
EXTENDS Integers, FiniteSets

CONSTANTS Calls,    \* calls of Acquire
          Limits    \* the values limit.Limit() may return

ASSUME SimpleLimiterAssumption ==
  /\ IsFiniteSet(Calls)
  /\ Limits # {} /\ Limits \subseteq Nat

VARIABLES at,        \* where each call is
          current,   \* what its inflight.Add(1) returned
          inflight,  \* the counter
          limit      \* the algorithm's present limit

limiterVars == <<at, current, inflight, limit>>

Places == {"new", "counted", "over", "rejected", "holding", "released", "finished"}

Init ==
  /\ at = [c \in Calls |-> "new"]
  /\ current = [c \in Calls |-> 0]
  /\ inflight = 0
  /\ limit \in Limits

Move(c, from, to) == at[c] = from /\ at' = [at EXCEPT ![c] = to]

(* inflight.Add(1)                                                         *)
CountIn(c) ==
  /\ Move(c, "new", "counted")
  /\ inflight' = inflight + 1
  /\ current' = [current EXCEPT ![c] = inflight + 1]
  /\ UNCHANGED limit
(* Variant: the comparison is off by one.                                  *)
AdmitOneMore(c) ==
  /\ current[c] <= limit + 1
  /\ Move(c, "counted", "holding")
  /\ UNCHANGED <<current, inflight, limit>>

(* The limit is read after the counter.                                    *)
Admit(c) ==
  /\ current[c] <= limit
  /\ Move(c, "counted", "holding")
  /\ UNCHANGED <<current, inflight, limit>>

Exceed(c) ==
  /\ current[c] > limit
  /\ Move(c, "counted", "over")
  /\ UNCHANGED <<current, inflight, limit>>

(* inflight.Add(-1); the call returns (nil, false).                        *)
CountOut(c) ==
  /\ Move(c, "over", "rejected")
  /\ inflight' = inflight - 1
  /\ UNCHANGED <<current, limit>>

Issued(c) == at[c] \in {"holding", "released", "finished"}
(* Variant: every call of the listener counts the request out.             *)
FinishTwice(c) ==
  /\ Issued(c)
  /\ at' = [at EXCEPT ![c] = "released"]
  /\ inflight' = inflight - 1
  /\ UNCHANGED <<current, limit>>

(* simpleListener.finish up to the sample; only the first of OnSuccess,    *)
(* OnIgnore and OnDropped wins the compare-and-swap of `done`.             *)
Finish(c) ==
  /\ Issued(c)
  /\ IF at[c] = "holding"
       THEN /\ at' = [at EXCEPT ![c] = "released"]
            /\ inflight' = inflight - 1
            /\ UNCHANGED <<current, limit>>
       ELSE UNCHANGED limiterVars

(* limit.OnSample; OnIgnore takes none and leaves the limit.               *)
Sample(c) ==
  /\ Move(c, "released", "finished")
  /\ limit' \in Limits
  /\ UNCHANGED <<current, inflight>>

Step(c) ==
  \/ CountIn(c) \/ Admit(c) \/ Exceed(c) \/ CountOut(c) \/ Finish(c) \/ Sample(c)

Next == \E c \in Calls : Step(c)

Spec == Init /\ [][Next]_limiterVars

-----------------------------------------------------------------------------
Counted == {c \in Calls : at[c] \in {"counted", "over", "holding"}}
Holders == {c \in Calls : at[c] = "holding"}

(* Every variable has its type.                                            *)
TypeOK ==
  /\ at \in [Calls -> Places]
  /\ current \in [Calls -> Int]
  /\ inflight \in Int
  /\ limit \in Limits

(* The counter is the number of calls counted in and not yet out, whatever *)
(* a listener is told and how often: no permit leaks, none is given back   *)
(* twice.                                                                  *)
InflightExact == inflight = Cardinality(Counted)

(* No more than k calls that are counted in saw a counter of k or less.    *)
RanksBounded ==
  \A k \in 0 .. Cardinality(Calls) :
    Cardinality({c \in Counted : current[c] <= k}) <= k

(* An admitted call saw a counter within some published limit.             *)
AdmittedUnderLimit ==
  \A c \in Holders : \E l \in Limits : current[c] <= l

(* Admitted calls never exceed the largest limit the algorithm publishes,  *)
(* although the limit is read after the counter and may have changed.      *)
HoldersWithinLimits ==
  \A k \in 0 .. Cardinality(Calls) :
    (\A l \in Limits : l <= k) => Cardinality(Holders) <= k
=============================================================================
