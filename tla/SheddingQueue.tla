--------------------------- MODULE SheddingQueue ---------------------------
(***************************************************************************)
(* What both worker pools of package queue promise their callers, without  *)
(* channels, locks or semaphores: a request is either shed or admitted; at *)
(* most Capacity admitted requests are unfinished at a time, and at most   *)
(* Parallelism of them run; what is admitted is run exactly once or, where *)
(* the pool drops queued work (CodelPool), dropped; closing the pool ends  *)
(* admission, and a stopped pool has nothing left in flight.               *)
(***************************************************************************)
EXTENDS Integers, FiniteSets

CONSTANTS Requests,      \* the calls made on the pool
          Capacity,      \* bound on admitted, unfinished requests, at least 1
          Parallelism,   \* bound on requests being executed, in 1 .. Capacity
          MayDrop        \* whether queued requests may be dropped

VARIABLES status,        \* what became of each request
          closed,        \* the pool admits nothing more
          stopped        \* some call of Stop has returned

vars == <<status, closed, stopped>>

Statuses == {"new", "shed", "queued", "running", "done", "dropped"}

Running  == {r \in Requests : status[r] = "running"}
InFlight == {r \in Requests : status[r] \in {"queued", "running"}}

Init ==
  /\ status = [r \in Requests |-> "new"]
  /\ closed = FALSE
  /\ stopped = FALSE

Become(r, from, to) ==
  /\ status[r] = from
  /\ status' = [status EXCEPT ![r] = to]
  /\ UNCHANGED <<closed, stopped>>

Admit(r) ==
  /\ ~closed
  /\ Cardinality(InFlight) < Capacity
  /\ Become(r, "new", "queued")

Shed(r) == Become(r, "new", "shed")

Start(r) ==
  /\ Cardinality(Running) < Parallelism
  /\ Become(r, "queued", "running")

Finish(r) == Become(r, "running", "done")

Drop(r) == MayDrop /\ Become(r, "queued", "dropped")

Close ==
  /\ ~closed
  /\ closed' = TRUE
  /\ UNCHANGED <<status, stopped>>

StopReturn ==
  /\ closed
  /\ InFlight = {}
  /\ stopped' = TRUE
  /\ UNCHANGED <<status, closed>>

Next ==
  \/ \E r \in Requests : Admit(r) \/ Shed(r) \/ Start(r) \/ Finish(r) \/ Drop(r)
  \/ Close
  \/ StopReturn

(* Whatever is queued is started or dropped, and whatever runs finishes.   *)
Fairness == \A r \in Requests : /\ WF_vars(Start(r) \/ Drop(r))
                                /\ WF_vars(Finish(r))

Spec     == Init /\ [][Next]_vars
FairSpec == Spec /\ Fairness
=============================================================================
