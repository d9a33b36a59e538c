------------------------------- MODULE MCPool -------------------------------
(* Small instances of Pool.                                                *)
EXTENDS Pool, TLC

Symmetric == Permutations(Requests) \cup Permutations(Workers)

NoGate   == {TRUE}
AnyGate  == BOOLEAN
=============================================================================
