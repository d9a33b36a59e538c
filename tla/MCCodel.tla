------------------------------ MODULE MCCodel ------------------------------
(* Small instances of Codel.                                               *)
EXTENDS Codel, TLC

Symmetric == Permutations(Requests) \cup Permutations(Workers)

NoGate  == {TRUE}
AnyGate == BOOLEAN
=============================================================================
