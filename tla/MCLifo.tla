------------------------------- MODULE MCLifo -------------------------------
(* Small instances of LifoLimiter.                                         *)
EXTENDS LifoLimiter, TLC

Symmetric == Permutations(Requests)
=============================================================================
