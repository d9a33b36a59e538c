---------------------------- MODULE MCMiddleware ----------------------------
(* Small instances of Middleware.                                          *)
EXTENDS Middleware, TLC

Symmetric == Permutations(Handled) \cup Permutations(Calls \ Handled)
=============================================================================
