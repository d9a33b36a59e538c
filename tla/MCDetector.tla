----------------------------- MODULE MCDetector -----------------------------
(* Small instances of OverloadDetector.                                    *)
EXTENDS OverloadDetector, TLC

Symmetric == Permutations(Slots)
=============================================================================
