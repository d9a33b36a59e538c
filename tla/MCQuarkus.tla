----------------------------- MODULE MCQuarkus -----------------------------
(* Small instances of QuarkusShedder.                                      *)
EXTENDS QuarkusShedder, TLC

CONSTANTS s1, s2, s3

(* A critical, a normal and a degraded request, with the cohort numbers a  *)
(* classifier may give at its worst.                                       *)
Priorities == s1 :> 0 @@ s2 :> 2 @@ s3 :> 4
Cohorts    == s1 :> 1280 @@ s2 :> -128 @@ s3 :> MinInt

IntMin     == -1000000
Loads      == {-1, 5}
=============================================================================
