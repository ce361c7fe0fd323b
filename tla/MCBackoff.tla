----------------------------- MODULE MCBackoff ------------------------------
(***************************************************************************)
(* Backoff with thresholds TLC can count to.  Seconds has a hint below the *)
(* schedule, one amid it, one a year long, one that no double holds and    *)
(* one with more digits than int() takes.                                  *)
(***************************************************************************)
EXTENDS Backoff

MCSeconds == {0, 1, 17, 31536000, 50000001, 60000001}
FiniteInterval == {-50, 0, 305, 600, 36000, 100000000}
CommonInterval == {300, 600}
AnyInterval == {600, NaN, Inf}
=============================================================================
