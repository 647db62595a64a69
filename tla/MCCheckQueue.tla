----------------------------- MODULE MCCheckQueue -----------------------------
(* CheckQueue with two or three workers and a few checks.                     *)
EXTENDS CheckQueue, TLC

Symmetric == Permutations(Workers) \cup Permutations(Checks)
=============================================================================
