----------------------------- MODULE MCManager ------------------------------
(* A few requests that are handled at once. Requests are interchangeable.  *)
EXTENDS Manager, TLC

CONSTANTS r1, r2, r3

RequestSymmetry == Permutations(Requests)
=============================================================================
