------------------------------ MODULE MCAgent -------------------------------
(***************************************************************************)
(* Two recordings, two playbacks with a DELETE, or one of each with one:   *)
(* the calls of a behaviour of Agent.                                      *)
(***************************************************************************)
EXTENDS Agent

CONSTANTS r1, r2, q1, q2, s1

TwoOfAKindOrOneOfEach == {{r1, r2}, {q1, q2, s1}, {r1, q1, s1}}
TwoPlaybacks == {{q1, q2, s1}}
=============================================================================
