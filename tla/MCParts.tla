------------------------------ MODULE MCParts -------------------------------
(***************************************************************************)
(* Parts for TLC. Recordings have four segments of one to three ticks,     *)
(* without a pause, and begin in the first hour, which is four ticks long: *)
(* every way of crossing the hours is among them.                          *)
(***************************************************************************)
EXTENDS Parts

CONSTANTS p1, p2

Durations == [1..4 -> 1..3]
StartOf(first, d, i) == first + FoldLeft(LAMBDA a, b : a + b, 0, SubSeq(d, 1, i - 1))
Made(first, d) == [i \in 1..4 |-> [start |-> StartOf(first, d, i),
                                   close |-> StartOf(first, d, i) + d[i]]]
FourSegments == {Made(f, d) : f \in 0..3, d \in Durations}

SomeRanges == {<<0, 30>>, <<3, 7>>, <<4, 9>>}
SomeRangesOrNone == {<<>>, <<0, 30>>, <<3, 8>>, <<4, 9>>, <<5, 7>>}
=============================================================================
