---------------------------- MODULE MCSegmenter ----------------------------
(* Instances of Segmenter for TLC: hours of two ticks.                     *)
EXTENDS Segmenter

MCHours == 0..1
MCHourOf(t) == IF t < 2 THEN 0 ELSE 1

(* Kills come at any time, in any segment.                                 *)
MCFaultyAt == (0..3) \X (0..7)
=============================================================================
