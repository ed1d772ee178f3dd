------------------------- MODULE MCRecorderRestart --------------------------
(* Instances of RecorderRestart for TLC: hours of two ticks.               *)
EXTENDS RecorderRestart

MCHours == 0..1
MCHourOf(t) == IF t < 2 THEN 0 ELSE 1

(* Both segments of the first run, and the first one of the second run.    *)
MCFaultyAt == {<<0, 0>>, <<0, 1>>, <<1, 0>>}
=============================================================================
