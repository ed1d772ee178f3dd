---------------------------- MODULE MCHlsSender ----------------------------
(* Instances of HlsSender for TLC: segments that are and are not multiples *)
(* of a packet, and a remainder at the end.                                *)
EXTENDS HlsSender

ThreeSegments == <<5, 4, 2>>

(* Every command line that makes a difference: a smoother that is not      *)
(* built, and dates that are not dates, with one of the others.            *)
SomeOptions ==
    {o \in Option :
        /\ o.smoother \/ o.pcrKnown
        /\ o.built \/ (o.smoother /\ o.pcrKnown /\ o.count = 1)
        /\ o.dates \/ (o.vodIndex /\ ~o.smoother)}
=============================================================================
