----------------------------- MODULE Recording -----------------------------
(***************************************************************************)
(* What udp-to-hls leaves of a finished recording, as the players read it: *)
(* segments named after the time of their first packet and filed, in the   *)
(* order they were closed, in the index of the hour they were closed in    *)
(* (src/src/main.rs, record_segment and current_segment_path; Segmenter is *)
(* the detailed account). Times are seconds of a coarse clock.             *)
(***************************************************************************)
EXTENDS Integers, SequencesExt

CONSTANT HourLen   \* ticks of an hour

HourAssumption == HourLen \in Nat \ {0}

HourOf(t) == t \div HourLen
InHour(t) == t % HourLen

(* A recording: its segments follow each other in time.                    *)
IsRecording(rec) ==
    /\ rec \in Seq([start : Nat, close : Nat])
    /\ \A i \in DOMAIN rec : rec[i].start <= rec[i].close
    /\ \A i \in 1..(Len(rec) - 1) : rec[i].close <= rec[i + 1].start

(* The numbers of a finite set, each behind those that are less.           *)
InOrder(S) ==
    [k \in 1..Cardinality(S) |->
        CHOOSE n \in S : Cardinality({m \in S : m < n}) = k - 1]

(* The hour a segment is filed in, and the index of an hour: the numbers   *)
(* of its segments.                                                        *)
FiledIn(rec, i) == HourOf(rec[i].close)
HourIndex(rec, h) == InOrder({i \in DOMAIN rec : FiledIn(rec, i) = h})
HoursFiled(rec) == {FiledIn(rec, i) : i \in DOMAIN rec}

(* A segment that begins in one hour and is filed in the next.             *)
Straddles(rec, i) == HourOf(rec[i].start) # FiledIn(rec, i)
=============================================================================
