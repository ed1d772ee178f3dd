---------------------------- MODULE StreamStore ----------------------------
(***************************************************************************)
(* What a recording promises, without batches, buffers, clocks or S3: the  *)
(* packets handed to the segmenter are cut, in order and without loss or   *)
(* repetition, into segments that never change again, and the listing seen *)
(* by players is a window of consecutive segments that only moves forward. *)
(*                                                                         *)
(* Segmenter implements this specification as long as no close returns     *)
(* early (see StreamImplemented there).                                    *)
(***************************************************************************)
EXTENDS Integers, Sequences

CONSTANTS
    MaxGive,    \* the largest batch
    MaxPending  \* as many pending packets must be cut first; 0 for no limit

VARIABLES
    given,      \* how many packets the segmenter has been given
    pending,    \* those not in a segment yet
    segments,   \* the segments cut
    window      \* <<first, last>> segment listed; last < first: none

svars == <<given, pending, segments, window>>

SInit == given = 0 /\ pending = <<>> /\ segments = <<>> /\ window = <<1, 0>>

(* A batch of k consecutive packets joins the pending ones, unless these   *)
(* have to be cut first: no segment reaches MaxPending + MaxGive packets.  *)
Give(k) ==
    /\ MaxPending > 0 => Len(pending) < MaxPending
    /\ given' = given + k
    /\ pending' = pending \o [i \in 1..k |-> given + i]
    /\ UNCHANGED <<segments, window>>

(* Everything pending becomes the next segment.                            *)
Cut ==
    /\ segments' = Append(segments, pending) /\ pending' = <<>>
    /\ UNCHANGED <<given, window>>

(* The listing moves forward, and lists segments that exist.               *)
List ==
    /\ \E first \in window[1]..Len(segments), last \in window[2]..Len(segments) :
          first <= last /\ window' = <<first, last>>
    /\ UNCHANGED <<given, pending, segments>>

SNext == (\E k \in 1..MaxGive : Give(k)) \/ Cut \/ List

StreamSpec == SInit /\ [][SNext]_svars
=============================================================================
