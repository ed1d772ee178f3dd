----------------------------- MODULE VodIndex ------------------------------
(***************************************************************************)
(* The receiver thread of hls-to-udp with a VOD index (receiver_thread,    *)
(* src/hls-to-udp/src/main.rs): it fetches the playlist of every hour of   *)
(* the index, gives each segment an absolute time (the start of the hour,  *)
(* and the minute and second of its name), sorts, and plays those between  *)
(* two dates. The shutdown flag is not looked at.                          *)
(***************************************************************************)
EXTENDS Recording

CONSTANTS
    Recordings,  \* the recordings that may have been made
    Ranges,      \* the pairs <<start, end>> that may be asked for
    Fails        \* whether the file, a fetch or a download may fail

IndexAssumption ==
    /\ \A rec \in Recordings : IsRecording(rec)
    /\ \A r \in Ranges : r \in Nat \X Nat
    /\ Fails \in BOOLEAN

VARIABLES
    rec,     \* the recording
    range,   \* vod_date_start and vod_date_end
    pc,      \* program point of the receiver
    hours,   \* the hours of the index not yet looked at; their lines
             \* are in the order of the hours
    merged,  \* merged_segments: what is left of it while it plays
    fetched, \* history: the hours whose playlist was fetched
    got,     \* history: the segments handed to the sender
    failed   \* history: the segments whose download failed

vars == <<rec, range, pc, hours, merged, fetched, got, failed>>

Init ==
    /\ rec \in Recordings /\ range \in Ranges
    /\ pc = "fetch" /\ hours = HoursFiled(rec) /\ merged = <<>>
    /\ fetched = {} /\ got = <<>> /\ failed = {}

-----------------------------------------------------------------------------
(* The absolute time of a segment found in the playlist of an hour.        *)
AbsTime(h, i) == h * HourLen + InHour(rec[i].start)

Timed(h) == LET index == HourIndex(rec, h)
            IN  [k \in DOMAIN index |-> [at |-> AbsTime(h, index[k]), seg |-> index[k]]]

(* Without the file of the index there is no playback.                     *)
NoIndex ==
    /\ Fails /\ pc = "fetch" /\ hours = HoursFiled(rec) /\ fetched = {}
    /\ pc' = "gone"
    /\ UNCHANGED <<rec, range, hours, merged, fetched, got, failed>>

FetchHour ==
    /\ pc = "fetch" /\ hours # {}
    /\ merged' = merged \o Timed(Min(hours))
    /\ fetched' = fetched \cup {Min(hours)} /\ hours' = hours \ {Min(hours)}
    /\ UNCHANGED <<rec, range, pc, got, failed>>

FetchFails ==
    /\ Fails /\ pc = "fetch" /\ hours # {}
    /\ hours' = hours \ {Min(hours)}
    /\ UNCHANGED <<rec, range, pc, merged, fetched, got, failed>>

(* sort_by_key is stable: of two segments with the same time the one that  *)
(* was first stays first.                                                  *)
Ahead(k, l) == \/ merged[k].at < merged[l].at
               \/ merged[k].at = merged[l].at /\ k < l
Sorted == [n \in DOMAIN merged |->
              merged[CHOOSE l \in DOMAIN merged :
                        Cardinality({k \in DOMAIN merged : Ahead(k, l)}) = n - 1]]

Sort ==
    /\ pc = "fetch" /\ hours = {}
    /\ merged' = Sorted /\ pc' = "play"
    /\ UNCHANGED <<rec, range, hours, fetched, got, failed>>

Early == merged[1].at < range[1]
BugLate == merged[1].at >= range[2]
Late == merged[1].at > range[2]

PassOver ==
    /\ pc = "play" /\ merged # <<>> /\ Early
    /\ merged' = Tail(merged)
    /\ UNCHANGED <<rec, range, pc, hours, fetched, got, failed>>

(* The segment is downloaded and, when the channel has room, sent.         *)
Download ==
    /\ pc = "play" /\ merged # <<>> /\ ~Early /\ ~Late
    /\ merged' = Tail(merged) /\ got' = Append(got, merged[1].seg)
    /\ UNCHANGED <<rec, range, pc, hours, fetched, failed>>

DownloadFails ==
    /\ Fails /\ pc = "play" /\ merged # <<>> /\ ~Early /\ ~Late
    /\ merged' = Tail(merged) /\ failed' = failed \cup {merged[1].seg}
    /\ UNCHANGED <<rec, range, pc, hours, fetched, got>>

(* The sender thread has ended, which this one learns from a send: it      *)
(* returns with the segment unsent.                                        *)
SendFails ==
    /\ pc = "play" /\ merged # <<>> /\ ~Early /\ ~Late
    /\ pc' = "gone"
    /\ UNCHANGED <<rec, range, hours, merged, fetched, got, failed>>

Finish ==
    /\ pc = "play"
    /\ merged # <<>> => ~Early /\ Late
    /\ pc' = "ended"
    /\ UNCHANGED <<rec, range, hours, merged, fetched, got, failed>>

Ended == pc \in {"ended", "gone"} /\ UNCHANGED vars

Next == NoIndex \/ FetchHour \/ FetchFails \/ Sort \/ PassOver \/ Download
        \/ DownloadFails \/ SendFails \/ Finish \/ Ended

-----------------------------------------------------------------------------
(* Properties.                                                             *)

Segs == DOMAIN rec
InRange(i) == range[1] <= rec[i].start /\ rec[i].start <= range[2]

(* The type of every variable.                                             *)
TypeOK ==
    /\ IsRecording(rec) /\ range \in Nat \X Nat
    /\ pc \in {"fetch", "play", "ended", "gone"} /\ hours \subseteq HoursFiled(rec)
    /\ merged \in Seq([at : Nat, seg : Segs])
    /\ fetched \subseteq HoursFiled(rec)
    /\ got \in Seq(Segs) /\ failed \subseteq Segs

(* Of the segments that begin and end in one hour, a playback plays each   *)
(* at most once, in the order they were recorded and within its range.     *)
(* And it leaves none out that lies before one it played, but those it     *)
(* could not fetch, even if the sender goes away and the playback breaks   *)
(* off; when it comes to its end it has played them all.                   *)
HoursPlayRange ==
    /\ \A k \in DOMAIN got : ~Straddles(rec, got[k]) =>
         /\ InRange(got[k])
         /\ \A l \in DOMAIN got :
              k < l /\ ~Straddles(rec, got[l]) => got[k] < got[l]
    /\ \A i \in Segs :
         /\ FiledIn(rec, i) \in fetched /\ ~Straddles(rec, i) /\ InRange(i)
         /\ \/ pc = "ended"
            \/ \E k \in DOMAIN got : ~Straddles(rec, got[k]) /\ i < got[k]
         => i \in Range(got) \cup failed
=============================================================================
