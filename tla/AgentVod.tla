------------------------------ MODULE AgentVod ------------------------------
(***************************************************************************)
(* How the agent turns a recording into the playlist of a playback         *)
(* (getVodPlaylists, fetchPlaylist, combineAndTrimPlaylists and            *)
(* spawnHlsToUdp, src/recording-playback-api/agent.js): it lists the urls  *)
(* stored for the recording, keeps the hours of the range, fetches their   *)
(* playlists and serves their segments as one list, which hls-to-udp plays *)
(* from end to end (HlsReceiver).                                          *)
(***************************************************************************)
EXTENDS Recording

CONSTANTS
    Recordings,  \* the recordings that may have been made
    Ranges,      \* the ranges <<start, end>> that may be asked for
    Faults       \* a subset of Fault

NoRange == <<>>
Fault == {"list", "item", "fetch"}

VodAssumption ==
    /\ \A rec \in Recordings : IsRecording(rec)
    /\ \A r \in Ranges : r \in (Nat \X Nat) \cup {NoRange}
    /\ Faults \subseteq Fault

VARIABLES
    rec,      \* the recording
    range,    \* vodStartTime and vodEndTime
    pc,       \* program point of the request
    hours,    \* vodPlaylists, as the hours they are of
    unread,   \* history: the hours whose url object could not be read
    combined  \* the segments of the combined playlist

vars == <<rec, range, pc, hours, unread, combined>>

Init ==
    /\ rec \in Recordings /\ range \in Ranges
    /\ pc = "list" /\ hours = {} /\ unread = {} /\ combined = <<>>

-----------------------------------------------------------------------------
(* The filter of getVodPlaylists compares the beginning of the hour.       *)
BugWanted(h) == range = NoRange \/ (range[1] < h * HourLen /\ h * HourLen < range[2])
Wanted(h) == range = NoRange \/ (range[1] <= h * HourLen /\ h * HourLen <= range[2])

(* Without a playlist nothing is started.                                  *)
Nothing(s) == s = {}

(* The listing; an object that cannot be read is passed over.              *)
List ==
    /\ pc = "list"
    /\ unread' \in SUBSET (IF "item" \in Faults THEN HoursFiled(rec) ELSE {})
    /\ hours' = {h \in HoursFiled(rec) \ unread' : Wanted(h)}
    /\ pc' = IF Nothing(hours') THEN "refused" ELSE "combine"
    /\ UNCHANGED <<rec, range, combined>>

(* The urls are listed in the order of their keys, that is of the hours.   *)
Listing(s) == InOrder(s)

(* The hour playlists carry no dates, so that the segments have no         *)
(* absolute time: the sort leaves them as they are, the trim keeps all.    *)
Combine ==
    /\ pc = "combine"
    /\ combined' = FlattenSeq([k \in 1..Cardinality(hours) |->
                                 HourIndex(rec, Listing(hours)[k])])
    /\ pc' = "playing"
    /\ UNCHANGED <<rec, range, hours, unread>>

(* The listing fails, or one of the playlists cannot be fetched.           *)
Refuse ==
    /\ \/ pc = "list" /\ "list" \in Faults
       \/ pc = "combine" /\ "fetch" \in Faults
    /\ pc' = "refused"
    /\ UNCHANGED <<rec, range, hours, unread, combined>>

Done == pc \in {"playing", "refused"} /\ UNCHANGED vars

Next == List \/ Combine \/ Refuse \/ Done

-----------------------------------------------------------------------------
(* Properties.                                                             *)

Segs == DOMAIN rec

(* The type of every variable.                                             *)
TypeOK ==
    /\ IsRecording(rec) /\ range \in (Nat \X Nat) \cup {NoRange}
    /\ pc \in {"list", "combine", "playing", "refused"}
    /\ hours \subseteq HoursFiled(rec) /\ unread \subseteq HoursFiled(rec)
    /\ (pc = "combine" => hours # {}) /\ (pc = "list" => hours = {})
    /\ combined \in Seq(Segs)

(* What is played is in the order it was recorded, also across the hours   *)
(* and for the segments that begin in one and are filed in the next, and   *)
(* holds every segment of the hours that begin in the range and could be   *)
(* read, as long as it ends in the range; where every hour could be read   *)
(* it has no hole. (The hour in which a range begins, and a range within   *)
(* one hour, are left out: agent.js:292.)                                  *)
CombinedWhole ==
    pc = "playing" =>
        /\ \A k, l \in DOMAIN combined : k < l => combined[k] < combined[l]
        /\ \A i \in Segs :
             /\ FiledIn(rec, i) \notin unread
             /\ range # NoRange => /\ range[1] <= FiledIn(rec, i) * HourLen
                                  /\ rec[i].close <= range[2]
             => i \in Range(combined)
        /\ unread = {} =>
             \A k \in 1..(Len(combined) - 1) : combined[k + 1] = combined[k] + 1
=============================================================================
