---------------------------- MODULE HlsReceiver ----------------------------
(***************************************************************************)
(* The receiver thread of hls-to-udp in its normal mode (receiver_thread,  *)
(* src/hls-to-udp/src/main.rs): it polls a media playlist whose window     *)
(* moves while it downloads, remembers the uris it has dealt with in a     *)
(* history of bounded capacity, and sends every new segment to the sender  *)
(* thread through a bounded channel. The sender is there only as that end  *)
(* of the channel: it starts, takes, is held at its throttle, or has ended. *)
(* A live playback only notes what the first playlist it sees lists; a VOD *)
(* playback goes once through the list, within a range of offsets.         *)
(*                                                                         *)
(* Segments are 1..Segments, in the order of the recording.                *)
(***************************************************************************)
EXTENDS Integers, SequencesExt

CONSTANTS
    Segments,   \* bound: segments the publisher makes
    HistCap,    \* hist_capacity
    SegCap,     \* segment_queue_size
    Offset,     \* the offset each segment's name gives
    Situations  \* what may be played, and how: a set of Situation

Uris == {"absolute", "relative", "rooted"}

(* The publisher: the segments of a playlist (0: all of them), whether it  *)
(* ends its list with ENDLIST, how the list names segments; and the        *)
(* command line: vod, start_time and end_time (0: none).                   *)
Situation == [window : Nat, closes : BOOLEAN, uris : Uris,
              vod : BOOLEAN, start : Nat, end : Nat]

ASSUME ReceiverAssumption ==
    /\ Segments \in Nat /\ {HistCap, SegCap} \subseteq Nat \ {0}
    /\ Offset \in [1..Segments -> Nat]
    /\ Situations \subseteq Situation

VARIABLES
    sit,      \* the situation, fixed from the start
    last,     \* the last segment published
    endlist,  \* the playlist carries ENDLIST
    flag,     \* shutdown_flag
    sender,   \* what the sender thread does
    waiting,  \* how many segments wait for it in tx/rx
    pc,       \* program point of the receiver
    list,     \* what is left of the playlist it is going through
    final,    \* media_pl.end_list of that playlist
    seen,     \* seg_history.seen
    queue,    \* seg_history.queue
    first,    \* first_poll
    noted,    \* history: the segments of the first playlist of a live playback
    offered,  \* history: the segments of the playlists gone through since
    got,      \* history: the segments sent to the sender
    failed    \* history: the segments whose download failed

netVars == <<last, endlist>>
sendVars == <<sender, waiting>>
hisVars == <<seen, queue>>
ghosts  == <<noted, offered, got, failed>>
vars == <<sit, netVars, flag, sendVars, pc, list, final, hisVars, first, ghosts>>

Window == sit.window
UriKind == sit.uris
Vod == sit.vod
StartTime == sit.start
EndTime == sit.end

(* The playlist: the last Window segments.                                 *)
Oldest == IF Window = 0 \/ last <= Window THEN 1 ELSE last - Window + 1
Playlist == [i \in 1..(last - Oldest + 1) |-> Oldest + i - 1]

(* The string a segment is remembered by: the first poll notes the uri as  *)
(* it stands in the list, later ones a uri resolved against the base when  *)
(* it is relative. (A rooted path is left as it is.)                       *)
Raw(n) == <<UriKind, n>>
Resolved(n) == IF UriKind = "relative" THEN <<"absolute", n>> ELSE Raw(n)

Init ==
    /\ sit \in Situations
    /\ last = 0 /\ endlist = FALSE /\ flag = FALSE
    /\ sender = "starts" /\ waiting = 0
    /\ pc = "poll" /\ list = <<>> /\ final = FALSE
    /\ seen = {} /\ queue = <<>> /\ first = ~Vod
    /\ noted = {} /\ offered = {} /\ got = <<>> /\ failed = {}

-----------------------------------------------------------------------------
(* SegmentHistory::insert: the oldest uris beyond the capacity go.         *)
BugInsert(k) ==
    LET q == Append(queue, k)
    IN  /\ queue' = IF Len(q) >= HistCap THEN Tail(q) ELSE q
        /\ seen' = (seen \cup {k}) \ IF Len(q) >= HistCap THEN {Head(q)} ELSE {}
Insert(k) ==
    LET q == Append(queue, k)
    IN  /\ queue' = IF Len(q) > HistCap THEN Tail(q) ELSE q
        /\ seen' = (seen \cup {k}) \ IF Len(q) > HistCap THEN {Head(q)} ELSE {}

(* The first poll inserts the whole list into the empty history: its last  *)
(* HistCap uris stay.                                                      *)
BugKept == <<>>
Kept ==
    LET p == Playlist
        drop == IF Len(p) > HistCap THEN Len(p) - HistCap ELSE 0
    IN  [i \in 1..(Len(p) - drop) |-> Raw(p[drop + i])]

Note ==
    /\ pc = "poll" /\ ~flag /\ first /\ last > 0
    /\ queue' = Kept /\ seen' = Range(Kept)
    /\ first' = FALSE /\ noted' = Range(Playlist)
    /\ UNCHANGED <<sit, netVars, flag, sendVars, pc, list, final, offered, got, failed>>

Poll ==
    /\ pc = "poll" /\ ~flag /\ ~first /\ last > 0
    /\ list' = Playlist /\ final' = endlist
    /\ offered' = offered \cup Range(Playlist)
    /\ pc' = "walk"
    /\ UNCHANGED <<sit, netVars, flag, sendVars, hisVars, first, noted, got, failed>>

(* A fetch that fails, or an empty list, is tried again after a sleep.     *)
PollAgain == pc = "poll" /\ ~flag /\ UNCHANGED vars

SeesFlag ==
    /\ pc = "poll" /\ flag /\ pc' = "ended"
    /\ UNCHANGED <<sit, netVars, flag, sendVars, list, final, hisVars, first, ghosts>>

-----------------------------------------------------------------------------
(* Going through the list. The flag is looked at before every segment.     *)

Current == Head(list)
Busy == pc \in {"download", "send"}
Walking == pc = "walk" /\ list # <<>> /\ ~flag
Known == Resolved(Current) \in seen

Passed == Tail(list)

(* Known, or not a url: Url::parse rejects a rooted path.                  *)
Skip ==
    /\ Walking /\ (Known \/ UriKind = "rooted")
    /\ list' = Passed
    /\ UNCHANGED <<sit, netVars, flag, sendVars, pc, final, hisVars, first, ghosts>>

Ranged == Vod /\ (StartTime > 0 \/ EndTime > 0)
BugBefore(n) == Ranged /\ Offset[n] <= StartTime
Before(n) == Ranged /\ Offset[n] < StartTime
Beyond(n) == Ranged /\ ~Before(n) /\ EndTime > 0 /\ Offset[n] > EndTime

(* A new segment is noted before anything else. One before the range is    *)
(* passed over; one beyond it ends the list; else it is downloaded.        *)
Take ==
    /\ Walking /\ ~Known /\ UriKind # "rooted"
    /\ Insert(Resolved(Current))
    /\ CASE Before(Current) -> list' = Tail(list) /\ UNCHANGED pc
         [] Beyond(Current) -> list' = <<>> /\ UNCHANGED pc
         [] OTHER -> pc' = "download" /\ UNCHANGED list
    /\ UNCHANGED <<sit, netVars, flag, sendVars, final, first, ghosts>>

Download ==
    /\ pc = "download" /\ pc' = "send"
    /\ UNCHANGED <<sit, netVars, flag, sendVars, list, final, hisVars, first, ghosts>>

(* A download that fails is not tried again: the segment has been noted.   *)
DownloadFails ==
    /\ pc = "download"
    /\ list' = Tail(list) /\ pc' = "walk"
    /\ failed' = failed \cup {Current}
    /\ UNCHANGED <<sit, netVars, flag, sendVars, final, hisVars, first, noted, offered, got>>

(* tx.send waits while the channel is full ...                             *)
Send ==
    /\ pc = "send" /\ sender # "gone" /\ waiting < SegCap
    /\ waiting' = waiting + 1 /\ got' = Append(got, Current)
    /\ list' = Tail(list) /\ pc' = "walk"
    /\ UNCHANGED <<sit, netVars, flag, sender, final, hisVars, first, noted, offered, failed>>

(* ... and fails once the sender has ended, with the flag set or without:  *)
(* the receiver returns with the segment unsent.                           *)
SendFails ==
    /\ pc = "send" /\ sender = "gone" /\ pc' = "gone"
    /\ UNCHANGED <<sit, netVars, flag, sendVars, list, final, hisVars, first, ghosts>>

(* After the list: ENDLIST and VOD end the receiver, a live one polls.     *)
BugDone == final
Done == final \/ Vod

Walked ==
    /\ pc = "walk" /\ (list = <<>> \/ flag)
    /\ pc' = IF Done THEN "ended" ELSE "poll"
    /\ list' = <<>>
    /\ UNCHANGED <<sit, netVars, flag, sendVars, final, hisVars, first, ghosts>>

-----------------------------------------------------------------------------
(* The other threads: the sender ends at its start, without a socket or a  *)
(* smoother, or takes what waits, until its buffer is at its limit, which  *)
(* only a shutdown lowers. After a shutdown it ends. What waits is lost.   *)
receiverVars == <<pc, list, final, hisVars, first, ghosts>>

SenderStarts ==
    /\ sender = "starts" /\ sender' = "takes"
    /\ UNCHANGED <<sit, netVars, flag, waiting, receiverVars>>

SenderTakes ==
    /\ sender = "takes" /\ waiting > 0 /\ waiting' = waiting - 1
    /\ UNCHANGED <<sit, netVars, flag, sender, receiverVars>>

SenderHeld ==
    /\ sender = "takes" /\ ~flag /\ sender' = "held"
    /\ UNCHANGED <<sit, netVars, flag, waiting, receiverVars>>

SenderEnds ==
    /\ sender # "gone" /\ (sender = "starts" \/ flag)
    /\ sender' = "gone" /\ waiting' = 0
    /\ UNCHANGED <<sit, netVars, flag, receiverVars>>

(* The publisher; and CTRL+C, or a message in tx_shutdown, sets the flag.  *)
Publish ==
    /\ last < Segments /\ ~endlist /\ last' = last + 1
    /\ UNCHANGED <<sit, endlist, flag, sendVars, pc, list, final, hisVars, first, ghosts>>

Close ==
    /\ sit.closes /\ last = Segments /\ ~endlist /\ endlist' = TRUE
    /\ UNCHANGED <<sit, last, flag, sendVars, pc, list, final, hisVars, first, ghosts>>

CtrlC ==
    /\ ~flag /\ flag' = TRUE
    /\ UNCHANGED <<sit, netVars, sendVars, pc, list, final, hisVars, first, ghosts>>

(* It has left its loop, or returned from a send that failed.              *)
Over == pc \in {"ended", "gone"}
Ended == Over /\ UNCHANGED vars

Receive == Note \/ Poll \/ SeesFlag \/ Skip \/ Take \/ Download
           \/ DownloadFails \/ Send \/ SendFails \/ Walked

Next == Receive \/ PollAgain \/ SenderStarts \/ SenderTakes \/ SenderHeld
        \/ SenderEnds \/ Publish \/ Close \/ CtrlC \/ Ended

Spec == Init /\ [][Next]_vars

(* The threads are scheduled: a fetch does not fail for ever, a download   *)
(* answers, a sender starts, takes unless held, and ends after a shutdown; *)
(* the publisher makes progress. That a held sender is let go is not owed, *)
(* nor is CTRL+C.                                                          *)
FairSpec == Spec /\ WF_vars(Receive) /\ WF_vars(SenderStarts) /\ WF_vars(SenderTakes)
                 /\ WF_vars(flag /\ SenderEnds)
                 /\ WF_vars(Publish) /\ WF_vars(Close)

-----------------------------------------------------------------------------
(* Properties.                                                             *)

(* The type of every variable.                                             *)
TypeOK ==
    /\ sit \in Situations
    /\ last \in 0..Segments /\ endlist \in BOOLEAN /\ flag \in BOOLEAN
    /\ sender \in {"starts", "takes", "held", "gone"} /\ waiting \in 0..SegCap
    /\ pc \in {"poll", "walk", "download", "send", "ended", "gone"}
    /\ list \in Seq(1..Segments) /\ final \in BOOLEAN
    /\ Busy => list # <<>>
    /\ seen \subseteq Uris \X (1..Segments)
    /\ queue \in Seq(Uris \X (1..Segments)) /\ first \in BOOLEAN
    /\ noted \subseteq 1..Segments /\ offered \subseteq 1..Segments
    /\ got \in Seq(1..Segments) /\ failed \subseteq 1..Segments

(* No segment is handed to the sender twice or after a later one, however  *)
(* the window moves between polls, when the history holds a window. And    *)
(* none is skipped: a segment of a playlist that has been gone through was *)
(* handed over, or its download failed, or it was there before a live      *)
(* playback began. Only what left the window between two polls is missed.  *)
PlayedInOrder ==
    /\ \A i, j \in DOMAIN got : i < j => got[i] < got[j]
    /\ ~Vod /\ pc = "poll" /\ ~flag => offered \subseteq Range(got) \cup failed \cup noted

(* A live playback begins with what comes after the first playlist. (Uris  *)
(* that are relative are noted as they stand and looked up resolved, and   *)
(* the playback begins with the first playlist after all.)                 *)
LiveStartsAtTheEdge ==
    UriKind # "relative" => noted \cap Range(got) = {}

(* A VOD playback that ends by itself has played what the list holds       *)
(* between the start and the end offset, as the names of the segments give *)
(* them, when these grow along the list. And however it ends, by a         *)
(* shutdown or because the sender is gone, it has played a beginning of    *)
(* that range without a gap: only downloads that failed are missing.       *)
VodPlaysRange ==
    Vod => \A n \in offered :
        /\ StartTime <= Offset[n] /\ (EndTime = 0 \/ Offset[n] <= EndTime)
        /\ (pc = "ended" /\ ~flag) \/ \E k \in Range(got) : n < k
        => n \in Range(got) \cup failed

(* A VOD playback of a list, and any playback of a list that closes, ends, *)
(* unless the receiver is held for ever in a send to a sender that sits at *)
(* its throttle and does not empty the channel.                            *)
HeldBySender == pc = "send" /\ sender = "held" /\ waiting = SegCap /\ ~flag
PlaybackEnds == Vod \/ sit.closes => <>(Over \/ []HeldBySender)
=============================================================================
