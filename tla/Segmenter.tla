----------------------------- MODULE Segmenter -----------------------------
(***************************************************************************)
(* The recording data plane of udp-to-hls (src/src/main.rs): the main loop *)
(* batches transport-stream packets, ManualSegmenter::write_ts appends the *)
(* batches to the segment in memory, and close_current_segment_file cuts   *)
(* the segment, uploads it, lists it in the rolling playlist and in the    *)
(* index of the hour, and publishes both.                                  *)
(*                                                                         *)
(* One task runs all of this, so control is a single program point pc; a   *)
(* step ends at every await, where the call to S3 succeeds, fails, or      *)
(* takes effect while its answer is lost, where the clock may move, and    *)
(* where the process may be killed (the agent stops it with SIGTERM, for   *)
(* which no handler is installed).                                         *)
(***************************************************************************)
EXTENDS Integers, SequencesExt

CONSTANTS
    BatchSize,      \* packets handed to write_ts at once (7 in the code)
    MaxSegPackets,  \* diskless_max_bytes in packets; 0 never forces a close
    SegTicks,       \* the desired segment duration
    KeepSegments,   \* max_segments_in_index; 0 keeps every entry
    RingSize,       \* DisklessBuffer.max_segments; 0 is unbounded
    Hours,          \* the hour directories
    HourOf(_),      \* the hour directory of a time
    Faults,         \* which calls may fail (a subset of Fault)
    FaultyAt,       \* bound: when they may: pairs of clock and segment_index
    MaxPackets,     \* bound: packets captured
    MaxClock,       \* bound: clock ticks
    NoTime          \* Option::None of the two times

Fault == {"segment_put", "presign", "hourly_write", "hourly_put", "log_write",
          "m3u8_write", "index_open", "index_put", "kill"}

ASSUME SegmenterAssumption ==
    /\ BatchSize \in Nat \ {0}
    /\ SegTicks \in Nat \ {0}
    /\ MaxSegPackets \in Nat /\ KeepSegments \in Nat /\ RingSize \in Nat
    /\ MaxPackets \in Nat /\ MaxClock \in Nat
    /\ Faults \subseteq Fault /\ FaultyAt \subseteq Nat \X Nat
    /\ NoTime \notin Nat
    /\ Hours \subseteq Nat
    /\ \A t \in 0..MaxClock : HourOf(t) \in Hours

(* The local hour directory never goes back: the clock steps the code does *)
(* not guard against (NTP steps) are left out.                             *)
ASSUME HoursMonotone ==
    \A s, t \in 0..MaxClock : s <= t => HourOf(s) <= HourOf(t)

VARIABLES
    clock,      \* Instant::now() and chrono::Local::now(), in ticks
    pc,         \* the program point of the segmenter's task
    caller,     \* which call of close_current_segment_file is running
    next,       \* number of the last packet captured (packets are 1, 2, ...)
    batch,      \* batch_buffer_arcs
    openTime,   \* segment_open_time
    startTime,  \* segment_start_time
    buf,        \* current_segment_buffer
    bytes,      \* bytes_this_segment, in packets
    measured,   \* last_measured_bitrate > 0.0
    segIndex,   \* segment_index
    playlist,   \* playlist_entries
    ring,       \* the segments in diskless_buffer.queue, by number
    seg,        \* the segment being closed
    seqId,      \* HourlyIndexCreator.global_sequence_id
    hourMap,    \* HourlyIndexCreator.hour_map
    store,      \* the segment objects in S3
    localM3u8,  \* the local <output_dir>.m3u8; no entries: no file
    liveIndex,  \* index.m3u8 in S3; no entries: no object
    hourIndex,  \* index.m3u8 of every hour in S3
    urlsLog,    \* the hours named by a line of the urls log
    closed,     \* history: the data of every segment ever cut
    uploaded,   \* history: the segments whose upload was acknowledged
    openFailed  \* history: some close returned early (index_open)

loopVars == <<next, batch>>
segVars  == <<openTime, startTime, buf, bytes, measured, segIndex>>
hourVars == <<seqId, hourMap, hourIndex, urlsLog>>
histVars == <<closed, uploaded, openFailed>>
vars == <<clock, pc, caller, loopVars, segVars, playlist, ring, seg, store,
          localM3u8, liveIndex, hourVars, histVars>>

MayFail(call) == call \in Faults /\ <<clock, segIndex>> \in FaultyAt

Callers == {"forced", "due", "disconnected", "final"}
Closing == {"close", "upload", "presign", "record", "hourly_put", "advance",
            "index_put"}
Ended   == {"done", "dead"}

NoPlaylist == [seq |-> 0, entries |-> <<>>]

(* current_segment_path: the object key of segment n, which is named after *)
(* its start time, or after the present when it has none.                  *)
SegmentKey(n) ==
    [num |-> n, at |-> IF startTime = NoTime THEN clock ELSE startTime]

(* Dropping the head of a list that has outgrown its limit (0: no limit).  *)
DropHead(s, limit) == IF limit > 0 /\ Len(s) > limit THEN Tail(s) ELSE s

(* The test for a forced close, on the buffer that has just grown to b.    *)
BugFullBefore(b) == MaxSegPackets > 0 /\ Len(buf) >= MaxSegPackets
Full(b) == MaxSegPackets > 0 /\ Len(b) >= MaxSegPackets

(* The EXT-X-MEDIA-SEQUENCE rewrite_m3u8 computes from the segment index n *)
(* (a saturating subtraction).                                             *)
BugSeqStart(n) == n
SeqStart(n) == IF n >= Len(playlist) THEN n - Len(playlist) ELSE 0

(* Path::exists of the local playlist p.                                   *)
BugHasFile(p) == Len(p.entries) > 1
HasFile(p) == p.entries # <<>>

(* The entry record_segment files for the closing segment.                 *)
BugEntryNow == [seq |-> seqId + 1, num |-> segIndex + 1, at |-> clock]
BugEntryPerHour == [seq |-> Len(hourMap[HourOf(clock)]) + 1, num |-> segIndex + 1,
                    at |-> SegmentKey(segIndex + 1).at]
HourlyEntry == [seq |-> seqId + 1, num |-> segIndex + 1,
                at |-> SegmentKey(segIndex + 1).at]

(* ... and the list of its hour h with that entry.                         *)
BugFile(h) == [hourMap EXCEPT ![h] = <<HourlyEntry>>]
File(h) == [hourMap EXCEPT ![h] = Append(@, HourlyEntry)]

-----------------------------------------------------------------------------
Init ==
    /\ clock = 0 /\ pc = "recv" /\ caller = "final"
    /\ next = 0 /\ batch = <<>>
    /\ openTime = NoTime /\ startTime = NoTime
    /\ buf = <<>> /\ bytes = 0 /\ measured = FALSE /\ segIndex = 0
    /\ playlist = <<>> /\ ring = <<>>
    /\ seg = [num |-> 0, at |-> NoTime, hour |-> NoTime]
    /\ store = {} /\ localM3u8 = NoPlaylist /\ liveIndex = NoPlaylist
    /\ seqId = 0 /\ hourMap = [h \in Hours |-> <<>>]
    /\ hourIndex = [h \in Hours |-> <<>>] /\ urlsLog = {}
    /\ closed = <<>> /\ uploaded = {} /\ openFailed = FALSE

-----------------------------------------------------------------------------
(* The main loop.                                                          *)

(* A packet arrives, passes the parser and joins the batch; a full batch   *)
(* (also one left over from a failed write) is handed to write_ts.         *)
Receive ==
    /\ pc = "recv" /\ next < MaxPackets
    /\ next' = next + 1
    /\ batch' = Append(batch, next')
    /\ pc' = IF Len(batch') >= BatchSize THEN "write" ELSE "recv"
    /\ UNCHANGED <<clock, caller, segVars, playlist, ring, seg, store,
                   localM3u8, liveIndex, hourVars, histVars>>

(* The shutdown flag or the duration limit ends the loop: finalize closes  *)
(* the last segment; the packets still in the batch are dropped.           *)
BugStop ==
    /\ pc = "recv" /\ pc' = "done" /\ caller' = "final"
    /\ UNCHANGED <<clock, loopVars, segVars, playlist, ring, seg, store,
                   localM3u8, liveIndex, hourVars, histVars>>
Stop ==
    /\ pc = "recv"
    /\ pc' = "close" /\ caller' = "final"
    /\ UNCHANGED <<clock, loopVars, segVars, playlist, ring, seg, store,
                   localM3u8, liveIndex, hourVars, histVars>>

(* The capture thread is gone and its channel is drained: the segment is   *)
(* closed here, and finalize will close once more.                         *)
Disconnect ==
    /\ pc = "recv"
    /\ pc' = "close" /\ caller' = "disconnected"
    /\ UNCHANGED <<clock, loopVars, segVars, playlist, ring, seg, store,
                   localM3u8, liveIndex, hourVars, histVars>>

-----------------------------------------------------------------------------
(* write_ts.                                                               *)

BugJoin == batch
Join == buf \o batch

(* The batch joins the segment; a segment that reaches the limit is closed *)
(* before the batch is counted.                                            *)
WriteTs ==
    /\ pc = "write"
    /\ openTime' = IF openTime = NoTime THEN clock ELSE openTime
    /\ startTime' = IF openTime = NoTime THEN clock ELSE startTime
    /\ buf' = Join
    /\ IF Full(buf')
       THEN pc' = "close" /\ caller' = "forced"
       ELSE pc' = "measure" /\ UNCHANGED caller
    /\ UNCHANGED <<clock, loopVars, bytes, measured, segIndex, playlist, ring,
                   seg, store, localM3u8, liveIndex, hourVars, histVars>>

(* The batch is counted, and the segment is closed when it is old enough   *)
(* or large enough for the measured bitrate, a float that is abstracted to *)
(* whether it is positive.                                                 *)
Measure ==
    /\ pc = "measure"
    /\ bytes' = bytes + Len(batch)
    /\ \E enough \in BOOLEAN :
         /\ enough => measured /\ bytes' > 0
         /\ IF enough \/ (openTime # NoTime /\ clock - openTime >= SegTicks)
            THEN pc' = "close" /\ caller' = "due" /\ UNCHANGED batch
            ELSE pc' = "recv" /\ batch' = <<>> /\ UNCHANGED caller
    /\ UNCHANGED <<clock, next, openTime, startTime, buf, measured, segIndex,
                   playlist, ring, seg, store, localM3u8, liveIndex, hourVars,
                   histVars>>

-----------------------------------------------------------------------------
(* close_current_segment_file, one action per await.                       *)

(* The buffer becomes the data of the closing segment.                     *)
TakeBuffer == closed' = Append(closed, buf) /\ buf' = <<>>

(* The buffer is taken, put in the ring, and its object key is computed.   *)
CutSegment ==
    /\ pc = "close" /\ pc' = "upload"
    /\ TakeBuffer
    /\ ring' = DropHead(Append(ring, segIndex + 1), RingSize)
    /\ seg' = [num |-> segIndex + 1, at |-> SegmentKey(segIndex + 1).at,
               hour |-> NoTime]
    /\ UNCHANGED <<clock, caller, loopVars, openTime, startTime, bytes,
                   measured, segIndex, playlist, store, localM3u8, liveIndex,
                   hourVars, uploaded, openFailed>>

Object == [num |-> seg.num, at |-> seg.at, data |-> closed[seg.num]]

PutObject ==
    store' = {o \in store : <<o.num, o.at>> # <<seg.num, seg.at>>} \cup {Object}

(* The mem:// name of a segment that has no URL, written as at = NoTime.   *)
BugMemName == seg
MemName == [seg EXCEPT !.at = NoTime]

(* The upload succeeds; or it fails, and then the object may exist all the *)
(* same, and the playlist gets the mem:// name.                            *)
UploadSegment ==
    /\ pc = "upload"
    /\ \/ /\ PutObject
          /\ uploaded' = uploaded \cup {seg.num}
          /\ pc' = "presign" /\ UNCHANGED seg
       \/ /\ MayFail("segment_put")
          /\ PutObject \/ UNCHANGED store
          /\ pc' = "record" /\ seg' = MemName
          /\ UNCHANGED uploaded
    /\ UNCHANGED <<clock, caller, loopVars, segVars, playlist, ring, localM3u8,
                   liveIndex, hourVars, closed, openFailed>>

(* The URL of the segment; a failed presign falls back to the mem:// name. *)
Presign ==
    /\ pc = "presign" /\ pc' = "record"
    /\ \/ UNCHANGED seg
       \/ MayFail("presign") /\ seg' = MemName
    /\ UNCHANGED <<clock, caller, loopVars, segVars, playlist, ring, store,
                   localM3u8, liveIndex, hourVars, histVars>>

(* hour_dir, read from the clock when the close files the segment.         *)
FiledSeg == [seg EXCEPT !.hour = HourOf(clock)]

(* The segment enters the rolling playlist, and record_segment gives it    *)
(* the next sequence id and files it, uploaded or not, under the present   *)
(* hour with a key computed anew. A failure here is only logged.           *)
RecordSegment ==
    /\ pc = "record"
    /\ playlist' = DropHead(Append(playlist, [num |-> seg.num, at |-> seg.at]),
                            KeepSegments)
    /\ seqId' = seqId + 1
    /\ seg' = FiledSeg
    /\ \/ hourMap' = File(HourOf(clock)) /\ pc' = "hourly_put"
       \/ MayFail("presign") /\ UNCHANGED hourMap /\ pc' = "advance"
       \/ /\ MayFail("hourly_write")
          /\ hourMap' = File(HourOf(clock)) /\ pc' = "advance"
    /\ UNCHANGED <<clock, caller, loopVars, segVars, ring, store, localM3u8,
                   liveIndex, hourIndex, urlsLog, histVars>>

(* The entries s sorted by sequence id, which no two of them share: as     *)
(* many are before an entry as have a smaller id.                          *)
BySequence(s) ==
    [k \in DOMAIN s |->
        CHOOSE e \in Range(s) : Cardinality({i \in DOMAIN s : s[i].seq < e.seq}) = k - 1]
SortedHour ==
    [hourIndex EXCEPT ![seg.hour] = BySequence(hourMap[seg.hour])]

(* The index of the hour, sorted by sequence id, replaces the object in    *)
(* S3; after a success its URL replaces the line of the hour in the log.   *)
PutHour ==
    \/ hourIndex' = SortedHour /\ urlsLog' = urlsLog \cup {seg.hour}
    \/ /\ MayFail("presign") \/ MayFail("log_write")
       /\ hourIndex' = SortedHour /\ UNCHANGED urlsLog
    \/ /\ MayFail("hourly_put")
       /\ hourIndex' \in {hourIndex, SortedHour} /\ UNCHANGED urlsLog

PublishHour ==
    /\ pc = "hourly_put" /\ pc' = "advance" /\ PutHour
    /\ UNCHANGED <<clock, caller, loopVars, segVars, playlist, ring, seg,
                   store, localM3u8, liveIndex, seqId, hourMap, histVars>>

(* Where control goes when a close returns: to the rest of write_ts, to    *)
(* the main loop with the batch cleared, to finalize, or to the end.       *)
Return ==
    CASE caller = "forced" -> pc' = "measure" /\ UNCHANGED <<caller, batch>>
      [] caller = "due" -> pc' = "recv" /\ batch' = <<>> /\ UNCHANGED caller
      [] caller = "disconnected" ->
            pc' = "close" /\ caller' = "final" /\ UNCHANGED batch
      [] OTHER -> pc' = "done" /\ UNCHANGED <<caller, batch>>

(* ... and when it fails: a failed write_ts leaves the batch as it is.     *)
ReturnErr ==
    /\ UNCHANGED batch
    /\ CASE caller \in {"forced", "due"} -> pc' = "recv" /\ UNCHANGED caller
         [] caller = "disconnected" -> pc' = "close" /\ caller' = "final"
         [] OTHER -> pc' = "done" /\ UNCHANGED caller

(* The tail of the close: the bitrate is measured, the segment is open no  *)
(* more.                                                                   *)
FinishClose ==
    /\ measured' = (measured \/ /\ openTime # NoTime
                                /\ clock > openTime /\ bytes > 0)
    /\ openTime' = NoTime /\ bytes' = 0
    /\ Return

(* A rewritten playlist is uploaded when there is such a file.             *)
UploadIndex ==
    IF HasFile(localM3u8')
    THEN pc' = "index_put" /\ UNCHANGED <<caller, batch, openTime, bytes, measured>>
    ELSE FinishClose

(* The segment index moves on and the local playlist is rewritten; when    *)
(* there is no such file there is nothing to upload.                       *)
Advance ==
    /\ pc = "advance"
    /\ segIndex' = segIndex + 1 /\ startTime' = NoTime
    /\ \/ localM3u8' = [seq |-> SeqStart(segIndex'), entries |-> playlist]
       \/ MayFail("m3u8_write") /\ UNCHANGED localM3u8
    /\ UploadIndex
    /\ UNCHANGED <<clock, next, buf, playlist, ring, seg, store, liveIndex,
                   hourVars, histVars>>

(* The local playlist is uploaded; failing to open it is the one error     *)
(* that leaves the function before its tail.                               *)
PublishIndex ==
    /\ pc = "index_put"
    /\ \/ liveIndex' = localM3u8 /\ FinishClose /\ UNCHANGED openFailed
       \/ /\ MayFail("index_put")
          /\ liveIndex' \in {liveIndex, localM3u8}
          /\ FinishClose /\ UNCHANGED openFailed
       \/ /\ MayFail("index_open")
          /\ ReturnErr /\ openFailed' = TRUE
          /\ UNCHANGED <<liveIndex, openTime, bytes, measured>>
    /\ UNCHANGED <<clock, next, startTime, buf, segIndex, playlist, ring, seg,
                   store, localM3u8, hourVars, closed, uploaded>>

-----------------------------------------------------------------------------
(* The environment.                                                        *)

(* The diskless consumer thread takes a segment out of the ring; it leaves *)
(* when it sees the shutdown flag.                                         *)
ConsumerPop ==
    /\ pc \notin Ended /\ ring # <<>>
    /\ ring' = Tail(ring)
    /\ UNCHANGED <<clock, pc, caller, loopVars, segVars, playlist, seg, store,
                   localM3u8, liveIndex, hourVars, histVars>>

Tick ==
    /\ pc \notin Ended /\ clock < MaxClock
    /\ clock' = clock + 1
    /\ UNCHANGED <<pc, caller, loopVars, segVars, playlist, ring, seg, store,
                   localM3u8, liveIndex, hourVars, histVars>>

(* The batch is part of the segment or of a closed one from write_ts on    *)
(* until it is cleared.                                                    *)
InWrite == pc = "measure" \/ (pc \in Closing /\ caller \in {"forced", "due"})
Unwritten == IF InWrite THEN <<>> ELSE batch

(* A killed process keeps nothing; what it leaves in `batch' is the packets *)
(* that no segment had.                                                    *)
Kill ==
    /\ pc \notin Ended /\ MayFail("kill")
    /\ pc' = "dead" /\ batch' = Unwritten
    /\ UNCHANGED <<clock, caller, next, segVars, playlist, ring, seg, store,
                   localM3u8, liveIndex, hourVars, histVars>>

Terminated == pc \in Ended /\ UNCHANGED vars

Close == CutSegment \/ UploadSegment \/ Presign \/ RecordSegment
         \/ PublishHour \/ Advance \/ PublishIndex

Next == Receive \/ Stop \/ Disconnect \/ WriteTs \/ Measure \/ Close
        \/ ConsumerPop \/ Tick \/ Kill \/ Terminated

Spec == Init /\ [][Next]_vars

-----------------------------------------------------------------------------
(* Properties.                                                             *)

Segment       == Seq(Nat)
PlaylistEntry == [num : Nat, at : Nat \cup {NoTime}]
HourEntry     == [seq : Nat, num : Nat, at : Nat]
Playlist      == [seq : Nat, entries : Seq(PlaylistEntry)]

(* The type of every variable.                                             *)
TypeOK ==
    /\ clock \in 0..MaxClock
    /\ pc \in {"recv", "write", "measure"} \cup Closing \cup Ended
    /\ caller \in Callers
    /\ next \in Nat /\ batch \in Seq(Nat)
    /\ openTime \in 0..MaxClock \cup {NoTime}
    /\ startTime \in 0..MaxClock \cup {NoTime}
    /\ buf \in Segment /\ bytes \in Nat /\ measured \in BOOLEAN
    /\ segIndex \in Nat /\ playlist \in Seq(PlaylistEntry) /\ ring \in Seq(Nat)
    /\ seg \in [num : Nat, at : Nat \cup {NoTime}, hour : Hours \cup {NoTime}]
    /\ pc = "hourly_put" => seg.hour \in Hours
    /\ store \subseteq [num : Nat, at : Nat \cup {NoTime}, data : Segment]
    /\ localM3u8 \in Playlist /\ liveIndex \in Playlist
    /\ seqId \in Nat /\ hourMap \in [Hours -> Seq(HourEntry)]
    /\ DOMAIN hourIndex = Hours /\ urlsLog \subseteq Hours
    /\ closed \in Seq(Segment) /\ uploaded \subseteq Nat
    /\ openFailed \in BOOLEAN

(* The points of a close between the cut and the advance of segment_index, *)
(* and those between the entry's joining the playlist and that advance.    *)
Cutting == {"upload", "presign", "record", "hourly_put", "advance"}
Listing == {"hourly_put", "advance"}

(* segment_index counts the segments cut, one behind while a close runs,   *)
(* and the segment being closed carries the next number.                   *)
Numbering ==
    pc # "dead" =>
        /\ Len(closed) = segIndex + (IF pc \in Cutting THEN 1 ELSE 0)
        /\ pc \in Cutting => seg.num = segIndex + 1
        /\ seqId = segIndex + (IF pc \in Listing THEN 1 ELSE 0)

(* A graceful stop (flag, duration limit or dead capture thread) loses     *)
(* less than one batch: finalize closes whatever write_ts was given.       *)
GracefulStopLosesLessThanABatch ==
    pc = "done" /\ ~openFailed => next - Len(FlattenSeq(closed)) < BatchSize

(* The media sequence number of a segment never changes between two        *)
(* published playlists, and the window never moves back (rewrite_m3u8      *)
(* derives the number from segment_index and the length of the list).      *)
SequenceKept ==
    /\ liveIndex'.seq >= liveIndex.seq
    /\ \A i \in DOMAIN liveIndex.entries, j \in DOMAIN liveIndex'.entries :
         liveIndex.entries[i].num = liveIndex'.entries[j].num
           => liveIndex.seq + i = liveIndex'.seq + j
LiveSequenceStable == [][SequenceKept]_vars

(* The rolling playlist and its published copy are runs of consecutive     *)
(* segments, and the entry at place i is the segment number seq + i.       *)
WindowConsecutive ==
    \A p \in {localM3u8, liveIndex} :
        \A i \in DOMAIN p.entries : p.entries[i].num = p.seq + i

(* With no fault in S3 or on disk, whenever the main loop is back at its   *)
(* channel the published playlist ends with the last segment cut.          *)
ListedWhenHealthy ==
    /\ Faults \cap {"m3u8_write", "index_open", "index_put"} = {}
    /\ pc \in {"recv", "done"} /\ closed # <<>>
    => /\ liveIndex.entries # <<>>
       /\ Last(liveIndex.entries).num = Len(closed)

(* The hours partition the recording: sequence ids grow across and inside  *)
(* hours and number the segments, and no segment starts after the hour it  *)
(* is filed under. With unsigned URLs the published index of an hour has   *)
(* no gap, so that its EXT-X-MEDIA-SEQUENCE plus the place of an entry is  *)
(* its sequence id. (A presign that fails leaves a gap.)                   *)
HoursOrdered ==
    /\ \A g, h \in Hours : \A i \in DOMAIN hourMap[g], j \in DOMAIN hourMap[h] :
          LET a == hourMap[g][i]
              b == hourMap[h][j]
          IN  /\ g < h \/ (g = h /\ i < j) => a.seq < b.seq
              /\ a.seq = a.num /\ HourOf(a.at) <= g
    /\ "presign" \notin Faults =>
          \A h \in Hours : \A i \in DOMAIN hourIndex[h] :
              hourIndex[h][i].seq = hourIndex[h][1].seq + i - 1

(* The abstract recording: what write_ts has been given is everything      *)
(* captured but the batch that waits.                                      *)
Stream == INSTANCE StreamStore WITH
    MaxGive    <- BatchSize,
    MaxPending <- MaxSegPackets,
    given      <- next - Len(Unwritten),
    pending    <- buf,
    segments   <- closed,
    window     <- <<liveIndex.seq + 1, liveIndex.seq + Len(liveIndex.entries)>>

(* The segmenter implements the abstract recording while every close runs  *)
(* to its end, killed or not: what write_ts is given is cut in      *)
(* order, once and in time, so that segments are bounded by the limit plus *)
(* a batch, and the listing moves forward over segments that exist.        *)
StreamImplemented == Stream!StreamSpec
=============================================================================
