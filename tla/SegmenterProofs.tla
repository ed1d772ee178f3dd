-------------------------- MODULE SegmenterProofs --------------------------
(* Theorems about Segmenter, and about a recorder that is started again    *)
(* (RecorderRestart), for every value of their constants.                  *)
EXTENDS RecorderRestart, DataTheorems

(* Dropping the head of a sequence gives a sequence over the same set.     *)
LEMMA DropHeadType ==
    ASSUME NEW T, NEW s \in Seq(T), NEW limit \in Nat
    PROVE  DropHead(s, limit) \in Seq(T)
  BY DEF DropHead

(* Init and the steps preserve the types and the numbering together: the   *)
(* object of a segment is typed because the segment's number is that of    *)
(* the last one cut.                                                       *)
TypeInv == TypeOK /\ Numbering

(* Where a close that finishes or fails may go.                            *)
LEMMA ReturnType ==
    ASSUME TypeOK, Return
    PROVE  /\ pc' \in {"measure", "recv", "close", "done"}
           /\ caller' \in Callers /\ batch' \in Seq(Nat)
  <1>1. CASE caller = "forced" BY <1>1 DEF Return, TypeOK
  <1>2. CASE caller = "due" BY <1>2 DEF Return, TypeOK
  <1>3. CASE caller = "disconnected" BY <1>3 DEF Return, TypeOK, Callers
  <1>4. CASE caller = "final" BY <1>4 DEF Return, TypeOK
  <1>5. QED BY <1>1, <1>2, <1>3, <1>4 DEF TypeOK, Callers

LEMMA ReturnErrType ==
    ASSUME TypeOK, ReturnErr
    PROVE  /\ pc' \in {"recv", "close", "done"}
           /\ caller' \in Callers /\ batch' \in Seq(Nat)
  <1>1. CASE caller \in {"forced", "due"} BY <1>1 DEF ReturnErr, TypeOK
  <1>2. CASE caller = "disconnected" BY <1>2 DEF ReturnErr, TypeOK, Callers
  <1>3. CASE caller = "final" BY <1>3 DEF ReturnErr, TypeOK
  <1>4. QED BY <1>1, <1>2, <1>3 DEF TypeOK, Callers

LEMMA TypeInit == Init => TypeInv
  <1> SUFFICES ASSUME Init PROVE TypeInv
    OBVIOUS
  <1> USE SegmenterAssumption DEF Init
  <1>1. clock \in 0..MaxClock /\ pc = "recv" /\ caller \in Callers
    BY DEF Callers
  <1>2. /\ playlist \in Seq(PlaylistEntry) /\ ring \in Seq(Nat)
        /\ batch \in Seq(Nat) /\ buf \in Segment /\ closed \in Seq(Segment)
    BY DEF Segment
  <1>3. localM3u8 \in Playlist /\ liveIndex \in Playlist
    BY DEF NoPlaylist, Playlist
  <1>4. /\ hourMap \in [Hours -> Seq(HourEntry)] /\ DOMAIN hourIndex = Hours
        /\ urlsLog \subseteq Hours
    OBVIOUS
  <1>5. seg \in [num : Nat, at : Nat \cup {NoTime}, hour : Hours \cup {NoTime}]
    OBVIOUS
  <1>6. TypeOK
    BY <1>1, <1>2, <1>3, <1>4, <1>5 DEF TypeOK
  <1>7. Numbering
    BY DEF Numbering, Cutting, Listing
  <1>8. QED BY <1>6, <1>7 DEF TypeInv

(* Each step of write_ts and of the close preserves TypeInv.               *)
LEMMA TypeMeasure == TypeInv /\ Measure => TypeInv'
  <1> SUFFICES ASSUME TypeInv, Measure PROVE TypeInv'
    OBVIOUS
  <1> USE DEF TypeInv, Measure, loopVars, segVars, hourVars, histVars
  <1>1. bytes' \in Nat
    BY DEF TypeOK
  <1>2. PICK enough \in BOOLEAN :
          IF enough \/ (openTime # NoTime /\ clock - openTime >= SegTicks)
          THEN pc' = "close" /\ caller' = "due" /\ UNCHANGED batch
          ELSE pc' = "recv" /\ batch' = <<>> /\ UNCHANGED caller
    OBVIOUS
  <1>3. /\ pc' \in {"close", "recv"} /\ caller' \in Callers
        /\ batch' \in Seq(Nat)
    <2>1. CASE enough \/ (openTime # NoTime /\ clock - openTime >= SegTicks)
      <3>1. pc' = "close" /\ caller' = "due" /\ batch' = batch
        BY <1>2, <2>1, Zenon
      <3>2. QED BY <3>1 DEF TypeOK, Callers
    <2>2. CASE ~(enough \/ (openTime # NoTime /\ clock - openTime >= SegTicks))
      <3>1. pc' = "recv" /\ batch' = <<>> /\ caller' = caller
        BY <1>2, <2>2, Zenon
      <3>2. QED BY <3>1 DEF TypeOK, Callers
    <2>3. QED BY <2>1, <2>2
  <1>4. TypeOK'
    BY <1>1, <1>3 DEF TypeOK, Closing, Ended
  <1>5. Numbering'
    BY <1>3 DEF Numbering, Cutting, Listing
  <1>6. QED BY <1>4, <1>5

LEMMA TypeCutSegment == TypeInv /\ CutSegment => TypeInv'
  <1> SUFFICES ASSUME TypeInv, CutSegment PROVE TypeInv'
    OBVIOUS
  <1> USE SegmenterAssumption
      DEF TypeInv, CutSegment, TakeBuffer, loopVars, segVars, hourVars, histVars
  <1>1. closed' \in Seq(Segment) /\ buf' \in Segment
    BY DEF TypeOK, Segment
  <1>2. ring' \in Seq(Nat)
    <2>1. Append(ring, segIndex + 1) \in Seq(Nat)
      BY DEF TypeOK
    <2>2. QED BY <2>1, DropHeadType
  <1>3. seg' \in [num : Nat, at : Nat \cup {NoTime}, hour : Hours \cup {NoTime}]
    BY DEF TypeOK, SegmentKey
  <1>4. TypeOK'
    BY <1>1, <1>2, <1>3 DEF TypeOK, Closing, Ended
  <1>5. Numbering'
    BY DEF Numbering, Cutting, Listing, TypeOK
  <1>6. QED BY <1>4, <1>5

LEMMA TypeUploadSegment == TypeInv /\ UploadSegment => TypeInv'
  <1> SUFFICES ASSUME TypeInv, UploadSegment PROVE TypeInv'
    OBVIOUS
  <1> USE DEF TypeInv, UploadSegment, loopVars, segVars, hourVars, histVars
  <1>1. Object \in [num : Nat, at : Nat \cup {NoTime}, data : Segment]
    <2>1. closed[seg.num] \in Segment
      BY DEF TypeOK, Numbering, Cutting
    <2>2. QED BY <2>1 DEF Object, TypeOK
  <1>2. store' \subseteq [num : Nat, at : Nat \cup {NoTime}, data : Segment]
    BY <1>1 DEF PutObject, TypeOK
  <1>3. /\ seg' \in [num : Nat, at : Nat \cup {NoTime}, hour : Hours \cup {NoTime}]
        /\ seg'.num = seg.num /\ uploaded' \subseteq Nat
        /\ pc' \in {"presign", "record"}
    BY DEF TypeOK, MemName
  <1>4. TypeOK'
    BY <1>2, <1>3 DEF TypeOK, Closing, Ended
  <1>5. Numbering'
    BY <1>3 DEF Numbering, Cutting, Listing
  <1>6. QED BY <1>4, <1>5

LEMMA TypeRecordSegment == TypeInv /\ RecordSegment => TypeInv'
  <1> SUFFICES ASSUME TypeInv, RecordSegment PROVE TypeInv'
    OBVIOUS
  <1> USE SegmenterAssumption
      DEF TypeInv, RecordSegment, loopVars, segVars, hourVars, histVars
  <1>1. playlist' \in Seq(PlaylistEntry)
    <2>1. [num |-> seg.num, at |-> seg.at] \in PlaylistEntry
      BY DEF TypeOK, PlaylistEntry
    <2>2. Append(playlist, [num |-> seg.num, at |-> seg.at]) \in Seq(PlaylistEntry)
      BY <2>1 DEF TypeOK
    <2>3. QED BY <2>2, DropHeadType
  <1>2. /\ seg' \in [num : Nat, at : Nat \cup {NoTime}, hour : Hours \cup {NoTime}]
        /\ seg'.num = seg.num /\ seg'.hour \in Hours
    BY DEF TypeOK, FiledSeg
  <1>3. HourlyEntry \in HourEntry
    BY DEF TypeOK, HourlyEntry, HourEntry, SegmentKey
  <1>4. hourMap' \in [Hours -> Seq(HourEntry)]
    <2>1. HourOf(clock) \in Hours
      BY DEF TypeOK
    <2>2. Append(hourMap[HourOf(clock)], HourlyEntry) \in Seq(HourEntry)
      <3>1. hourMap[HourOf(clock)] \in Seq(HourEntry)
        BY <2>1 DEF TypeOK
      <3>2. QED BY <1>3, <3>1
    <2>3. File(HourOf(clock)) \in [Hours -> Seq(HourEntry)]
      BY <2>1, <2>2 DEF TypeOK, File
    <2>4. QED BY <2>3 DEF TypeOK
  <1>5. pc' \in {"hourly_put", "advance"} /\ seqId' \in Nat
    BY DEF TypeOK
  <1>6. TypeOK'
    BY <1>1, <1>2, <1>4, <1>5 DEF TypeOK, Closing, Ended
  <1>7. Numbering'
    BY <1>2, <1>5 DEF Numbering, Cutting, Listing, TypeOK
  <1>8. QED BY <1>6, <1>7

LEMMA TypeFinishClose ==
    ASSUME TypeInv, FinishClose, pc \in {"advance", "index_put"}
    PROVE  /\ measured' \in BOOLEAN /\ openTime' = NoTime /\ bytes' \in Nat
           /\ pc' \in {"measure", "recv", "close", "done"}
           /\ caller' \in Callers /\ batch' \in Seq(Nat)
  BY ReturnType DEF FinishClose, TypeInv, TypeOK

LEMMA TypeAdvance == TypeInv /\ Advance => TypeInv'
  <1> SUFFICES ASSUME TypeInv, Advance PROVE TypeInv'
    OBVIOUS
  <1> USE DEF TypeInv, Advance, loopVars, segVars, hourVars, histVars
  <1>1. /\ pc' \in {"index_put", "measure", "recv", "close", "done"}
        /\ caller' \in Callers /\ batch' \in Seq(Nat)
        /\ measured' \in BOOLEAN /\ bytes' \in Nat
        /\ openTime' \in 0..MaxClock \cup {NoTime}
    <2>1. CASE HasFile(localM3u8')
      BY <2>1 DEF UploadIndex, TypeOK
    <2>2. CASE ~HasFile(localM3u8')
      BY <2>2, TypeFinishClose DEF UploadIndex
    <2>3. QED BY <2>1, <2>2
  <1>2. localM3u8' \in Playlist
    <2>1. SeqStart(segIndex') \in Nat
      BY DEF SeqStart, TypeOK
    <2>2. QED BY <2>1 DEF TypeOK, Playlist
  <1>3. segIndex' \in Nat /\ segIndex' = segIndex + 1
    BY DEF TypeOK
  <1>4. TypeOK'
    BY <1>1, <1>2, <1>3 DEF TypeOK, Closing, Ended
  <1>5. Numbering'
    BY <1>1, <1>3 DEF Numbering, Cutting, Listing, TypeOK
  <1>6. QED BY <1>4, <1>5

LEMMA TypePublishIndex == TypeInv /\ PublishIndex => TypeInv'
  <1> SUFFICES ASSUME TypeInv, PublishIndex PROVE TypeInv'
    OBVIOUS
  <1> USE DEF TypeInv, PublishIndex, loopVars, segVars, hourVars, histVars
  <1>1. /\ pc' \in {"measure", "recv", "close", "done"}
        /\ caller' \in Callers /\ batch' \in Seq(Nat)
        /\ measured' \in BOOLEAN /\ bytes' \in Nat
        /\ openTime' \in 0..MaxClock \cup {NoTime}
    <2>1. CASE FinishClose
      BY <2>1, TypeFinishClose
    <2>2. CASE ReturnErr /\ UNCHANGED <<liveIndex, openTime, bytes, measured>>
      BY <2>2, ReturnErrType DEF TypeOK
    <2>3. QED BY <2>1, <2>2
  <1>2. liveIndex' \in Playlist /\ openFailed' \in BOOLEAN
    BY DEF TypeOK
  <1>3. TypeOK'
    BY <1>1, <1>2 DEF TypeOK, Closing, Ended
  <1>4. Numbering'
    BY <1>1 DEF Numbering, Cutting, Listing
  <1>5. QED BY <1>3, <1>4

LEMMA TypePublishHour == TypeInv /\ PublishHour => TypeInv'
  <1> SUFFICES ASSUME TypeInv, PublishHour PROVE TypeInv'
    OBVIOUS
  <1> USE DEF TypeInv, PublishHour, PutHour, loopVars, segVars, hourVars, histVars
  <1>1. DOMAIN hourIndex' = Hours
    BY DEF SortedHour, TypeOK
  <1>2. urlsLog' \subseteq Hours
    BY DEF TypeOK
  <1>3. TypeOK'
    BY <1>1, <1>2 DEF TypeOK, Closing, Ended
  <1>4. Numbering'
    BY DEF Numbering, Cutting, Listing
  <1>5. QED BY <1>3, <1>4

LEMMA TypeStep == TypeInv /\ [Next]_vars => TypeInv'
  <1> SUFFICES ASSUME TypeInv, [Next]_vars PROVE TypeInv'
    OBVIOUS
  <1> USE SegmenterAssumption
      DEF TypeOK, Closing, Ended, Callers, Segment, Numbering, Cutting, Listing,
          loopVars, segVars, hourVars, histVars, TypeInv
  <1>1. CASE Receive
    <2>1. next' \in Nat /\ batch' \in Seq(Nat) /\ pc' \in {"write", "recv"}
      BY <1>1 DEF Receive
    <2>2. QED BY <1>1, <2>1 DEF Receive
  <1>2. CASE Stop
    BY <1>2 DEF Stop
  <1>3. CASE Disconnect
    BY <1>3 DEF Disconnect
  <1>4. CASE WriteTs
    <2>1. buf' \in Seq(Nat)
      BY <1>4 DEF WriteTs, Join
    <2>2. /\ openTime' \in 0..MaxClock \cup {NoTime}
          /\ startTime' \in 0..MaxClock \cup {NoTime}
      BY <1>4 DEF WriteTs
    <2>3. pc' \in {"close", "measure"} /\ caller' \in Callers
      BY <1>4 DEF WriteTs
    <2>4. QED BY <1>4, <2>1, <2>2, <2>3 DEF WriteTs
  <1>5. CASE Presign
    BY <1>5 DEF Presign, MemName
  <1>6. CASE ConsumerPop
    BY <1>6 DEF ConsumerPop
  <1>7. CASE Tick
    BY <1>7 DEF Tick
  <1>8. CASE Kill
    BY <1>8 DEF Kill, Unwritten
  <1>9. CASE UNCHANGED vars
    BY <1>9 DEF vars
  <1>10. QED
    BY <1>1, <1>2, <1>3, <1>4, <1>5, <1>6, <1>7, <1>8, <1>9, TypeMeasure,
       TypeCutSegment, TypeUploadSegment, TypeRecordSegment, TypePublishHour,
       TypeAdvance, TypePublishIndex
       DEF Next, Close, Terminated

(* The segmenter's variables keep their types (TypeOK), for any batch      *)
(* size, limits, clock and set of faults.                                  *)
THEOREM TypeCorrect == Spec => []TypeOK
<1>1. Spec => []TypeInv
  BY TypeInit, TypeStep, PTL DEF Spec
<1>2. TypeInv => TypeOK
  BY DEF TypeInv
<1>3. QED BY <1>1, <1>2, PTL

-----------------------------------------------------------------------------
(* The published window.                                                   *)

(* The number of the last segment that has entered the rolling playlist.   *)
LastListed == segIndex + (IF pc \in Listing THEN 1 ELSE 0)

(* WindowConsecutive is not inductive: the file is rendered from a list    *)
(* and a counter that move at different steps of a close. What they keep   *)
(* is that the list is the run of segments that ends with LastListed, that *)
(* the file and its published copy are behind it, and that a file is there *)
(* when it is uploaded.                                                    *)
Behind(p, first, last) == p.seq <= first /\ p.seq + Len(p.entries) <= last

PlaylistRun ==
    /\ Len(playlist) <= LastListed
    /\ \A i \in DOMAIN playlist :
         playlist[i].num = LastListed - Len(playlist) + i
    /\ pc \in Listing => playlist # <<>>

ListRun ==
    /\ PlaylistRun
    /\ Behind(localM3u8, LastListed - Len(playlist), LastListed)
    /\ pc = "index_put" => localM3u8.entries # <<>>

WindowInv ==
    /\ TypeInv
    /\ WindowConsecutive
    /\ Behind(liveIndex, localM3u8.seq, localM3u8.seq + Len(localM3u8.entries))
    /\ pc # "dead" => ListRun

(* What remains after dropping the head is the tail end of the list.       *)
LEMMA DropHeadRun ==
    ASSUME NEW T, NEW s \in Seq(T), NEW limit \in Nat, s # <<>>
    PROVE  LET d == DropHead(s, limit)
           IN  /\ d \in Seq(T) /\ d # <<>>
               /\ Len(d) \in {Len(s), Len(s) - 1}
               /\ \A i \in DOMAIN d : d[i] = s[Len(s) - Len(d) + i]
  <1>1. CASE limit > 0 /\ Len(s) > limit
    <2>1. DropHead(s, limit) = Tail(s)
      BY <1>1 DEF DropHead
    <2>2. Tail(s) \in Seq(T) /\ Len(Tail(s)) = Len(s) - 1 /\ Len(s) > 1
      BY <1>1
    <2>3. \A i \in 1..Len(Tail(s)) : Tail(s)[i] = s[1 + i]
      BY <2>2
    <2>4. QED BY <2>1, <2>2, <2>3
  <1>2. CASE ~(limit > 0 /\ Len(s) > limit)
    BY <1>2 DEF DropHead
  <1>3. QED BY <1>1, <1>2

LEMMA WindowInit == Init => WindowInv
  <1> SUFFICES ASSUME Init PROVE WindowInv
    OBVIOUS
  <1>1. TypeInv
    BY TypeInit
  <1>2. /\ WindowConsecutive /\ ListRun
        /\ Behind(liveIndex, localM3u8.seq, localM3u8.seq + Len(localM3u8.entries))
    BY DEF Init, WindowConsecutive, NoPlaylist, PlaylistRun, ListRun, LastListed, Listing, Behind
  <1>3. QED BY <1>1, <1>2 DEF WindowInv

(* A new entry extends the run, whether or not the oldest one is dropped.  *)
LEMMA RunRecord ==
    ASSUME TypeInv, PlaylistRun, RecordSegment
    PROVE  /\ PlaylistRun' /\ pc' \in Listing
           /\ UNCHANGED <<segIndex, localM3u8, liveIndex>>
           /\ \A p \in Playlist :
                Behind(p, LastListed - Len(playlist), LastListed)
                  => Behind(p, LastListed' - Len(playlist'), LastListed')
  <1> DEFINE e == [num |-> seg.num, at |-> seg.at]
             longer == Append(playlist, e)
  <1>1. /\ playlist \in Seq(PlaylistEntry) /\ e \in PlaylistEntry
        /\ longer \in Seq(PlaylistEntry) /\ Len(longer) = Len(playlist) + 1
        /\ longer # <<>> /\ segIndex \in Nat
        /\ e.num = segIndex + 1
    <2>1. /\ playlist \in Seq(PlaylistEntry) /\ segIndex \in Nat
          /\ e \in PlaylistEntry
      BY DEF TypeInv, TypeOK, PlaylistEntry
    <2>2. e.num = segIndex + 1
      BY DEF TypeInv, Numbering, Cutting, RecordSegment
    <2>3. longer \in Seq(PlaylistEntry) /\ Len(longer) = Len(playlist) + 1
      BY <2>1
    <2>4. QED BY <2>1, <2>2, <2>3
  <1>2. /\ pc = "record" /\ pc' \in Listing /\ playlist' = DropHead(longer, KeepSegments)
        /\ segIndex' = segIndex /\ localM3u8' = localM3u8 /\ liveIndex' = liveIndex
    BY DEF RecordSegment, Listing, segVars
  <1>3. LastListed = segIndex /\ LastListed' = segIndex + 1 /\ PlaylistRun
    BY <1>1, <1>2 DEF LastListed, Listing
  <1>4. \A i \in DOMAIN longer : longer[i].num = segIndex - Len(playlist) + i
    <2>1. \A i \in DOMAIN playlist : playlist[i].num = segIndex - Len(playlist) + i
      BY <1>3 DEF PlaylistRun
    <2>2. \A i \in DOMAIN longer :
            longer[i] = IF i \in DOMAIN playlist THEN playlist[i] ELSE e
      BY <1>1
    <2>3. \A i \in DOMAIN longer : i \notin DOMAIN playlist => i = Len(playlist) + 1
      BY <1>1
    <2>4. QED BY <1>1, <2>1, <2>2, <2>3
  <1>5. /\ playlist' \in Seq(PlaylistEntry) /\ playlist' # <<>>
        /\ Len(playlist') \in {Len(longer), Len(longer) - 1}
        /\ \A i \in DOMAIN playlist' :
             playlist'[i] = longer[Len(longer) - Len(playlist') + i]
    <2>1. KeepSegments \in Nat
      BY SegmenterAssumption
    <2> HIDE DEF longer
    <2>2. QED BY <1>1, <1>2, <2>1, DropHeadRun
  <1>6. \A i \in DOMAIN playlist' :
          playlist'[i].num = LastListed' - Len(playlist') + i
    <2> SUFFICES ASSUME NEW i \in DOMAIN playlist'
                 PROVE  playlist'[i].num = LastListed' - Len(playlist') + i
      OBVIOUS
    <2>1. Len(longer) - Len(playlist') + i \in DOMAIN longer
      BY <1>1, <1>5
    <2>2. longer[Len(longer) - Len(playlist') + i].num
            = segIndex - Len(playlist) + (Len(longer) - Len(playlist') + i)
      BY <2>1, <1>4
    <2>3. QED BY <2>2, <1>1, <1>3, <1>5
  <1>7. Len(playlist') <= LastListed' /\ Len(playlist') <= Len(playlist) + 1
    BY <1>1, <1>3, <1>5 DEF PlaylistRun
  <1>8. PlaylistRun'
    BY <1>5, <1>6, <1>7 DEF PlaylistRun
  <1>9. ASSUME NEW p \in Playlist, Behind(p, LastListed - Len(playlist), LastListed)
        PROVE  Behind(p, LastListed' - Len(playlist'), LastListed')
    <2>1. /\ p.seq \in Nat /\ p.entries \in Seq(PlaylistEntry)
          /\ p.seq <= LastListed - Len(playlist) /\ p.seq + Len(p.entries) <= LastListed
      BY <1>9 DEF Playlist, Behind
    <2>2. Len(p.entries) \in Nat /\ Len(playlist) \in Nat /\ Len(playlist') \in Nat
      BY <1>1, <1>5, <2>1
    <2>3. QED BY <1>1, <1>3, <1>7, <2>1, <2>2 DEF Behind
  <1>10. QED BY <1>2, <1>8, <1>9

LEMMA WindowRecord == WindowInv /\ TypeInv' /\ RecordSegment => WindowInv'
  <1> SUFFICES ASSUME WindowInv, TypeInv', RecordSegment PROVE WindowInv'
    OBVIOUS
  <1>1. TypeInv /\ localM3u8 \in Playlist /\ pc = "record" /\ ListRun
    BY DEF WindowInv, TypeInv, TypeOK, RecordSegment
  <1>2. /\ PlaylistRun' /\ pc' \in Listing
        /\ UNCHANGED <<segIndex, localM3u8, liveIndex>>
        /\ Behind(localM3u8, LastListed' - Len(playlist'), LastListed')
    BY <1>1, RunRecord DEF ListRun
  <1>3. ListRun'
    BY <1>2 DEF ListRun, Listing
  <1>4. QED BY <1>2, <1>3 DEF WindowInv, WindowConsecutive, Behind

(* segment_index reaches the last listed segment; the file rendered from   *)
(* the list and the new index is the run itself.                           *)
LEMMA WindowAdvance == WindowInv /\ TypeInv' /\ Advance => WindowInv'
  <1> SUFFICES ASSUME WindowInv, TypeInv', Advance PROVE WindowInv'
    OBVIOUS
  <1>1. /\ playlist \in Seq(PlaylistEntry) /\ segIndex \in Nat
        /\ localM3u8 \in Playlist /\ liveIndex \in Playlist
    BY DEF WindowInv, TypeInv, TypeOK
  <1>2. /\ pc = "advance" /\ segIndex' = segIndex + 1
        /\ playlist' = playlist /\ liveIndex' = liveIndex
    BY DEF Advance
  <1>3. pc' \in {"index_put", "measure", "recv", "close", "done"}
    BY TypeFinishClose, <1>2 DEF Advance, UploadIndex, WindowInv
  <1>4. /\ LastListed = segIndex + 1 /\ LastListed' = segIndex + 1
        /\ ListRun /\ pc' \notin Listing /\ pc' # "dead"
    BY <1>1, <1>2, <1>3 DEF LastListed, Listing, WindowInv
  <1>5. pc' = "index_put" => localM3u8'.entries # <<>>
    <2>1. ~HasFile(localM3u8') => pc' # "index_put"
      BY TypeFinishClose, <1>2 DEF Advance, UploadIndex, WindowInv
    <2>2. QED BY <2>1 DEF HasFile
  <1>6. CASE localM3u8' = localM3u8
    <2>1. ListRun'
      BY <1>2, <1>4, <1>5, <1>6 DEF PlaylistRun, ListRun, Behind
    <2>2. QED BY <1>2, <1>6, <2>1 DEF WindowInv, WindowConsecutive, Behind
  <1>7. CASE localM3u8' = [seq |-> SeqStart(segIndex'), entries |-> playlist]
    <2>1. /\ Len(playlist) <= segIndex + 1
          /\ \A i \in DOMAIN playlist : playlist[i].num = segIndex + 1 - Len(playlist) + i
          /\ localM3u8.seq <= segIndex + 1 - Len(playlist)
          /\ localM3u8.seq + Len(localM3u8.entries) <= segIndex + 1
      <3>1. LastListed = segIndex + 1 /\ ListRun
        BY <1>4
      <3>2. \A i \in DOMAIN playlist :
              playlist[i].num = LastListed - Len(playlist) + i
        BY <3>1 DEF PlaylistRun, ListRun
      <3>3. /\ Len(playlist) <= LastListed
            /\ localM3u8.seq <= LastListed - Len(playlist)
            /\ localM3u8.seq + Len(localM3u8.entries) <= LastListed
        BY <3>1 DEF PlaylistRun, ListRun, Behind
      <3>4. LastListed = segIndex + 1 /\ segIndex \in Nat
            /\ playlist \in Seq(PlaylistEntry) /\ localM3u8.seq \in Nat
            /\ localM3u8.entries \in Seq(PlaylistEntry)
        BY <1>1, <3>1 DEF Playlist
      <3>5. /\ Len(playlist) <= segIndex + 1
            /\ localM3u8.seq <= segIndex + 1 - Len(playlist)
            /\ localM3u8.seq + Len(localM3u8.entries) <= segIndex + 1
        BY ONLY <3>3, <3>4
      <3>6. QED BY <3>2, <3>4, <3>5
    <2>2. SeqStart(segIndex') = segIndex + 1 - Len(playlist)
      BY <1>1, <1>2, <2>1 DEF SeqStart
    <2>3. /\ localM3u8'.seq = segIndex + 1 - Len(playlist)
          /\ localM3u8'.entries = playlist
      BY <1>7, <2>2
    <2>4. ListRun'
      BY <1>1, <1>2, <1>4, <1>5, <2>1, <2>3 DEF PlaylistRun, ListRun, Behind
    <2>5. WindowConsecutive'
      <3>1. \A i \in DOMAIN localM3u8'.entries :
              localM3u8'.entries[i].num = localM3u8'.seq + i
        BY <2>1, <2>3
      <3>2. QED BY <1>2, <3>1 DEF WindowConsecutive, WindowInv
    <2>6. Behind(liveIndex', localM3u8'.seq, localM3u8'.seq + Len(localM3u8'.entries))
      <3>1. Behind(liveIndex, localM3u8.seq, localM3u8.seq + Len(localM3u8.entries))
        BY DEF WindowInv
      <3>2. QED BY <1>1, <1>2, <2>1, <2>3, <3>1 DEF Behind, Playlist
    <2>7. QED BY <2>4, <2>5, <2>6 DEF WindowInv
  <1>8. QED BY <1>6, <1>7 DEF Advance

(* The published copy catches up with the file, or stays.                  *)
LEMMA WindowPublish == WindowInv /\ TypeInv' /\ PublishIndex => WindowInv'
  <1> SUFFICES ASSUME WindowInv, TypeInv', PublishIndex PROVE WindowInv'
    OBVIOUS
  <1>1. /\ pc = "index_put" /\ segIndex' = segIndex /\ playlist' = playlist
        /\ localM3u8' = localM3u8 /\ liveIndex' \in {liveIndex, localM3u8}
        /\ segIndex \in Nat /\ localM3u8 \in Playlist
    BY DEF PublishIndex, WindowInv, TypeInv, TypeOK
  <1>2. pc' \in {"measure", "recv", "close", "done"}
    BY TypeFinishClose, ReturnErrType, <1>1 DEF PublishIndex, WindowInv, TypeInv
  <1>3. ListRun'
    BY <1>1, <1>2 DEF PlaylistRun, ListRun, LastListed, Listing, Behind, WindowInv
  <1>4. WindowConsecutive'
    BY <1>1 DEF WindowConsecutive, WindowInv
  <1>5. Behind(liveIndex', localM3u8'.seq, localM3u8'.seq + Len(localM3u8'.entries))
    BY <1>1 DEF Behind, WindowInv, Playlist
  <1>6. QED BY <1>3, <1>4, <1>5 DEF WindowInv

(* A step that leaves the list, the index and both files alone, and neither *)
(* enters nor leaves the points where the index is behind.                 *)
LEMMA WindowOther ==
    ASSUME WindowInv, TypeInv',
           UNCHANGED <<segIndex, playlist, localM3u8, liveIndex>>,
           pc' \in Listing <=> pc \in Listing,
           pc' # "index_put" \/ pc' = pc,
           pc = "dead" => pc' = "dead"
    PROVE  WindowInv'
  BY DEF WindowInv, WindowConsecutive, PlaylistRun, ListRun, LastListed, Behind

LEMMA WindowStep == WindowInv /\ [Next]_vars => WindowInv'
  <1> SUFFICES ASSUME WindowInv, [Next]_vars PROVE WindowInv'
    OBVIOUS
  <1>1. TypeInv'
    BY TypeStep DEF WindowInv
  <1> USE <1>1 DEF loopVars, segVars, hourVars, histVars, Listing, Ended
  <1>2. CASE Receive
    BY <1>2, WindowOther DEF Receive
  <1>3. CASE Stop \/ Disconnect
    BY <1>3, WindowOther DEF Stop, Disconnect
  <1>4. CASE WriteTs
    BY <1>4, WindowOther DEF WriteTs
  <1>5. CASE Measure
    <2>1. pc = "measure" /\ pc' \in {"close", "recv"}
      BY <1>5 DEF Measure
    <2>2. QED BY <1>5, <2>1, WindowOther DEF Measure
  <1>6. CASE CutSegment
    BY <1>6, WindowOther DEF CutSegment
  <1>7. CASE UploadSegment
    BY <1>7, WindowOther DEF UploadSegment
  <1>8. CASE Presign
    BY <1>8, WindowOther DEF Presign
  <1>9. CASE PublishHour
    BY <1>9, WindowOther DEF PublishHour
  <1>10. CASE ConsumerPop \/ Tick
    BY <1>10, WindowOther DEF ConsumerPop, Tick
  <1>11. CASE Kill
    BY <1>11 DEF Kill, WindowInv, WindowConsecutive, Behind
  <1>12. CASE UNCHANGED vars
    BY <1>12, WindowOther DEF vars
  <1>13. QED
    BY <1>2, <1>3, <1>4, <1>5, <1>6, <1>7, <1>8, <1>9, <1>10, <1>11, <1>12,
       WindowRecord, WindowAdvance, WindowPublish DEF Next, Close, Terminated

(* Every rendered and every published playlist is a run of consecutive     *)
(* segments numbered from its media sequence number, whatever fails.       *)
THEOREM WindowCorrect == Spec => []WindowConsecutive
<1>1. Spec => []WindowInv
  BY WindowInit, WindowStep, PTL DEF Spec
<1>2. WindowInv => WindowConsecutive
  BY DEF WindowInv
<1>3. QED BY <1>1, <1>2, PTL

(* A segment keeps its media sequence number from one published playlist   *)
(* to the next, and the published window never moves back.                 *)
THEOREM SequenceStable == Spec => LiveSequenceStable
<1>1. WindowInv /\ WindowInv' /\ [Next]_vars => [SequenceKept]_vars
  <2> SUFFICES ASSUME WindowInv, WindowInv', [Next]_vars PROVE SequenceKept
    OBVIOUS
  <2>1. liveIndex \in Playlist /\ liveIndex' \in Playlist /\ localM3u8 \in Playlist
    BY DEF WindowInv, TypeInv, TypeOK
  <2>2. liveIndex' \in {liveIndex, localM3u8}
    BY DEF Next, vars, Receive, Stop, Disconnect, WriteTs, Measure, Close,
       CutSegment, UploadSegment, Presign, RecordSegment, PublishHour, Advance,
       PublishIndex, ConsumerPop, Tick, Kill, Terminated
  <2>3. liveIndex'.seq >= liveIndex.seq
    BY <2>1, <2>2 DEF WindowInv, Behind, Playlist
  <2>4. /\ \A i \in DOMAIN liveIndex.entries :
             liveIndex.entries[i].num = liveIndex.seq + i
        /\ \A j \in DOMAIN liveIndex'.entries :
             liveIndex'.entries[j].num = liveIndex'.seq + j
    BY DEF WindowInv, WindowConsecutive
  <2>5. QED BY <2>3, <2>4 DEF SequenceKept
<1>2. Spec => []WindowInv
  BY WindowInit, WindowStep, PTL DEF Spec
<1>3. QED BY <1>1, <1>2, PTL DEF Spec, LiveSequenceStable

-----------------------------------------------------------------------------
(* The segmenter implements the abstract recording.                        *)

(* The batch holds the last packets captured, in order; it is full from    *)
(* write_ts until it is cleared, and has room in the main loop.            *)
BatchInv ==
    /\ Len(batch) <= next
    /\ \A i \in DOMAIN batch : batch[i] = next - Len(batch) + i
    /\ pc = "write" \/ InWrite => Len(batch) = BatchSize
    /\ pc = "recv" => Len(batch) < BatchSize

LEMMA BatchInit == Init => BatchInv
  BY SegmenterAssumption DEF Init, BatchInv, InWrite, Closing

(* A close returns to the main loop only with the batch cleared.           *)
LEMMA BatchFinish ==
    ASSUME TypeInv, BatchInv, FinishClose, pc \in {"advance", "index_put"},
           next' = next
    PROVE  BatchInv' /\ Len(Unwritten') = Len(Unwritten)
  <1> USE SegmenterAssumption DEF FinishClose
  <1>1. /\ TypeOK /\ batch \in Seq(Nat) /\ next \in Nat
        /\ BatchSize \in Nat /\ BatchSize > 0
    BY DEF TypeInv, TypeOK
  <1>2. CASE caller = "forced"
    <2>1. pc' = "measure" /\ caller' = caller /\ batch' = batch
      BY <1>2 DEF Return
    <2>2. InWrite /\ InWrite'
      BY <1>2, <2>1 DEF InWrite, Closing
    <2>3. QED BY <2>1, <2>2 DEF BatchInv, Unwritten
  <1>3. CASE caller = "due"
    <2>1. pc' = "recv" /\ batch' = <<>>
      BY <1>3 DEF Return
    <2>2. InWrite /\ ~InWrite'
      BY <1>3, <2>1 DEF InWrite, Closing
    <2>3. QED BY <1>1, <2>1, <2>2 DEF BatchInv, Unwritten
  <1>4. CASE caller = "disconnected"
    <2>1. pc' = "close" /\ caller' = "final" /\ batch' = batch
      BY <1>4 DEF Return
    <2>2. ~InWrite /\ ~InWrite'
      BY <1>4, <2>1 DEF InWrite
    <2>3. QED BY <2>1, <2>2 DEF BatchInv, Unwritten
  <1>5. CASE caller = "final"
    <2>1. pc' = "done" /\ batch' = batch
      BY <1>5 DEF Return
    <2>2. ~InWrite /\ ~InWrite'
      BY <1>5, <2>1 DEF InWrite, Closing
    <2>3. QED BY <2>1, <2>2 DEF BatchInv, Unwritten
  <1>6. QED BY <1>1, <1>2, <1>3, <1>4, <1>5 DEF TypeOK, Callers

(* Steps inside a close leave the batch alone.                             *)
LEMMA BatchInside ==
    ASSUME BatchInv, UNCHANGED <<next, batch, caller>>,
           pc \in Closing, pc' \in Closing
    PROVE  BatchInv' /\ Unwritten' = Unwritten
  <1>1. InWrite' <=> InWrite
    BY DEF InWrite, Closing
  <1>2. pc' \notin {"dead", "recv", "write"}
    BY DEF Closing
  <1>3. QED BY <1>1, <1>2 DEF BatchInv, Unwritten

(* The open segment has reached its limit only on the way into the close   *)
(* that write_ts forces.                                                   *)
BoundInv ==
    MaxSegPackets > 0 =>
        \/ pc = "dead" \/ (pc = "close" /\ caller = "forced")
        \/ Len(buf) < MaxSegPackets

LEMMA BoundInit == Init => BoundInv
  <1> SUFFICES ASSUME Init, MaxSegPackets > 0 PROVE Len(buf) < MaxSegPackets
    BY DEF BoundInv
  <1>1. Len(buf) = 0
    BY DEF Init
  <1>2. QED BY <1>1, SegmenterAssumption

LEMMA BoundStep ==
    ASSUME TypeInv, BoundInv, [Next]_vars
    PROVE  BoundInv'
  <1> USE SegmenterAssumption
  <1> SUFFICES ASSUME MaxSegPackets > 0
               PROVE  \/ pc' = "dead" \/ (pc' = "close" /\ caller' = "forced")
                      \/ Len(buf') < MaxSegPackets
    BY DEF BoundInv
  <1>1. MaxSegPackets \in Nat /\ buf \in Seq(Nat)
    BY DEF TypeInv, TypeOK, Segment
  <1>2. CASE WriteTs
    <2>1. CASE Full(buf')
      BY <1>2, <2>1 DEF WriteTs
    <2>2. CASE ~Full(buf')
      <3>1. batch \in Seq(Nat) /\ buf' = buf \o batch
        BY <1>2 DEF WriteTs, Join, TypeInv, TypeOK
      <3>2. Len(buf') \in Nat /\ ~(Len(buf') >= MaxSegPackets)
        BY <1>1, <2>2, <3>1 DEF Full
      <3>3. QED BY <1>1, <3>2
    <2>3. QED BY <2>1, <2>2
  <1>3. CASE CutSegment
    <2>1. Len(buf') = 0
      BY <1>3 DEF CutSegment, TakeBuffer
    <2>2. QED BY <1>1, <2>1
  <1>4. ASSUME buf' = buf,
               UNCHANGED <<pc, caller>> \/ pc \notin {"close", "dead"}
        PROVE  \/ pc' = "dead" \/ (pc' = "close" /\ caller' = "forced")
               \/ Len(buf') < MaxSegPackets
    BY <1>4 DEF BoundInv
  <1>5. CASE Receive \/ Stop \/ Disconnect \/ Measure \/ UploadSegment \/ Presign
             \/ RecordSegment \/ PublishHour \/ Advance \/ PublishIndex
    BY <1>4, <1>5
       DEF Receive, Stop, Disconnect, Measure, UploadSegment, Presign,
           RecordSegment, PublishHour, Advance, PublishIndex, segVars
  <1>6. CASE ConsumerPop \/ Tick \/ UNCHANGED vars
    BY <1>4, <1>6 DEF ConsumerPop, Tick, vars, segVars
  <1>7. CASE Kill
    BY <1>7 DEF Kill
  <1>8. QED
    BY <1>2, <1>3, <1>5, <1>6, <1>7 DEF Next, Close, Terminated

(* One step of the segmenter: BatchInv is preserved, and the step is one   *)
(* of the abstract recording or stutters there.                            *)
LEMMA BatchStep ==
    ASSUME "index_open" \notin Faults,
           WindowInv, WindowInv', BatchInv, BoundInv, [Next]_vars
    PROVE  BatchInv' /\ [Stream!SNext]_(Stream!svars)
  <1> USE SegmenterAssumption DEF loopVars, segVars, hourVars, histVars
  <1> DEFINE given == next - Len(Unwritten)
             first == liveIndex.seq + 1
             last  == liveIndex.seq + Len(liveIndex.entries)
             Same  == /\ Len(Unwritten') = Len(Unwritten) /\ next' = next
                      /\ UNCHANGED <<buf, closed, liveIndex>>
  <1>1. /\ TypeInv /\ TypeOK /\ batch \in Seq(Nat) /\ next \in Nat
        /\ BatchSize \in Nat /\ BatchSize > 0
    <2>1. TypeInv /\ TypeOK
      BY DEF WindowInv, TypeInv
    <2>2. BatchSize \in Nat /\ BatchSize > 0
      OBVIOUS
    <2>3. QED BY <2>1, <2>2 DEF TypeOK
  <1>2. Same => UNCHANGED Stream!svars
    BY DEF Stream!svars
  <1>3. CASE Receive
    <2>1. ~InWrite /\ ~InWrite'
      BY <1>3 DEF Receive, InWrite, Closing
    <2>2. batch' = Append(batch, next + 1) /\ next' = next + 1
      BY <1>3 DEF Receive
    <2>3. BatchInv'
      <3>1. Len(batch') = Len(batch) + 1 /\ Len(batch') <= next'
        BY <1>1, <2>2 DEF BatchInv
      <3>2. \A i \in DOMAIN batch' : batch'[i] = next' - Len(batch') + i
        <4> SUFFICES ASSUME NEW i \in 1..(Len(batch) + 1)
                     PROVE  batch'[i] = next' - Len(batch') + i
          BY <1>1, <2>2, <3>1
        <4>1. CASE i = Len(batch) + 1
          BY <1>1, <2>2, <3>1, <4>1
        <4>2. CASE i \in DOMAIN batch
          <5>1. batch[i] = next - Len(batch) + i
            BY <4>2 DEF BatchInv
          <5>2. QED BY <1>1, <2>2, <3>1, <4>2, <5>1
        <4>3. QED BY <1>1, <4>1, <4>2
      <3>3. /\ pc' = IF Len(batch') >= BatchSize THEN "write" ELSE "recv"
            /\ Len(batch) < BatchSize
        BY <1>3 DEF Receive, BatchInv
      <3>4. /\ pc' \in {"write", "recv"}
            /\ pc' = "write" => Len(batch') = BatchSize
            /\ pc' = "recv" => Len(batch') < BatchSize
        BY <1>1, <3>1, <3>3
      <3>5. QED BY <2>1, <3>1, <3>2, <3>4 DEF BatchInv
    <2>4. next' - Len(Unwritten') = next - Len(Unwritten)
      BY <1>1, <2>1, <2>2 DEF Unwritten
    <2>5. QED BY <1>3, <2>3, <2>4 DEF Receive, Stream!svars
  <1>4. CASE Stop \/ Disconnect
    <2>1. ~InWrite /\ ~InWrite'
      BY <1>4 DEF Stop, Disconnect, InWrite, Closing
    <2>2. QED BY <1>2, <1>4, <2>1 DEF Stop, Disconnect, BatchInv, Unwritten
  <1>5. CASE WriteTs
    <2>1. ~InWrite /\ InWrite'
      BY <1>5 DEF WriteTs, InWrite, Closing
    <2>2. BatchInv' /\ Len(batch) = BatchSize
      BY <1>1, <1>5, <2>1 DEF WriteTs, BatchInv
    <2>3. batch = [i \in 1..BatchSize |-> next - BatchSize + i]
      <3>1. batch = [i \in 1..Len(batch) |-> batch[i]]
        BY <1>1
      <3>2. \A i \in 1..BatchSize : batch[i] = next - BatchSize + i
        <4>1. Len(batch) = BatchSize /\ DOMAIN batch = 1..BatchSize
          BY <1>1, <2>2
        <4>2. QED BY <4>1 DEF BatchInv
      <3>3. QED BY <2>2, <3>1, <3>2
    <2>4. /\ Unwritten = batch /\ Unwritten' = <<>> /\ next' = next
          /\ buf' = buf \o batch /\ closed' = closed /\ liveIndex' = liveIndex
      BY <1>5, <2>1 DEF WriteTs, Join, Unwritten
    <2>5. /\ next - Len(Unwritten) = next - BatchSize
          /\ next' - Len(Unwritten') = next - Len(Unwritten) + BatchSize
      <3>1. Len(Unwritten) = BatchSize /\ Len(Unwritten') = 0
        BY <2>2, <2>4
      <3>2. QED BY <1>1, <2>4, <3>1
    <2>6. Stream!Give(BatchSize)
      <3>1. MaxSegPackets > 0 => Len(buf) < MaxSegPackets
        BY <1>5 DEF WriteTs, BoundInv
      <3>2. QED BY <2>3, <2>4, <2>5, <3>1 DEF Stream!Give
    <2>7. QED BY <1>1, <2>2, <2>6 DEF Stream!SNext
  <1>6. CASE Measure
    <2>1. \/ pc' = "close" /\ caller' = "due" /\ batch' = batch
          \/ pc' = "recv" /\ batch' = <<>>
      BY <1>6 DEF Measure
    <2>2. pc = "measure" /\ InWrite /\ Unwritten' = <<>>
      BY <1>6, <2>1 DEF Measure, InWrite, Unwritten, Closing
    <2>3. BatchInv'
      <3>1. CASE pc' = "close" /\ caller' = "due" /\ batch' = batch
        BY <1>6, <2>2, <3>1 DEF Measure, BatchInv, InWrite
      <3>2. CASE pc' = "recv" /\ batch' = <<>>
        <4>1. next' = next /\ ~InWrite'
          BY <1>6, <3>2 DEF Measure, InWrite, Closing
        <4>2. QED BY <1>1, <3>2, <4>1 DEF BatchInv
      <3>3. QED BY <2>1, <3>1, <3>2
    <2>4. QED BY <1>2, <1>6, <2>2, <2>3 DEF Measure, Unwritten
  <1>7. CASE CutSegment
    <2>1. BatchInv' /\ Unwritten' = Unwritten
      BY <1>7, BatchInside DEF CutSegment, Closing
    <2>2. Stream!Cut
      BY <1>7, <2>1 DEF CutSegment, TakeBuffer, Stream!Cut
    <2>3. QED BY <2>1, <2>2 DEF Stream!SNext
  <1>8. CASE UploadSegment \/ Presign \/ RecordSegment \/ PublishHour
    <2>1. BatchInv' /\ Unwritten' = Unwritten
      BY <1>8, BatchInside
         DEF UploadSegment, Presign, RecordSegment, PublishHour, Closing
    <2>2. QED
      BY <1>2, <1>8, <2>1 DEF UploadSegment, Presign, RecordSegment, PublishHour
  <1>9. CASE Advance
    <2>1. BatchInv' /\ Len(Unwritten') = Len(Unwritten)
      <3>1. CASE HasFile(localM3u8')
        BY <1>9, <3>1, BatchInside DEF Advance, UploadIndex, Closing
      <3>2. CASE ~HasFile(localM3u8')
        BY <1>1, <1>9, <3>2, BatchFinish DEF Advance, UploadIndex
      <3>3. QED BY <3>1, <3>2
    <2>2. QED BY <1>2, <1>9, <2>1 DEF Advance
  <1>10. CASE PublishIndex
    <2>1. FinishClose /\ liveIndex' \in {liveIndex, localM3u8}
      BY <1>10 DEF PublishIndex, MayFail
    <2>2. BatchInv' /\ Len(Unwritten') = Len(Unwritten)
      BY <1>1, <1>10, <2>1, BatchFinish DEF PublishIndex
    <2>3. next' = next /\ buf' = buf /\ closed' = closed
      BY <1>10 DEF PublishIndex
    <2>4. CASE liveIndex' = liveIndex
      BY <1>2, <2>2, <2>3, <2>4
    <2>5. CASE liveIndex' = localM3u8
      <3>1. /\ localM3u8 \in Playlist /\ liveIndex \in Playlist
            /\ localM3u8.entries # <<>> /\ Len(closed) = segIndex
            /\ Behind(localM3u8, segIndex - Len(playlist), segIndex)
            /\ Behind(liveIndex, localM3u8.seq, localM3u8.seq + Len(localM3u8.entries))
            /\ segIndex \in Nat /\ closed \in Seq(Segment)
        BY <1>10 DEF PublishIndex, WindowInv, PlaylistRun, ListRun, TypeInv, TypeOK, Numbering,
           Cutting, LastListed, Listing
      <3>2. /\ localM3u8.seq + 1 \in first..Len(closed)
            /\ localM3u8.seq + Len(localM3u8.entries) \in last..Len(closed)
            /\ localM3u8.seq + 1 <= localM3u8.seq + Len(localM3u8.entries)
        BY <3>1 DEF Behind, Playlist
      <3>3. Stream!List
        BY <2>2, <2>3, <2>5, <3>2 DEF Stream!List
      <3>4. QED BY <2>2, <3>3 DEF Stream!SNext
    <2>6. QED BY <2>1, <2>4, <2>5
  <1>11. CASE ConsumerPop \/ Tick
    BY <1>2, <1>11 DEF ConsumerPop, Tick, BatchInv, Unwritten, InWrite
  <1>12. CASE Kill
    <2>1. ~InWrite' /\ batch' = Unwritten /\ next' = next
      BY <1>12 DEF Kill, InWrite, Closing
    <2>2. BatchInv'
      BY <1>1, <1>12, <2>1 DEF Kill, BatchInv, Unwritten
    <2>3. QED BY <1>2, <1>12, <2>1, <2>2 DEF Kill, Unwritten
  <1>13. CASE UNCHANGED vars
    BY <1>2, <1>13 DEF vars, BatchInv, Unwritten, InWrite
  <1>14. QED
    BY <1>3, <1>4, <1>5, <1>6, <1>7, <1>8, <1>9, <1>10, <1>11, <1>12, <1>13
       DEF Next, Close, Terminated

(* While no close returns early, the segmenter, killed or not, implements  *)
(* the abstract recording: no packet it was given is lost, repeated or     *)
(* reordered by cutting, no segment outgrows its limit, and the listing    *)
(* moves forward over segments that exist.                                 *)
THEOREM ImplementsStream ==
    ASSUME "index_open" \notin Faults
    PROVE  Spec => StreamImplemented
<1>1. Init => Stream!SInit
  <2> SUFFICES ASSUME Init PROVE Stream!SInit
    OBVIOUS
  <2>1. Unwritten = <<>> /\ next = 0
    BY DEF Init, Unwritten
  <2>2. liveIndex.seq = 0 /\ liveIndex.entries = <<>>
    BY DEF Init, NoPlaylist
  <2>3. /\ next - Len(Unwritten) = 0
        /\ liveIndex.seq + 1 = 1 /\ liveIndex.seq + Len(liveIndex.entries) = 0
    <3>1. Len(Unwritten) = 0
      BY <2>1
    <3>2. Len(liveIndex.entries) = 0
      BY <2>2
    <3>3. next - Len(Unwritten) = 0
      <4>1. next = 0
        BY <2>1
      <4>2. QED BY ONLY <3>1, <4>1
    <3>4. liveIndex.seq + 1 = 1
      BY <2>2
    <3>5. liveIndex.seq + Len(liveIndex.entries) = 0
      BY <2>2, <3>2
    <3>6. QED BY <3>3, <3>4, <3>5
  <2>4. buf = <<>> /\ closed = <<>>
    BY DEF Init
  <2>5. QED BY <2>3, <2>4 DEF Stream!SInit
<1>2. Spec => []WindowInv
  BY WindowInit, WindowStep, PTL DEF Spec
<1>3. Spec => []BoundInv
  <2>1. TypeInv /\ BoundInv /\ [Next]_vars => BoundInv'
    BY BoundStep
  <2>2. WindowInv => TypeInv
    BY DEF WindowInv
  <2>3. QED BY <1>2, <2>1, <2>2, BoundInit, PTL DEF Spec
<1>4. WindowInv /\ WindowInv' /\ BatchInv /\ BoundInv /\ [Next]_vars
        => BatchInv' /\ [Stream!SNext]_(Stream!svars)
  BY BatchStep
<1>5. QED
  BY <1>1, <1>2, <1>3, <1>4, BatchInit, PTL
     DEF Spec, StreamImplemented, Stream!StreamSpec

-----------------------------------------------------------------------------
(* The published playlist is up to date when nothing fails.                *)

(* The file and its published copy end with the last segment cut: the file *)
(* when it is uploaded, the copy from the end of one close to the next cut.*)
UpToDate(p) == p.entries # <<>> /\ p.seq + Len(p.entries) = Len(closed)

ListedInv ==
    /\ pc = "index_put" => UpToDate(localM3u8)
    /\ pc \notin Cutting \cup {"dead", "index_put"} /\ closed # <<>>
         => UpToDate(liveIndex)

LEMMA ListedInit == Init => ListedInv
  BY DEF Init, ListedInv, Cutting

LEMMA ListedStep ==
    ASSUME Faults \cap {"m3u8_write", "index_open", "index_put"} = {},
           WindowInv, ListedInv, [Next]_vars
    PROVE  ListedInv'
  <1> USE DEF loopVars, segVars, hourVars, histVars
  <1>1. TypeInv /\ TypeOK /\ Numbering
    BY DEF WindowInv, TypeInv
  <1>2. ASSUME UNCHANGED <<closed, localM3u8, liveIndex>>,
               pc' \in Cutting \cup {"dead"}
               \/ (pc \notin Cutting \cup {"dead", "index_put"} /\ pc' # "index_put")
               \/ pc' = pc
        PROVE  ListedInv'
    BY <1>2 DEF ListedInv, UpToDate, Cutting
  <1>3. CASE Receive
    BY <1>2, <1>3 DEF Receive, Cutting
  <1>4. CASE Stop \/ Disconnect
    BY <1>2, <1>4 DEF Stop, Disconnect, Cutting
  <1>5. CASE WriteTs
    BY <1>2, <1>5 DEF WriteTs, Cutting
  <1>6. CASE Measure
    <2>1. pc = "measure" /\ pc' \in {"close", "recv"}
      BY <1>6 DEF Measure
    <2>2. QED BY <1>2, <1>6, <2>1 DEF Measure, Cutting
  <1>7. CASE CutSegment
    BY <1>7 DEF CutSegment, ListedInv, Cutting
  <1>8. CASE UploadSegment \/ Presign \/ RecordSegment \/ PublishHour
    <2>1. pc' \in Cutting /\ UNCHANGED <<closed, localM3u8, liveIndex>>
      BY <1>8 DEF UploadSegment, Presign, RecordSegment, PublishHour, Cutting
    <2>2. QED BY <1>2, <2>1
  <1>9. CASE Advance
    <2>1. localM3u8' = [seq |-> SeqStart(segIndex'), entries |-> playlist]
      BY <1>9 DEF Advance, MayFail
    <2>2. /\ segIndex \in Nat /\ playlist \in Seq(PlaylistEntry) /\ playlist # <<>>
          /\ Len(playlist) <= segIndex + 1 /\ Len(closed) = segIndex + 1
          /\ segIndex' = segIndex + 1 /\ closed' = closed
      BY <1>1, <1>9
         DEF Advance, TypeOK, WindowInv, PlaylistRun, ListRun, LastListed, Listing, Numbering, Cutting
    <2>3. SeqStart(segIndex') = segIndex + 1 - Len(playlist)
      BY <2>2 DEF SeqStart
    <2>4. UpToDate(localM3u8)'
      BY <2>1, <2>2, <2>3 DEF UpToDate
    <2>5. pc' = "index_put"
      BY <1>9, <2>1, <2>2 DEF Advance, UploadIndex, HasFile
    <2>6. QED BY <2>4, <2>5 DEF ListedInv
  <1>10. CASE PublishIndex
    <2>1. liveIndex' = localM3u8 /\ FinishClose /\ pc = "index_put" /\ closed' = closed
      BY <1>10 DEF PublishIndex, MayFail
    <2>2. UpToDate(liveIndex)'
      BY <2>1 DEF ListedInv, UpToDate
    <2>3. pc' # "index_put"
      BY <1>1, <2>1, TypeFinishClose
    <2>4. QED BY <2>2, <2>3 DEF ListedInv
  <1>11. CASE ConsumerPop \/ Tick
    BY <1>2, <1>11 DEF ConsumerPop, Tick
  <1>12. CASE Kill
    BY <1>2, <1>12 DEF Kill
  <1>13. CASE UNCHANGED vars
    BY <1>2, <1>13 DEF vars
  <1>14. QED
    BY <1>3, <1>4, <1>5, <1>6, <1>7, <1>8, <1>9, <1>10, <1>11, <1>12, <1>13
       DEF Next, Close, Terminated

(* When the local playlist can be written and published, whatever else     *)
(* fails in S3, the main loop is never back at its channel while the       *)
(* published playlist lacks the last segment cut.                          *)
THEOREM ListedWhenHealthyCorrect == Spec => []ListedWhenHealthy
<1> DEFINE Healthy == Faults \cap {"m3u8_write", "index_open", "index_put"} = {}
<1>1. Spec => []WindowInv
  BY WindowInit, WindowStep, PTL DEF Spec
<1>2. Healthy /\ WindowInv /\ ListedInv /\ [Next]_vars => ListedInv'
  BY ListedStep
<1>3. WindowInv /\ ListedInv => ListedWhenHealthy
  <2> SUFFICES ASSUME WindowInv, ListedInv, pc \in {"recv", "done"}, closed # <<>>
               PROVE  liveIndex.entries # <<>> /\ Last(liveIndex.entries).num = Len(closed)
    BY DEF ListedWhenHealthy
  <2>1. UpToDate(liveIndex)
    BY DEF ListedInv, Cutting
  <2>2. liveIndex.entries \in Seq(PlaylistEntry) /\ liveIndex.seq \in Nat
    BY DEF WindowInv, TypeInv, TypeOK, Playlist
  <2>3. Len(liveIndex.entries) \in DOMAIN liveIndex.entries
    BY <2>1, <2>2 DEF UpToDate
  <2>4. liveIndex.entries[Len(liveIndex.entries)].num
          = liveIndex.seq + Len(liveIndex.entries)
    BY <2>3 DEF WindowInv, WindowConsecutive
  <2>5. QED BY <2>1, <2>4 DEF UpToDate, Last
<1>4. ~Healthy => ListedWhenHealthy
  BY DEF ListedWhenHealthy
<1>5. CASE Healthy
  <2>1. WindowInv /\ ListedInv /\ [Next]_vars => ListedInv'
    BY <1>2, <1>5
  <2>2. Spec => []ListedInv
    BY <1>1, <2>1, ListedInit, PTL DEF Spec
  <2>3. QED BY <1>1, <1>3, <2>2, PTL
<1>6. CASE ~Healthy
  <2>1. ListedWhenHealthy
    BY <1>4, <1>6
  <2>2. QED BY <2>1, PTL
<1>7. QED BY <1>5, <1>6

-----------------------------------------------------------------------------
(* The hours.                                                              *)

(* Sorting leaves a list alone whose sequence ids increase.                *)
Increasing(s) == \A i, j \in DOMAIN s : i < j => s[i].seq < s[j].seq

LEMMA SortedAlready ==
    ASSUME NEW s \in Seq(HourEntry), Increasing(s)
    PROVE  BySequence(s) = s
  <1> DEFINE Before(e) == {i \in DOMAIN s : s[i].seq < e.seq}
             At(k) == CHOOSE e \in Range(s) : Cardinality(Before(e)) = k - 1
  <1>1. Len(s) \in Nat /\ DOMAIN s = 1..Len(s)
    OBVIOUS
  <1>2. \A i \in 1..Len(s) : s[i].seq \in Nat
    <2>1. \A i \in 1..Len(s) : s[i] \in HourEntry
      BY ElementOfSeq
    <2>2. QED BY <2>1 DEF HourEntry
  <1>3. ASSUME NEW m \in 1..Len(s)
        PROVE  Cardinality(Before(s[m])) = m - 1
    <2>1. Before(s[m]) = 1..(m - 1)
      <3>1. ASSUME NEW i \in 1..Len(s)
            PROVE  s[i].seq < s[m].seq <=> i < m
        <4>1. CASE i < m
          BY <1>1, <3>1, <4>1 DEF Increasing
        <4>2. CASE i = m
          BY <1>2, <4>2
        <4>3. CASE m < i
          <5>1. s[m].seq < s[i].seq
            BY <1>1, <3>1, <4>3 DEF Increasing
          <5>2. s[m].seq \in Nat /\ s[i].seq \in Nat
            BY <1>2
          <5>3. QED BY <4>3, <5>1, <5>2
        <4>4. QED BY <4>1, <4>2, <4>3
      <3>2. QED BY <1>1, <3>1
    <2>2. Cardinality(1..(m - 1)) = m - 1
      BY FS_Interval
    <2>3. QED BY <2>1, <2>2
  <1>4. ASSUME NEW k \in 1..Len(s)
        PROVE  At(k) = s[k]
    <2>1. s[k] \in Range(s) /\ Cardinality(Before(s[k])) = k - 1
      BY <1>1, <1>3 DEF Range
    <2>2. ASSUME NEW e \in Range(s), Cardinality(Before(e)) = k - 1
          PROVE  e = s[k]
      <3>1. PICK m \in 1..Len(s) : e = s[m]
        BY <1>1 DEF Range
      <3>2. Cardinality(Before(s[m])) = m - 1
        BY <1>3
      <3> HIDE DEF Before
      <3>3. m - 1 = k - 1
        BY <2>2, <3>1, <3>2
      <3>4. m = k
        BY <3>3
      <3>5. QED BY <3>1, <3>4
    <2> HIDE DEF Before
    <2>3. QED BY <2>1, <2>2
  <1>5. BySequence(s) = [k \in 1..Len(s) |-> At(k)]
    BY <1>1 DEF BySequence
  <1> HIDE DEF At
  <1>6. [k \in 1..Len(s) |-> At(k)] = [k \in 1..Len(s) |-> s[k]]
    BY <1>4
  <1>7. s = [k \in 1..Len(s) |-> s[k]]
    OBVIOUS
  <1>8. QED BY <1>5, <1>6, <1>7

(* HoursOrdered needs that ids have been given up to seqId only, that no   *)
(* hour to come has an entry yet, and that the present one ends with the   *)
(* last id.                                                                *)
EntriesInHours ==
    \A h \in Hours : \A i \in DOMAIN hourMap[h] :
        LET e == hourMap[h][i]
        IN  /\ e.seq = e.num /\ e.seq <= seqId
            /\ HourOf(e.at) <= h /\ h <= HourOf(clock)

HoursIncrease ==
    \A g, h \in Hours : \A i \in DOMAIN hourMap[g], j \in DOMAIN hourMap[h] :
        g < h \/ (g = h /\ i < j) => hourMap[g][i].seq < hourMap[h][j].seq

NoGap(s) == \A i \in DOMAIN s : s[i].seq = s[1].seq + i - 1

HoursInv ==
    /\ startTime # NoTime => startTime <= clock
    /\ EntriesInHours /\ HoursIncrease
    /\ "presign" \notin Faults =>
         /\ \A h \in Hours : NoGap(hourMap[h]) /\ NoGap(hourIndex[h])
         /\ LET now == hourMap[HourOf(clock)]
            IN  now # <<>> => now[Len(now)].seq = seqId

LEMMA HoursInit == Init => HoursInv
  <1> SUFFICES ASSUME Init PROVE HoursInv
    OBVIOUS
  <1>1. clock = 0 /\ HourOf(clock) \in Hours
    BY SegmenterAssumption DEF Init
  <1>2. \A h \in Hours : hourMap[h] = <<>> /\ hourIndex[h] = <<>>
    BY DEF Init
  <1>3. startTime = NoTime
    BY DEF Init
  <1>4. QED
    BY <1>1, <1>2, <1>3 DEF HoursInv, EntriesInHours, HoursIncrease, NoGap

(* The entry of the closing segment has the next id; it goes to the end of *)
(* the present hour.                                                       *)
LEMMA HoursFile ==
    ASSUME TypeInv, HoursInv, pc = "record", hourMap' = File(HourOf(clock)),
           seqId' = seqId + 1, UNCHANGED <<clock, startTime, hourIndex>>
    PROVE  HoursInv'
  <1> DEFINE now == HourOf(clock)
             old == hourMap[now]
             e == HourlyEntry
  <1>1. /\ seqId \in Nat /\ segIndex \in Nat /\ seqId = segIndex
        /\ clock \in 0..MaxClock /\ now \in Hours /\ Hours \subseteq Nat
        /\ hourMap \in [Hours -> Seq(HourEntry)] /\ old \in Seq(HourEntry)
    <2>1. seqId = segIndex
      BY DEF TypeInv, TypeOK, Numbering, Cutting, Listing
    <2>2. /\ seqId \in Nat /\ segIndex \in Nat /\ clock \in 0..MaxClock
          /\ hourMap \in [Hours -> Seq(HourEntry)]
      BY DEF TypeInv, TypeOK
    <2>3. now \in Hours /\ Hours \subseteq Nat
      BY <2>2, SegmenterAssumption
    <2>4. old \in Seq(HourEntry)
      BY <2>2, <2>3
    <2>5. QED BY <2>1, <2>2, <2>3, <2>4
  <1>2. /\ e.seq = seqId + 1 /\ e.num = seqId + 1 /\ HourOf(e.at) <= now
    <2>1. /\ e.at \in 0..MaxClock /\ e.at <= clock
      BY <1>1 DEF HourlyEntry, SegmentKey, TypeInv, TypeOK, HoursInv
    <2>2. HourOf(e.at) <= now
      BY <1>1, <2>1, HoursMonotone
    <2>3. QED BY <1>1, <2>2 DEF HourlyEntry
  <1>3. /\ e \in HourEntry
        /\ hourMap'[now] = Append(old, e)
        /\ \A h \in Hours : h # now => hourMap'[h] = hourMap[h]
    <2>1. e \in HourEntry
      BY <1>1 DEF HourlyEntry, HourEntry, SegmentKey, TypeInv, TypeOK
    <2>2. QED BY <1>1, <2>1 DEF File
  <1> HIDE DEF e
  <1>4. ASSUME NEW h \in Hours, NEW i \in DOMAIN hourMap'[h]
        PROVE  \/ h = now /\ i = Len(old) + 1 /\ hourMap'[h][i] = e
               \/ i \in DOMAIN hourMap[h] /\ hourMap'[h][i] = hourMap[h][i]
    <2>1. CASE h = now
      <3>1. i \in 1..(Len(old) + 1) /\ DOMAIN old = 1..Len(old) /\ Len(old) \in Nat
        BY <1>1, <1>3, <1>4, <2>1, AppendProperties, LenProperties
      <3>2. QED BY <1>1, <1>3, <2>1, <3>1, AppendProperties
    <2>2. CASE h # now
      BY <1>3, <1>4, <2>2
    <2>3. QED BY <2>1, <2>2
  <1>5. \A h \in Hours : \A i \in DOMAIN hourMap[h] :
          /\ hourMap[h][i].seq = hourMap[h][i].num /\ hourMap[h][i].seq <= seqId
          /\ HourOf(hourMap[h][i].at) <= h /\ h <= now /\ hourMap[h][i].seq \in Nat
    <2>1. ASSUME NEW h \in Hours, NEW i \in DOMAIN hourMap[h]
          PROVE  hourMap[h][i].seq \in Nat
      <3>1. hourMap[h] \in Seq(HourEntry)
        BY <1>1
      <3>2. hourMap[h][i] \in HourEntry
        BY <3>1, ElementOfSeq
      <3>3. QED BY <3>2 DEF HourEntry
    <2>2. QED BY <2>1 DEF HoursInv, EntriesInHours
  <1>6. EntriesInHours'
    <2>1. ASSUME NEW h \in Hours, NEW i \in DOMAIN hourMap'[h]
          PROVE  /\ hourMap'[h][i].seq = hourMap'[h][i].num
                 /\ hourMap'[h][i].seq <= seqId + 1
                 /\ HourOf(hourMap'[h][i].at) <= h /\ h <= now
      <3>1. CASE h = now /\ hourMap'[h][i] = e
        BY <1>1, <1>2, <3>1
      <3>2. CASE i \in DOMAIN hourMap[h] /\ hourMap'[h][i] = hourMap[h][i]
        BY <1>1, <1>5, <3>2
      <3>3. QED BY <1>4, <3>1, <3>2
    <2>2. HourOf(clock') = now
      OBVIOUS
    <2>3. QED BY <2>1, <2>2 DEF EntriesInHours
  <1>7. HoursIncrease'
    <2> SUFFICES ASSUME NEW g \in Hours, NEW h \in Hours,
                        NEW i \in DOMAIN hourMap'[g], NEW j \in DOMAIN hourMap'[h],
                        g < h \/ (g = h /\ i < j)
                 PROVE  hourMap'[g][i].seq < hourMap'[h][j].seq
      BY DEF HoursIncrease
    <2>1. CASE i \in DOMAIN hourMap[g] /\ hourMap'[g][i] = hourMap[g][i]
      <3>1. CASE h = now /\ hourMap'[h][j] = e
        BY <1>1, <1>2, <1>5, <2>1, <3>1
      <3>2. CASE j \in DOMAIN hourMap[h] /\ hourMap'[h][j] = hourMap[h][j]
        BY <2>1, <3>2 DEF HoursInv, HoursIncrease
      <3>3. QED BY <1>4, <3>1, <3>2
    <2>2. CASE g = now /\ i = Len(old) + 1
      <3>1. CASE h = now /\ j = Len(old) + 1
        BY <1>1, <2>2, <3>1
      <3>2. CASE j \in DOMAIN hourMap[h]
        <4>1. h <= now /\ now \in Nat /\ h \in Nat
          BY <1>1, <1>5, <3>2
        <4>2. g = h /\ i < j
          BY <2>2, <4>1
        <4>3. j \in 1..Len(old)
          BY <1>1, <2>2, <3>2, <4>2
        <4>4. QED BY <1>1, <2>2, <4>2, <4>3
      <3>3. QED BY <1>4, <3>1, <3>2
    <2>3. QED BY <1>4, <2>1, <2>2
  <1>8. ASSUME "presign" \notin Faults
        PROVE  /\ \A h \in Hours : NoGap(hourMap[h])' /\ NoGap(hourIndex[h])'
               /\ hourMap'[now] # <<>> => hourMap'[now][Len(hourMap'[now])].seq = seqId'
    <2>1. /\ \A h \in Hours : NoGap(hourMap[h]) /\ NoGap(hourIndex[h])
          /\ old # <<>> => old[Len(old)].seq = seqId
      BY <1>8 DEF HoursInv
    <2>2. Len(hourMap'[now]) = Len(old) + 1 /\ hourMap'[now][Len(old) + 1] = e
      BY <1>1, <1>3, AppendProperties
    <2>3. NoGap(hourMap'[now])
      <3> SUFFICES ASSUME NEW i \in DOMAIN hourMap'[now]
                   PROVE  hourMap'[now][i].seq = hourMap'[now][1].seq + i - 1
        BY DEF NoGap
      <3>1. CASE old = <<>>
        <4>1. Len(old) = 0 /\ i = 1
          BY <1>1, <1>4, <3>1
        <4>2. hourMap'[now][1] = e
          BY <2>2, <4>1
        <4>3. QED BY <1>1, <1>2, <4>1, <4>2
      <3>2. CASE old # <<>>
        <4>1. Len(old) \in Nat /\ 1 \in 1..Len(old) /\ Len(old) \in 1..Len(old)
          BY <1>1, <3>2, EmptySeq
        <4>2. hourMap'[now][1] = old[1] /\ DOMAIN old = 1..Len(old)
          BY <1>1, <1>3, <4>1, AppendProperties
        <4>3. seqId = old[1].seq + Len(old) - 1 /\ old[1].seq \in Nat
          <5>1. old[Len(old)].seq = seqId
            BY <2>1, <3>2
          <5>2. old[Len(old)].seq = old[1].seq + Len(old) - 1
            BY <1>1, <2>1, <4>1, <4>2 DEF NoGap
          <5>3. old[1].seq \in Nat
            BY <1>1, <1>5, <4>1, <4>2
          <5>4. QED BY <5>1, <5>2, <5>3
        <4>4. CASE i = Len(old) + 1
          BY <1>1, <1>2, <2>2, <4>1, <4>2, <4>3, <4>4
        <4>5. CASE i \in DOMAIN old /\ hourMap'[now][i] = old[i]
          BY <1>1, <2>1, <4>2, <4>5 DEF NoGap
        <4>6. QED BY <1>1, <1>4, <4>4, <4>5
      <3>3. QED BY <3>1, <3>2
    <2>4. \A h \in Hours : NoGap(hourMap'[h]) /\ NoGap(hourIndex'[h])
      BY <1>3, <2>1, <2>3
    <2>5. hourMap'[now][Len(hourMap'[now])].seq = seqId'
      BY <1>2, <2>2
    <2>6. QED BY <2>4, <2>5
  <1>9. startTime' # NoTime => startTime' <= clock'
    BY DEF HoursInv
  <1>10. HourOf(clock') = now
    OBVIOUS
  <1> HIDE DEF now
  <1>11. QED BY <1>6, <1>7, <1>8, <1>9, <1>10 DEF HoursInv

(* What PublishHour puts in S3 is the list of the hour.                    *)
LEMMA PublishedHour ==
    ASSUME TypeInv, HoursInv, PublishHour
    PROVE  /\ seg.hour \in Hours /\ hourMap' = hourMap
           /\ SortedHour = [hourIndex EXCEPT ![seg.hour] = hourMap[seg.hour]]
           /\ hourIndex' \in {hourIndex, SortedHour}
           /\ urlsLog' = urlsLog
              \/ (urlsLog' = urlsLog \cup {seg.hour} /\ hourIndex' = SortedHour)
  <1>1. /\ seg.hour \in Hours /\ hourMap' = hourMap /\ hourMap[seg.hour] \in Seq(HourEntry)
    BY DEF PublishHour, TypeInv, TypeOK
  <1>2. Increasing(hourMap[seg.hour])
    BY <1>1 DEF Increasing, HoursInv, HoursIncrease
  <1>3. SortedHour = [hourIndex EXCEPT ![seg.hour] = hourMap[seg.hour]]
    BY <1>1, <1>2, SortedAlready DEF SortedHour
  <1>4. QED BY <1>1, <1>3 DEF PublishHour, PutHour

(* Steps that only the clock, the start of a segment or the filing of one  *)
(* can show in the hours.                                                  *)
LEMMA HoursStep == TypeInv /\ HoursInv /\ [Next]_vars => HoursInv'
  <1> SUFFICES ASSUME TypeInv, HoursInv, [Next]_vars PROVE HoursInv'
    OBVIOUS
  <1> USE DEF loopVars, segVars, hourVars, histVars
  <1>1. /\ clock \in 0..MaxClock /\ seqId \in Nat
        /\ pc = "hourly_put" => seg.hour \in Hours
        /\ hourMap \in [Hours -> Seq(HourEntry)] /\ DOMAIN hourIndex = Hours
        /\ HourOf(clock) \in Hours /\ Hours \subseteq Nat
    BY SegmenterAssumption DEF TypeInv, TypeOK
  <1>2. ASSUME UNCHANGED <<clock, seqId, hourMap>>,
               startTime' = startTime \/ startTime' = NoTime \/ startTime' = clock,
               "presign" \notin Faults => \A h \in Hours : NoGap(hourIndex'[h])
        PROVE  HoursInv'
    <2>1. startTime' # NoTime => startTime' <= clock'
      BY <1>1, <1>2 DEF HoursInv
    <2>2. EntriesInHours' /\ HoursIncrease'
      BY <1>2 DEF HoursInv, EntriesInHours, HoursIncrease
    <2>3. QED BY <1>2, <2>1, <2>2 DEF HoursInv
  <1>3. ASSUME UNCHANGED <<clock, startTime, hourVars>>
        PROVE  HoursInv'
    BY <1>3 DEF HoursInv, EntriesInHours, HoursIncrease
  <1>4. CASE Receive
    BY <1>3, <1>4 DEF Receive
  <1>5. CASE Stop \/ Disconnect
    BY <1>3, <1>5 DEF Stop, Disconnect
  <1>6. CASE WriteTs
    <2>1. startTime' = startTime \/ startTime' = clock
      BY <1>6 DEF WriteTs
    <2>2. QED BY <1>2, <1>6, <2>1 DEF WriteTs, HoursInv
  <1>7. CASE Measure \/ CutSegment \/ UploadSegment \/ Presign
    BY <1>3, <1>7 DEF Measure, CutSegment, UploadSegment, Presign
  <1>8. CASE RecordSegment
    <2>1. /\ pc = "record" /\ seqId' = seqId + 1
          /\ UNCHANGED <<clock, startTime, hourIndex>>
      BY <1>8 DEF RecordSegment
    <2>2. CASE hourMap' = File(HourOf(clock))
      BY <2>1, <2>2, HoursFile
    <2>3. CASE MayFail("presign") /\ UNCHANGED hourMap
      <3>1. "presign" \in Faults
        BY <2>3 DEF MayFail
      <3>2. \A h \in Hours : \A i \in DOMAIN hourMap[h] : hourMap[h][i].seq \in Nat
        <4> SUFFICES ASSUME NEW h \in Hours, NEW i \in DOMAIN hourMap[h]
                     PROVE  hourMap[h][i].seq \in Nat
          OBVIOUS
        <4>1. hourMap[h] \in Seq(HourEntry)
          BY <1>1
        <4>2. hourMap[h][i] \in HourEntry
          BY <4>1, ElementOfSeq
        <4>3. QED BY <4>2 DEF HourEntry
      <3>3. EntriesInHours'
        <4>1. \A h \in Hours : \A i \in DOMAIN hourMap[h] :
                /\ hourMap[h][i].seq = hourMap[h][i].num
                /\ hourMap[h][i].seq <= seqId + 1
                /\ HourOf(hourMap[h][i].at) <= h /\ h <= HourOf(clock)
          BY <1>1, <3>2 DEF HoursInv, EntriesInHours
        <4>2. QED BY <2>1, <2>3, <4>1 DEF EntriesInHours
      <3>4. HoursIncrease'
        BY <2>3 DEF HoursInv, HoursIncrease
      <3>5. QED BY <2>1, <3>1, <3>3, <3>4 DEF HoursInv
    <2>4. QED BY <1>8, <2>2, <2>3 DEF RecordSegment
  <1>9. CASE PublishHour
    <2>1. hourIndex' \in {hourIndex, SortedHour} /\ seg.hour \in Hours
      BY <1>9, PublishedHour
    <2>2. SortedHour = [hourIndex EXCEPT ![seg.hour] = hourMap[seg.hour]]
      BY <1>9, PublishedHour
    <2>3. "presign" \notin Faults => \A h \in Hours : NoGap(hourIndex'[h])
      <3> SUFFICES ASSUME "presign" \notin Faults, NEW h \in Hours
                   PROVE  NoGap(hourIndex'[h])
        OBVIOUS
      <3>1. hourIndex'[h] \in {hourIndex[h], hourMap[h]}
        BY <1>1, <2>1, <2>2
      <3>2. QED BY <3>1 DEF HoursInv
    <2>4. QED BY <1>2, <1>9, <2>3 DEF PublishHour
  <1>10. CASE Advance
    <2>1. UNCHANGED <<clock, hourVars>> /\ startTime' = NoTime
      BY <1>10 DEF Advance
    <2>2. QED BY <1>2, <2>1 DEF HoursInv
  <1>11. CASE PublishIndex \/ ConsumerPop \/ Kill
    BY <1>3, <1>11 DEF PublishIndex, ConsumerPop, Kill
  <1>12. CASE Tick
    <2>1. /\ clock' = clock + 1 /\ clock' \in 0..MaxClock
          /\ UNCHANGED <<startTime, seqId, hourMap, hourIndex>>
      BY <1>1, <1>12, SegmenterAssumption DEF Tick
    <2>2. HourOf(clock') \in Hours /\ HourOf(clock) <= HourOf(clock')
      BY <1>1, <2>1, SegmenterAssumption, HoursMonotone
    <2>3. startTime' # NoTime => startTime' <= clock'
      BY <1>1, <2>1 DEF HoursInv, TypeInv, TypeOK
    <2>4. EntriesInHours'
      <3>1. \A h \in Hours : \A i \in DOMAIN hourMap[h] :
              /\ hourMap[h][i].seq = hourMap[h][i].num /\ hourMap[h][i].seq <= seqId
              /\ HourOf(hourMap[h][i].at) <= h /\ h <= HourOf(clock')
        <4> SUFFICES ASSUME NEW h \in Hours, NEW i \in DOMAIN hourMap[h]
                     PROVE  /\ hourMap[h][i].seq = hourMap[h][i].num
                            /\ hourMap[h][i].seq <= seqId
                            /\ HourOf(hourMap[h][i].at) <= h /\ h <= HourOf(clock')
          OBVIOUS
        <4>1. /\ hourMap[h][i].seq = hourMap[h][i].num /\ hourMap[h][i].seq <= seqId
              /\ HourOf(hourMap[h][i].at) <= h /\ h <= HourOf(clock)
          BY DEF HoursInv, EntriesInHours
        <4>2. \A a, b, c \in Nat : a <= b /\ b <= c => a <= c
          OBVIOUS
        <4>3. h <= HourOf(clock')
          BY <1>1, <2>2, <4>1, <4>2
        <4>4. QED BY <4>1, <4>3
      <3>2. QED BY <2>1, <3>1 DEF EntriesInHours
    <2>5. HoursIncrease'
      BY <2>1 DEF HoursInv, HoursIncrease
    <2>6. "presign" \notin Faults /\ hourMap[HourOf(clock')] # <<>>
            => HourOf(clock') = HourOf(clock)
      <3> SUFFICES ASSUME hourMap[HourOf(clock')] # <<>>
                   PROVE  HourOf(clock') <= HourOf(clock)
        BY <1>1, <2>2
      <3>1. hourMap[HourOf(clock')] \in Seq(HourEntry)
        BY <1>1, <2>2
      <3>2. 1 \in DOMAIN hourMap[HourOf(clock')]
        BY <3>1
      <3>3. QED BY <2>2, <3>2 DEF HoursInv, EntriesInHours
    <2>7. QED BY <2>1, <2>3, <2>4, <2>5, <2>6 DEF HoursInv
  <1>13. CASE UNCHANGED vars
    BY <1>3, <1>13 DEF vars
  <1>14. QED
    BY <1>4, <1>5, <1>6, <1>7, <1>8, <1>9, <1>10, <1>11, <1>12, <1>13
       DEF Next, Close, Terminated

(* The hours partition the recording, whatever fails: ids grow across and  *)
(* inside the lists of the hours and number the segments, and no segment   *)
(* starts after its hour. With unsigned URLs no published index has a gap. *)
THEOREM HoursOrderedCorrect == Spec => []HoursOrdered
<1>1. Spec => []TypeInv
  BY TypeInit, TypeStep, PTL DEF Spec
<1>2. Spec => []HoursInv
  BY <1>1, HoursInit, HoursStep, PTL DEF Spec
<1>3. HoursInv => HoursOrdered
  BY DEF HoursInv, HoursOrdered, EntriesInHours, HoursIncrease, NoGap
<1>4. QED BY <1>2, <1>3, PTL

-----------------------------------------------------------------------------
(* What a graceful stop loses.                                             *)

(* While no close has returned early, every packet captured is in a        *)
(* segment cut, in the open one or in the batch that waits; that batch is  *)
(* short whenever finalize may run, and nothing is open once a close has   *)
(* cut, so that the last close leaves only the batch behind.               *)
Cuts == Len(FlattenSeq(closed))

LossInv ==
    ~openFailed =>
        /\ Cuts + Len(buf) + Len(Unwritten) = next
        /\ pc \in {"recv", "done"} \/ (pc \in Closing /\ caller \in {"disconnected", "final"})
             => Len(batch) < BatchSize
        /\ pc \in (Closing \ {"close"}) \cup {"done"} => buf = <<>>

LEMMA LossInit == Init => LossInv
  <1> SUFFICES ASSUME Init PROVE LossInv
    OBVIOUS
  <1>1. /\ closed = <<>> /\ buf = <<>> /\ batch = <<>> /\ next = 0
        /\ pc = "recv" /\ Unwritten = <<>>
    BY DEF Init, Unwritten
  <1>2. Len(<<>>) = 0
    OBVIOUS
  <1>3. Cuts = 0
    BY <1>1, <1>2, FlattenEmpty DEF Cuts
  <1>4. Cuts + Len(buf) + Len(Unwritten) = next
    <2>1. Len(buf) = 0 /\ Len(Unwritten) = 0 /\ next = 0
      BY <1>1, <1>2
    <2>2. QED BY ONLY <1>3, <2>1
  <1>5. Len(batch) < BatchSize
    BY <1>1, <1>2, SegmenterAssumption
  <1>6. QED BY <1>1, <1>4, <1>5 DEF LossInv, Closing

(* A close that runs to its end leaves the batch to write_ts or clears it. *)
LEMMA LossFinish ==
    ASSUME TypeInv, LossInv, FinishClose, pc \in {"advance", "index_put"},
           UNCHANGED <<next, buf, closed, openFailed>>
    PROVE  LossInv'
  <1> SUFFICES ASSUME ~openFailed PROVE LossInv'
    BY DEF LossInv
  <1>1. /\ caller \in Callers /\ batch \in Seq(Nat) /\ buf = <<>> /\ pc \in Closing
        /\ BatchSize \in Nat /\ BatchSize > 0
    BY SegmenterAssumption DEF TypeInv, TypeOK, LossInv, Closing
  <1>2. Cuts + Len(buf) + Len(Unwritten) = next /\ Cuts' = Cuts
    BY DEF LossInv, Cuts
  <1>3. CASE caller = "forced"
    <2>1. pc' = "measure" /\ caller' = caller /\ batch' = batch
      BY <1>3 DEF FinishClose, Return
    <2>2. Unwritten' = Unwritten
      BY <1>1, <1>3, <2>1 DEF Unwritten, InWrite
    <2>3. QED BY <1>2, <2>1, <2>2 DEF LossInv, Closing
  <1>4. CASE caller = "due"
    <2>1. pc' = "recv" /\ batch' = <<>>
      BY <1>4 DEF FinishClose, Return
    <2>2. Unwritten' = Unwritten
      BY <1>1, <1>4, <2>1 DEF Unwritten, InWrite
    <2>3. Len(batch') < BatchSize
      BY <1>1, <2>1
    <2>4. QED BY <1>2, <2>1, <2>2, <2>3 DEF LossInv, Closing
  <1>5. CASE caller \in {"disconnected", "final"}
    <2>1. Len(batch) < BatchSize
      BY <1>1, <1>5 DEF LossInv
    <2>2. /\ batch' = batch
          /\ (pc' = "close" /\ caller' = "final") \/ pc' = "done"
      BY <1>5 DEF FinishClose, Return
    <2>3. Unwritten' = Unwritten
      BY <1>1, <1>5, <2>2 DEF Unwritten, InWrite, Closing
    <2>4. QED BY <1>1, <1>2, <2>1, <2>2, <2>3 DEF LossInv
  <1>6. QED BY <1>1, <1>3, <1>4, <1>5 DEF Callers

LEMMA LossStep == TypeInv /\ LossInv /\ [Next]_vars => LossInv'
  <1> SUFFICES ASSUME TypeInv, LossInv, [Next]_vars, ~openFailed' PROVE LossInv'
    BY DEF LossInv
  <1> USE DEF loopVars, segVars, hourVars, histVars
  <1>1. /\ batch \in Seq(Nat) /\ buf \in Seq(Nat) /\ closed \in Seq(Seq(Nat))
        /\ caller \in Callers /\ next \in Nat /\ BatchSize \in Nat /\ BatchSize > 0
    BY SegmenterAssumption DEF TypeInv, TypeOK, Segment
  <1>2. ~openFailed
    BY DEF Next, vars, Receive, Stop, Disconnect, WriteTs, Measure, Close,
       CutSegment, UploadSegment, Presign, RecordSegment, PublishHour, Advance,
       PublishIndex, ConsumerPop, Tick, Kill, Terminated
  <1>3. /\ Cuts + Len(buf) + Len(Unwritten) = next
        /\ pc \in {"recv", "done"} \/ (pc \in Closing /\ caller \in {"disconnected", "final"})
             => Len(batch) < BatchSize
        /\ pc \in (Closing \ {"close"}) \cup {"done"} => buf = <<>>
    BY <1>2 DEF LossInv
  <1>4. Cuts \in Nat /\ Len(buf) \in Nat /\ Len(batch) \in Nat
    <2>1. FlattenSeq(closed) \in Seq(Nat)
      BY <1>1, FlattenType
    <2>2. QED BY <1>1, <2>1, LenProperties DEF Cuts
  <1>5. CASE Receive
    <2>1. /\ pc = "recv" /\ batch' = Append(batch, next + 1) /\ next' = next + 1
          /\ UNCHANGED <<buf, closed, caller>> /\ pc' \in {"write", "recv"}
          /\ pc' = "recv" => ~(Len(batch') >= BatchSize)
      BY <1>5 DEF Receive
    <2>2. Unwritten = batch /\ Unwritten' = batch'
      BY <2>1 DEF Unwritten, InWrite, Closing
    <2>3. Len(batch') = Len(batch) + 1
      BY <1>1, <2>1
    <2>4. Cuts' + Len(buf') + Len(Unwritten') = next'
      <3>1. Cuts' = Cuts /\ Len(buf') = Len(buf)
        BY <2>1 DEF Cuts
      <3>2. QED BY <1>1, <1>3, <1>4, <2>1, <2>2, <2>3, <3>1
    <2>5. pc' = "recv" => Len(batch') < BatchSize
      BY <1>1, <1>4, <2>1, <2>3
    <2>6. QED BY <2>1, <2>4, <2>5 DEF LossInv, Closing
  <1>6. CASE Stop \/ Disconnect
    <2>1. /\ pc = "recv" /\ pc' = "close" /\ caller' \in {"disconnected", "final"}
          /\ UNCHANGED <<next, batch, buf, closed>>
      BY <1>6 DEF Stop, Disconnect
    <2>2. Unwritten' = Unwritten
      BY <2>1 DEF Unwritten, InWrite, Closing
    <2>3. QED BY <1>3, <2>1, <2>2 DEF LossInv, Cuts
  <1>7. CASE WriteTs
    <2>1. /\ pc = "write" /\ buf' = buf \o batch /\ UNCHANGED <<next, batch, closed>>
          /\ (pc' = "close" /\ caller' = "forced") \/ pc' = "measure"
      BY <1>7 DEF WriteTs, Join
    <2>2. Unwritten = batch /\ Unwritten' = <<>>
      BY <2>1 DEF Unwritten, InWrite, Closing
    <2>3. Len(buf') = Len(buf) + Len(batch)
      BY <1>1, <2>1
    <2>4. Cuts' + Len(buf') + Len(Unwritten') = next'
      <3>1. Cuts' = Cuts /\ Len(Unwritten') = 0 /\ Len(Unwritten) = Len(batch)
        BY <2>1, <2>2 DEF Cuts
      <3>2. next' = next
        BY <2>1
      <3>3. QED BY ONLY <1>3, <1>4, <2>3, <3>1, <3>2
    <2>5. QED BY <2>1, <2>4 DEF LossInv, Closing
  <1>8. CASE Measure
    <2>1. /\ pc = "measure" /\ UNCHANGED <<next, buf, closed>>
          /\ \/ pc' = "close" /\ caller' = "due" /\ batch' = batch
             \/ pc' = "recv" /\ batch' = <<>>
      BY <1>8 DEF Measure
    <2>2. Unwritten = <<>> /\ Unwritten' = <<>>
      BY <2>1 DEF Unwritten, InWrite, Closing
    <2>3. pc' = "recv" => Len(batch') < BatchSize
      BY <1>1, <2>1
    <2>4. QED BY <1>3, <2>1, <2>2, <2>3 DEF LossInv, Closing, Cuts
  <1>9. CASE CutSegment
    <2>1. /\ pc = "close" /\ pc' = "upload" /\ closed' = Append(closed, buf)
          /\ buf' = <<>> /\ UNCHANGED <<next, batch, caller>>
      BY <1>9 DEF CutSegment, TakeBuffer
    <2>2. Unwritten' = Unwritten
      BY <2>1 DEF Unwritten, InWrite, Closing
    <2>3. Cuts' = Cuts + Len(buf)
      <3>1. FlattenSeq(closed') = FlattenSeq(closed) \o buf
        BY <1>1, <2>1, FlattenAppend
      <3>2. FlattenSeq(closed) \in Seq(Nat)
        BY <1>1, FlattenType
      <3>3. QED BY <1>1, <3>1, <3>2, ConcatProperties DEF Cuts
    <2>4. Cuts' + Len(buf') + Len(Unwritten') = next'
      <3>1. Len(buf') = 0 /\ Len(Unwritten') = Len(Unwritten) /\ next' = next
        BY <2>1, <2>2
      <3>2. QED BY ONLY <1>3, <1>4, <2>3, <3>1
    <2>5. pc \in Closing
      BY <2>1 DEF Closing
    <2>6. QED BY <1>3, <2>1, <2>4, <2>5 DEF LossInv
  <1>10. ASSUME pc \in Closing \ {"close"}, pc' \in Closing \ {"close"},
                UNCHANGED <<next, batch, caller, buf, closed>>
         PROVE  LossInv'
    <2>1. InWrite' <=> InWrite
      BY <1>10 DEF InWrite, Closing
    <2>2. Unwritten' = Unwritten
      BY <1>10, <2>1 DEF Unwritten
    <2>3. QED BY <1>3, <1>10, <2>2 DEF LossInv, Cuts, Closing
  <1>11. CASE UploadSegment \/ Presign \/ RecordSegment \/ PublishHour
    BY <1>10, <1>11
       DEF UploadSegment, Presign, RecordSegment, PublishHour, Closing
  <1>12. CASE Advance
    <2>1. CASE HasFile(localM3u8')
      BY <1>10, <1>12, <2>1 DEF Advance, UploadIndex, Closing
    <2>2. CASE ~HasFile(localM3u8')
      BY <1>12, <2>2, LossFinish DEF Advance, UploadIndex
    <2>3. QED BY <2>1, <2>2
  <1>13. CASE PublishIndex
    <2>1. FinishClose /\ UNCHANGED openFailed
      BY <1>13 DEF PublishIndex
    <2>2. QED BY <1>13, <2>1, LossFinish DEF PublishIndex
  <1>14. CASE ConsumerPop \/ Tick
    <2>1. UNCHANGED <<pc, caller, next, batch, buf, closed>>
      BY <1>14 DEF ConsumerPop, Tick
    <2>2. Unwritten' = Unwritten
      BY <2>1 DEF Unwritten, InWrite
    <2>3. QED BY <1>3, <2>1, <2>2 DEF LossInv, Cuts
  <1>15. CASE Kill
    <2>1. pc' = "dead" /\ batch' = Unwritten /\ UNCHANGED <<next, buf, closed>>
      BY <1>15 DEF Kill
    <2>2. Unwritten' = Unwritten
      BY <2>1 DEF Unwritten, InWrite, Closing
    <2>3. QED BY <1>3, <2>1, <2>2 DEF LossInv, Cuts, Closing
  <1>16. CASE UNCHANGED vars
    <2>1. UNCHANGED <<pc, caller, next, batch, buf, closed>>
      BY <1>16 DEF vars
    <2>2. Unwritten' = Unwritten
      BY <2>1 DEF Unwritten, InWrite
    <2>3. QED BY <1>3, <2>1, <2>2 DEF LossInv, Cuts
  <1>17. QED
    BY <1>5, <1>6, <1>7, <1>8, <1>9, <1>11, <1>12, <1>13, <1>14, <1>15, <1>16
       DEF Next, Close, Terminated

(* A recorder that stops by its flag, its time limit or the end of the     *)
(* capture, and none of whose closes returned early, has cut all packets   *)
(* but fewer than a batch, whatever else failed in S3 or on disk.          *)
THEOREM GracefulStopCorrect == Spec => []GracefulStopLosesLessThanABatch
<1>1. Spec => []TypeInv
  BY TypeInit, TypeStep, PTL DEF Spec
<1>2. Spec => []LossInv
  BY <1>1, LossInit, LossStep, PTL DEF Spec
<1>3. TypeInv /\ LossInv => GracefulStopLosesLessThanABatch
  <2> SUFFICES ASSUME TypeInv, LossInv, pc = "done", ~openFailed
               PROVE  next - Cuts < BatchSize
    BY DEF GracefulStopLosesLessThanABatch, Cuts
  <2>1. Cuts + Len(buf) + Len(Unwritten) = next /\ Len(batch) < BatchSize /\ buf = <<>>
    BY DEF LossInv
  <2>2. Unwritten = batch /\ Len(buf) = 0
    BY <2>1 DEF Unwritten, InWrite, Closing
  <2>3. batch \in Seq(Nat) /\ closed \in Seq(Seq(Nat)) /\ next \in Nat /\ BatchSize \in Nat
    BY SegmenterAssumption DEF TypeInv, TypeOK, Segment
  <2>4. Cuts \in Nat /\ Len(batch) \in Nat
    BY <2>3, FlattenType, LenProperties DEF Cuts
  <2>5. QED BY <2>1, <2>2, <2>3, <2>4
<1>4. QED BY <1>1, <1>2, <1>3, PTL

-----------------------------------------------------------------------------
(* A recorder that is started again (RestartSpec).                         *)

(* A run began in the past, after the packets it missed; types and hours   *)
(* are as in a single run, what is published for an hour included.         *)
RunsInv ==
    /\ TypeInv /\ HoursInv
    /\ hourIndex \in [Hours -> Seq(HourEntry)]
    /\ runs \in Nat /\ runs > 0
    /\ began \in Nat /\ began <= clock
    /\ missed \in Nat /\ missed <= next

LEMMA RunsInit == RestartInit => RunsInv
  <1> SUFFICES ASSUME RestartInit PROVE RunsInv
    OBVIOUS
  <1>1. TypeInv /\ HoursInv
    BY TypeInit, HoursInit DEF RestartInit
  <1>2. hourIndex \in [Hours -> Seq(HourEntry)]
    BY DEF RestartInit, Init
  <1>3. QED BY <1>1, <1>2 DEF RestartInit, Init, RunsInv

(* A step of the specification is a step of the run, or a start.           *)
LEMMA RestartOrStep ==
    [RestartNext]_restartVars => ([Next]_vars /\ UNCHANGED runVars) \/ Restart
  BY DEF RestartNext, restartVars

LEMMA RunsRestart == RunsInv /\ Restart => RunsInv'
  <1> SUFFICES ASSUME RunsInv, Restart PROVE RunsInv'
    OBVIOUS
  <1>1. /\ clock \in 0..MaxClock /\ clock' = clock + 1 /\ clock' \in 0..MaxClock
        /\ HourOf(clock') \in Hours
    BY SegmenterAssumption DEF RunsInv, TypeInv, TypeOK, Restart
  <1>2. TypeOK'
    <2>1. /\ pc' = "recv" /\ caller' \in Callers
          /\ playlist' \in Seq(PlaylistEntry) /\ ring' \in Seq(Nat)
          /\ batch' \in Seq(Nat) /\ buf' \in Segment /\ closed' \in Seq(Segment)
          /\ hourMap' \in [Hours -> Seq(HourEntry)]
      BY DEF Restart, Callers, Segment
    <2>2. /\ seg' \in [num : Nat, at : Nat \cup {NoTime}, hour : Hours \cup {NoTime}]
          /\ openTime' = NoTime /\ startTime' = NoTime /\ bytes' = 0 /\ measured' = FALSE
          /\ segIndex' = 0 /\ seqId' = 0 /\ uploaded' = {} /\ openFailed' = FALSE
          /\ UNCHANGED <<next, store, localM3u8, liveIndex, hourIndex, urlsLog>>
      BY DEF Restart
    <2>3. QED BY <1>1, <2>1, <2>2 DEF TypeOK, RunsInv, TypeInv
  <1>3. Numbering'
    BY DEF Restart, Numbering, Cutting, Listing
  <1>4. HoursInv'
    <2>1. startTime' = NoTime /\ hourIndex' = hourIndex
          /\ \A h \in Hours : hourMap'[h] = <<>>
      BY DEF Restart
    <2>2. "presign" \notin Faults => \A h \in Hours : NoGap(hourIndex[h])
      BY DEF RunsInv, HoursInv
    <2>3. QED
      BY <1>1, <2>1, <2>2 DEF HoursInv, EntriesInHours, HoursIncrease, NoGap
  <1>5. /\ runs' \in Nat /\ runs' > 0 /\ began' \in Nat /\ began' <= clock'
        /\ missed' \in Nat /\ missed' <= next'
    BY <1>1 DEF Restart, RunsInv, TypeInv, TypeOK
  <1>6. hourIndex' \in [Hours -> Seq(HourEntry)]
    BY DEF Restart, RunsInv
  <1>7. QED BY <1>2, <1>3, <1>4, <1>5, <1>6 DEF RunsInv, TypeInv

(* The steps that leave the published hours alone.                         *)
LEMMA HourIndexKept ==
    ASSUME [Next]_vars, ~PublishHour
    PROVE  hourIndex' = hourIndex /\ urlsLog' = urlsLog
  BY DEF Next, vars, Receive, Stop, Disconnect, WriteTs, Measure, Close,
     CutSegment, UploadSegment, Presign, RecordSegment, Advance, PublishIndex,
     ConsumerPop, Tick, Kill, Terminated, hourVars

LEMMA RunsStep == RunsInv /\ [RestartNext]_restartVars => RunsInv'
  <1> SUFFICES ASSUME RunsInv, [Next]_vars, UNCHANGED runVars PROVE RunsInv'
    BY RestartOrStep, RunsRestart
  <1>1. TypeInv' /\ HoursInv'
    BY TypeStep, HoursStep DEF RunsInv
  <1>2. hourIndex' \in [Hours -> Seq(HourEntry)]
    <2>1. CASE PublishHour
      <3>1. hourMap \in [Hours -> Seq(HourEntry)]
        BY DEF RunsInv, TypeInv, TypeOK
      <3>2. QED BY <2>1, <3>1, PublishedHour DEF RunsInv
    <2>2. CASE ~PublishHour
      BY <2>2, HourIndexKept DEF RunsInv
    <2>3. QED BY <2>1, <2>2
  <1>3. clock' \in Nat /\ clock' >= clock /\ next' \in Nat /\ next' >= next
    <2>1. clock \in Nat /\ next \in Nat
      BY SegmenterAssumption DEF RunsInv, TypeInv, TypeOK
    <2>2. clock' \in {clock, clock + 1} /\ next' \in {next, next + 1}
      BY DEF Next, vars, Receive, Stop, Disconnect, WriteTs, Measure, Close,
         CutSegment, UploadSegment, Presign, RecordSegment, PublishHour, Advance,
         PublishIndex, ConsumerPop, Tick, Kill, Terminated, loopVars
    <2>3. QED BY <2>1, <2>2
  <1>4. /\ clock \in Nat /\ next \in Nat
        /\ runs' = runs /\ began' = began /\ missed' = missed
    BY SegmenterAssumption DEF runVars, RunsInv, TypeInv, TypeOK
  <1>5. began' <= clock' /\ missed' <= next'
    BY <1>3, <1>4 DEF RunsInv
  <1>6. QED BY <1>1, <1>2, <1>4, <1>5 DEF RunsInv

-----------------------------------------------------------------------------
(* No packet is forgotten.                                                 *)

InSegments(p) ==
    Contains(buf, p) \/ \E i \in DOMAIN closed : Contains(closed[i], p)

(* The batch may be cleared at the end of write_ts only because all of it  *)
(* is in a segment by then.                                                *)
KeptInv ==
    pc # "dead" =>
        /\ \A p \in (missed + 1)..next : Contains(batch, p) \/ InSegments(p)
        /\ InWrite => \A i \in DOMAIN batch : InSegments(batch[i])

LEMMA KeptInit == RestartInit => KeptInv
  <1> SUFFICES ASSUME RestartInit PROVE KeptInv
    OBVIOUS
  <1>1. missed = 0 /\ next = 0 /\ ~InWrite
    BY DEF RestartInit, Init, InWrite, Closing
  <1>2. QED BY <1>1 DEF KeptInv

(* The steps that change the data move it on.                              *)
LEMMA InSegmentsKept ==
    ASSUME TypeInv, [Next]_vars, NEW p, InSegments(p)
    PROVE  InSegments(p)'
  <1>1. buf \in Seq(Nat) /\ batch \in Seq(Nat) /\ closed \in Seq(Seq(Nat))
    BY DEF TypeInv, TypeOK, Segment
  <1>2. CASE WriteTs
    <2>1. closed' = closed /\ buf' = buf \o batch
      BY <1>2 DEF WriteTs, Join, histVars
    <2>2. Contains(buf, p) => Contains(buf', p)
      <3> SUFFICES ASSUME NEW i \in 1..Len(buf), buf[i] = p
                   PROVE  Contains(buf', p)
        BY DEF Contains
      <3>1. i \in 1..Len(buf') /\ buf'[i] = p
        BY <1>1, <2>1, ConcatProperties
      <3>2. QED BY <3>1 DEF Contains
    <2>3. QED BY <2>1, <2>2 DEF InSegments
  <1>3. CASE CutSegment
    <2>1. closed' = Append(closed, buf)
      BY <1>3 DEF CutSegment, TakeBuffer
    <2>2. /\ Len(closed) \in Nat /\ DOMAIN closed = 1..Len(closed)
          /\ DOMAIN closed' = 1..(Len(closed) + 1)
          /\ closed'[Len(closed) + 1] = buf
          /\ \A i \in 1..Len(closed) : closed'[i] = closed[i]
      <3> DEFINE U == Seq(Nat)
      <3>1. closed \in Seq(U) /\ buf \in U
        BY <1>1
      <3> HIDE DEF U
      <3>2. QED BY <2>1, <3>1, AppendProperties, LenProperties
    <2>3. CASE Contains(buf, p)
      <3>1. Len(closed) + 1 \in DOMAIN closed' /\ Contains(closed'[Len(closed) + 1], p)
        BY <2>2, <2>3
      <3>2. QED BY <3>1 DEF InSegments
    <2>4. CASE \E i \in DOMAIN closed : Contains(closed[i], p)
      <3>1. PICK i \in 1..Len(closed) : Contains(closed[i], p)
        BY <2>2, <2>4
      <3>2. i \in DOMAIN closed' /\ Contains(closed'[i], p)
        BY <2>2, <3>1
      <3>3. QED BY <3>2 DEF InSegments
    <2>5. QED BY <2>3, <2>4 DEF InSegments
  <1>4. CASE ~WriteTs /\ ~CutSegment
    <2>1. buf' = buf /\ closed' = closed
      BY <1>4 DEF Next, vars, Receive, Stop, Disconnect, Measure, Close,
         UploadSegment, Presign, RecordSegment, PublishHour, Advance,
         PublishIndex, ConsumerPop, Tick, Kill, Terminated, segVars, histVars
    <2>2. QED BY <2>1 DEF InSegments
  <1>5. QED BY <1>2, <1>3, <1>4

LEMMA KeptStep ==
    ASSUME RunsInv, KeptInv, [Next]_vars, UNCHANGED runVars
    PROVE  KeptInv'
  <1> SUFFICES ASSUME pc' # "dead" PROVE KeptInv'
    BY DEF KeptInv
  <1> USE DEF loopVars, segVars, hourVars, histVars
  <1>1. /\ TypeInv /\ batch \in Seq(Nat) /\ buf \in Seq(Nat) /\ next \in Nat
        /\ missed \in Nat /\ missed' = missed /\ caller \in Callers
    BY DEF RunsInv, TypeInv, TypeOK, Segment, runVars
  <1>2. pc # "dead"
    BY DEF Next, vars, Receive, Stop, Disconnect, WriteTs, Measure, Close,
       CutSegment, UploadSegment, Presign, RecordSegment, PublishHour, Advance,
       PublishIndex, ConsumerPop, Tick, Kill, Terminated, Ended
  <1>3. /\ \A p \in (missed + 1)..next : Contains(batch, p) \/ InSegments(p)
        /\ InWrite => \A i \in DOMAIN batch : InSegments(batch[i])
    BY <1>2 DEF KeptInv
  <1>4. \A p : InSegments(p) => InSegments(p)'
    BY <1>1, InSegmentsKept
  <1>5. ASSUME next' = next, batch' = batch, InWrite' => InWrite
        PROVE  KeptInv'
    BY <1>1, <1>3, <1>4, <1>5 DEF KeptInv
  <1>6. ASSUME next' = next, batch' = <<>>, InWrite
        PROVE  KeptInv'
    <2>1. \A p \in (missed + 1)..next : InSegments(p)'
      <3> SUFFICES ASSUME NEW p \in (missed + 1)..next PROVE InSegments(p)'
        OBVIOUS
      <3>1. CASE Contains(batch, p)
        <4>1. PICK i \in 1..Len(batch) : batch[i] = p
          BY <3>1 DEF Contains
        <4>2. InSegments(batch[i])
          BY <1>1, <1>3, <1>6
        <4>3. QED BY <1>4, <4>1, <4>2
      <3>2. QED BY <1>3, <1>4, <3>1
    <2>2. \A i \in DOMAIN batch' : FALSE
      BY <1>6
    <2>3. QED BY <1>1, <1>6, <2>1, <2>2 DEF KeptInv
  <1>7. ASSUME FinishClose, next' = next, pc \in {"advance", "index_put"}
        PROVE  KeptInv'
    <2>1. CASE caller = "forced"
      BY <1>5, <1>7, <2>1 DEF FinishClose, Return, InWrite, Closing
    <2>2. CASE caller = "due"
      BY <1>6, <1>7, <2>2 DEF FinishClose, Return, InWrite, Closing
    <2>3. CASE caller \in {"disconnected", "final"}
      <3>1. batch' = batch /\ pc' \in {"close", "done"}
            /\ (pc' = "close" => caller' = "final")
        BY <1>7, <2>3 DEF FinishClose, Return
      <3>2. QED BY <1>5, <1>7, <3>1 DEF InWrite, Closing
    <2>4. QED BY <1>1, <2>1, <2>2, <2>3 DEF Callers
  <1>8. CASE Receive
    <2>1. /\ batch' = Append(batch, next + 1) /\ next' = next + 1 /\ pc' \in {"write", "recv"}
          /\ UNCHANGED <<buf, closed>>
      BY <1>8 DEF Receive
    <2>2. /\ Len(batch') = Len(batch) + 1 /\ batch'[Len(batch) + 1] = next + 1
          /\ \A i \in 1..Len(batch) : batch'[i] = batch[i]
          /\ Len(batch) \in Nat
      BY <1>1, <2>1
    <2>3. ASSUME NEW p \in (missed + 1)..next'
          PROVE  Contains(batch', p) \/ InSegments(p)'
      <3>1. CASE p = next + 1
        <4>1. Len(batch) + 1 \in 1..Len(batch') /\ batch'[Len(batch) + 1] = p
          BY <2>2, <3>1
        <4>2. QED BY <4>1 DEF Contains
      <3>2. CASE p \in (missed + 1)..next
        <4>1. CASE Contains(batch, p)
          <5>1. PICK i \in 1..Len(batch) : batch[i] = p
            BY <4>1 DEF Contains
          <5>2. i \in 1..Len(batch') /\ batch'[i] = p
            BY <2>2, <5>1
          <5>3. QED BY <5>2 DEF Contains
        <4>2. QED BY <1>3, <1>4, <3>2, <4>1
      <3>3. QED BY <1>1, <2>1, <3>1, <3>2
    <2>4. ~InWrite'
      BY <2>1 DEF InWrite, Closing
    <2>5. QED BY <1>1, <2>3, <2>4 DEF KeptInv
  <1>9. CASE WriteTs
    <2>1. /\ buf' = buf \o batch /\ batch' = batch /\ next' = next
      BY <1>9 DEF WriteTs, Join
    <2>2. ASSUME NEW i \in DOMAIN batch
          PROVE  InSegments(batch[i])'
      <3>1. /\ i \in 1..Len(batch) /\ Len(buf) \in Nat /\ Len(batch) \in Nat
            /\ Len(buf') = Len(buf) + Len(batch)
        BY <1>1, <2>1, ConcatProperties
      <3>2. Len(buf) + i \in 1..Len(buf') /\ buf'[Len(buf) + i] = batch[i]
        BY <1>1, <2>1, <3>1
      <3>3. Contains(buf', batch[i])
        BY <3>2 DEF Contains
      <3>4. QED BY <2>1, <3>3 DEF InSegments
    <2>3. QED BY <1>1, <1>3, <1>4, <2>1, <2>2 DEF KeptInv
  <1>10. CASE Measure
    <2>1. /\ pc = "measure" /\ next' = next
          /\ \/ pc' = "close" /\ caller' = "due" /\ batch' = batch
             \/ pc' = "recv" /\ batch' = <<>>
      BY <1>10 DEF Measure
    <2>2. InWrite
      BY <2>1 DEF InWrite
    <2>3. QED BY <1>5, <1>6, <2>1, <2>2
  <1>11. CASE Stop \/ Disconnect
    BY <1>5, <1>11 DEF Stop, Disconnect, InWrite, Closing
  <1>12. CASE CutSegment \/ UploadSegment \/ Presign \/ RecordSegment \/ PublishHour
    <2>1. /\ pc \in Closing /\ pc' \in Closing
          /\ UNCHANGED <<caller, batch, next>>
      BY <1>12 DEF CutSegment, UploadSegment, Presign, RecordSegment, PublishHour, Closing
    <2>2. QED BY <1>5, <2>1 DEF InWrite, Closing
  <1>13. CASE Advance
    <2>1. CASE HasFile(localM3u8')
      BY <1>5, <1>13, <2>1 DEF Advance, UploadIndex, InWrite, Closing
    <2>2. CASE ~HasFile(localM3u8')
      BY <1>7, <1>13, <2>2 DEF Advance, UploadIndex
    <2>3. QED BY <2>1, <2>2
  <1>14. CASE PublishIndex
    <2>1. CASE FinishClose
      BY <1>7, <1>14, <2>1 DEF PublishIndex
    <2>2. CASE ReturnErr
      <3>1. CASE caller \in {"forced", "due"}
        BY <1>5, <1>14, <2>2, <3>1 DEF PublishIndex, ReturnErr, InWrite, Closing
      <3>2. CASE caller = "disconnected"
        BY <1>5, <1>14, <2>2, <3>2 DEF PublishIndex, ReturnErr, InWrite, Closing
      <3>3. CASE caller = "final"
        BY <1>5, <1>14, <2>2, <3>3 DEF PublishIndex, ReturnErr, InWrite, Closing
      <3>4. QED BY <1>1, <3>1, <3>2, <3>3 DEF Callers
    <2>3. QED BY <1>14, <2>1, <2>2 DEF PublishIndex
  <1>15. CASE ConsumerPop \/ Tick
    BY <1>5, <1>15 DEF ConsumerPop, Tick, InWrite
  <1>16. CASE Kill
    BY <1>16 DEF Kill
  <1>17. CASE UNCHANGED vars
    BY <1>5, <1>17 DEF vars, InWrite
  <1>18. QED
    BY <1>8, <1>9, <1>10, <1>11, <1>12, <1>13, <1>14, <1>15, <1>16, <1>17
       DEF Next, Close, Terminated

(* Even when closes fail and write_ts is retried, no packet captured in a  *)
(* run is forgotten before its end.                                        *)
THEOREM NothingForgotten == RestartSpec => []NoPacketForgotten
<1>1. RestartSpec => []RunsInv
  BY RunsInit, RunsStep, PTL DEF RestartSpec
<1>2. RunsInv /\ KeptInv /\ [RestartNext]_restartVars => KeptInv'
  <2> SUFFICES ASSUME RunsInv, KeptInv, Restart PROVE KeptInv'
    BY RestartOrStep, KeptStep
  <2>1. ~InWrite'
    BY DEF Restart, InWrite, Closing
  <2>2. missed' = next /\ next' = next /\ next \in Nat
    BY DEF Restart, RunsInv, TypeInv, TypeOK
  <2>3. \A p \in (missed' + 1)..next' : FALSE
    BY <2>2
  <2>4. QED BY <2>1, <2>3 DEF KeptInv
<1>3. KeptInv => NoPacketForgotten
  BY DEF KeptInv, NoPacketForgotten, InSegments
<1>4. QED BY <1>1, <1>2, <1>3, KeptInit, PTL DEF RestartSpec

-----------------------------------------------------------------------------
(* What the playlists name is in S3.                                       *)

(* An entry of this run names an object with its segment, which no upload  *)
(* to come replaces, for the numbers grow; one of an earlier run names an  *)
(* object that is there, if replaced by one of the same name. The list,    *)
(* the file and the published copy only hold such entries.                 *)
EntryStored(e) ==
    e.at # NoTime =>
        /\ e.at <= clock
        /\ IF Mine(e)
           THEN /\ Holds(e) /\ e.num \in 1..Len(closed)
                /\ pc = "upload" => e.num # seg.num
           ELSE Kept(e)

Stored == {e \in PlaylistEntry : EntryStored(e)}

EntriesInv ==
    /\ startTime # NoTime => began <= startTime
    /\ playlist \in Seq(Stored) /\ localM3u8.entries \in Seq(Stored)
    /\ liveIndex.entries \in Seq(Stored)
    /\ pc = "upload" => seg.at # NoTime /\ began <= seg.at /\ seg.at <= clock
    /\ pc \in {"presign", "record"} => EntryStored(seg)

LEMMA EntriesInit == RestartInit => EntriesInv
  BY DEF RestartInit, Init, EntriesInv, NoPlaylist

(* An upload keeps every object, or one of its name, and adds its own.     *)
LEMMA StoreKept ==
    ASSUME [Next]_vars, NEW o \in store
    PROVE  \E q \in store' : /\ q.num = o.num /\ q.at = o.at
                             /\ <<o.num, o.at>> # <<seg.num, seg.at>> => q = o
  <1>1. CASE store' = store
    BY <1>1
  <1>2. CASE PutObject
    <2>1. CASE <<o.num, o.at>> = <<seg.num, seg.at>>
      <3>1. Object \in store' /\ Object.num = o.num /\ Object.at = o.at
        BY <1>2, <2>1 DEF PutObject, Object
      <3>2. QED BY <2>1, <3>1
    <2>2. CASE <<o.num, o.at>> # <<seg.num, seg.at>>
      <3>1. o \in store'
        BY <1>2, <2>2 DEF PutObject
      <3>2. QED BY <3>1
    <2>3. QED BY <2>1, <2>2
  <1>3. store' = store \/ PutObject
    BY DEF Next, vars, Receive, Stop, Disconnect, WriteTs, Measure, Close,
       CutSegment, UploadSegment, Presign, RecordSegment, PublishHour, Advance,
       PublishIndex, ConsumerPop, Tick, Kill, Terminated
  <1>4. QED BY <1>1, <1>2, <1>3

(* Where the ends of a close and of write_ts go.                           *)
LEMMA PcAfter ==
    ASSUME TypeInv
    PROVE  /\ Advance => pc' \in {"index_put", "measure", "recv", "close", "done"}
           /\ PublishIndex => pc' \in {"measure", "recv", "close", "done"}
           /\ Measure => pc' \in {"close", "recv"}
  <1>1. Advance => pc' \in {"index_put", "measure", "recv", "close", "done"}
    BY TypeFinishClose DEF Advance, UploadIndex
  <1>2. PublishIndex => pc' \in {"measure", "recv", "close", "done"}
    BY TypeFinishClose, ReturnErrType DEF PublishIndex, TypeInv
  <1>3. Measure => pc' \in {"close", "recv"}
    BY DEF Measure
  <1>4. QED BY <1>1, <1>2, <1>3

(* Segments are only added, and objects are put only while one uploads.    *)
LEMMA DataKept ==
    ASSUME TypeInv, [Next]_vars
    PROVE  /\ Len(closed) \in Nat /\ Len(closed') \in Nat /\ Len(closed) <= Len(closed')
           /\ \A n \in 1..Len(closed) : closed'[n] = closed[n]
           /\ clock \in Nat /\ clock' \in {clock, clock + 1}
           /\ pc = "upload" \/ store' = store
           /\ pc' = "upload" => \/ pc = "upload" /\ seg' = seg /\ closed' = closed
                                \/ /\ CutSegment /\ seg'.num = Len(closed) + 1
                                   /\ Len(closed') = Len(closed) + 1
                                   /\ closed'[seg'.num] = buf
  <1> USE DEF loopVars, segVars, hourVars, histVars
  <1>1. closed \in Seq(Seq(Nat)) /\ buf \in Seq(Nat) /\ clock \in Nat /\ Numbering
    BY SegmenterAssumption DEF TypeInv, TypeOK, Segment
  <1>2. clock' \in {clock, clock + 1} /\ (pc = "upload" \/ store' = store)
    BY DEF Next, vars, Receive, Stop, Disconnect, WriteTs, Measure, Close,
       CutSegment, UploadSegment, Presign, RecordSegment, PublishHour, Advance,
       PublishIndex, ConsumerPop, Tick, Kill, Terminated
  <1>3. CASE CutSegment
    <2> DEFINE U == Seq(Nat)
    <2>1. closed \in Seq(U) /\ buf \in U /\ closed' = Append(closed, buf)
      BY <1>1, <1>3 DEF CutSegment, TakeBuffer
    <2>2. seg'.num = Len(closed) + 1
      <3>1. segIndex \in Nat /\ Len(closed) = segIndex
        BY <1>1, <1>3 DEF CutSegment, Numbering, Cutting, TypeInv, TypeOK
      <3>2. QED BY <1>3, <3>1 DEF CutSegment
    <2> HIDE DEF U
    <2>3. /\ Len(closed) \in Nat /\ Len(closed') = Len(closed) + 1
          /\ closed'[Len(closed) + 1] = buf
          /\ \A n \in 1..Len(closed) : closed'[n] = closed[n]
      BY <2>1, AppendProperties, LenProperties
    <2>4. QED BY <1>1, <1>2, <1>3, <2>2, <2>3
  <1>4. CASE ~CutSegment
    <2>1. closed' = closed
      BY <1>4 DEF Next, vars, Receive, Stop, Disconnect, WriteTs, Measure, Close,
         UploadSegment, Presign, RecordSegment, PublishHour, Advance,
         PublishIndex, ConsumerPop, Tick, Kill, Terminated
    <2>2. Advance \/ PublishIndex \/ Measure => pc' # "upload"
      BY PcAfter
    <2>3. pc' = "upload" => pc = "upload" /\ seg' = seg
      BY <1>4, <2>2
         DEF Next, vars, Receive, Stop, Disconnect, WriteTs, Close,
         UploadSegment, Presign, RecordSegment, PublishHour,
         ConsumerPop, Tick, Kill, Terminated
    <2>4. QED BY <1>1, <1>2, <2>1, <2>3, LenProperties
  <1>5. QED BY <1>3, <1>4

LEMMA EntryStep ==
    ASSUME TypeInv, [Next]_vars, UNCHANGED runVars,
           NEW e, e.at \in Nat \cup {NoTime}, EntryStored(e)
    PROVE  EntryStored(e)'
  <1> SUFFICES ASSUME e.at # NoTime
               PROVE  /\ e.at <= clock'
                      /\ IF Mine(e)'
                         THEN /\ Holds(e)' /\ e.num \in 1..Len(closed')
                              /\ pc' = "upload" => e.num # seg'.num
                         ELSE Kept(e)'
    BY DEF EntryStored
  <1>1. Mine(e)' <=> Mine(e)
    BY DEF Mine, runVars
  <1>2. e.at <= clock'
    BY DataKept DEF EntryStored
  <1>3. CASE Mine(e)
    <2>1. /\ Holds(e) /\ e.num \in 1..Len(closed)
          /\ pc = "upload" => e.num # seg.num
      BY <1>3 DEF EntryStored
    <2>2. e.num \in 1..Len(closed') /\ closed'[e.num] = closed[e.num]
      BY <2>1, DataKept
    <2>3. Holds(e)'
      <3> DEFINE o == [num |-> e.num, at |-> e.at, data |-> closed[e.num]]
      <3>1. o \in store /\ o.num = e.num
        BY <2>1 DEF Holds
      <3>2. CASE pc = "upload"
        <4>1. <<o.num, o.at>> # <<seg.num, seg.at>>
          BY <2>1, <3>1, <3>2
        <4>2. o \in store'
          BY <3>1, <4>1, StoreKept
        <4>3. QED BY <2>2, <4>2 DEF Holds
      <3>3. CASE pc # "upload"
        BY <2>2, <3>1, <3>3, DataKept DEF Holds
      <3>4. QED BY <3>2, <3>3
    <2>4. pc' = "upload" => e.num # seg'.num
      BY <2>1, DataKept
    <2>5. QED BY <1>1, <1>2, <1>3, <2>2, <2>3, <2>4
  <1>4. CASE ~Mine(e)
    <2>1. PICK o \in store : o.num = e.num /\ o.at = e.at
      BY <1>4 DEF EntryStored, Kept
    <2>2. PICK q \in store' : q.num = o.num /\ q.at = o.at
      BY StoreKept
    <2>3. QED BY <1>1, <1>2, <1>4, <2>1, <2>2 DEF Kept
  <1>5. QED BY <1>3, <1>4

LEMMA StoredStep ==
    ASSUME TypeInv, [Next]_vars, UNCHANGED runVars
    PROVE  Stored \subseteq Stored'
  <1> SUFFICES ASSUME NEW e \in PlaylistEntry, EntryStored(e)
               PROVE  EntryStored(e)'
    BY DEF Stored
  <1>1. e.at \in Nat \cup {NoTime}
    BY DEF PlaylistEntry
  <1>2. QED BY <1>1, EntryStep

LEMMA EntriesStep ==
    ASSUME RunsInv, EntriesInv, [Next]_vars, UNCHANGED runVars
    PROVE  EntriesInv'
  <1> USE DEF loopVars, segVars, hourVars, histVars
  <1>1. /\ TypeInv /\ TypeOK /\ TypeOK' /\ began' = began /\ began \in Nat
        /\ clock \in Nat /\ began <= clock
    <2>1. TypeInv /\ TypeInv' /\ began' = began /\ began \in Nat /\ began <= clock
      BY TypeStep DEF RunsInv, runVars
    <2>2. TypeOK /\ TypeOK'
      BY <2>1 DEF TypeInv
    <2>3. clock \in Nat
      BY <2>2, SegmenterAssumption DEF TypeOK
    <2>4. QED BY <2>1, <2>2, <2>3
  <1>2. /\ playlist \in Seq(Stored') /\ localM3u8.entries \in Seq(Stored')
        /\ liveIndex.entries \in Seq(Stored')
    <2>1. Stored \subseteq Stored'
      BY <1>1, StoredStep
    <2>2. /\ playlist \in Seq(Stored) /\ localM3u8.entries \in Seq(Stored)
          /\ liveIndex.entries \in Seq(Stored)
      BY DEF EntriesInv
    <2> HIDE DEF Stored
    <2>3. QED BY <2>1, <2>2
  <1>3. startTime' # NoTime => began <= startTime'
    <2>1. startTime' \in {startTime, clock, NoTime}
      BY DEF Next, vars, Receive, Stop, Disconnect, WriteTs, Measure, Close,
         CutSegment, UploadSegment, Presign, RecordSegment, PublishHour, Advance,
         PublishIndex, ConsumerPop, Tick, Kill, Terminated
    <2>2. QED BY <1>1, <2>1 DEF EntriesInv
  <1>4. pc' = "upload" => seg'.at # NoTime /\ began <= seg'.at /\ seg'.at <= clock'
    <2>1. CASE CutSegment
      <3>1. seg'.at = SegmentKey(segIndex + 1).at /\ clock' = clock
        BY <2>1 DEF CutSegment
      <3>2. SegmentKey(segIndex + 1).at \in {startTime, clock} \ {NoTime}
        BY <1>1, SegmenterAssumption DEF SegmentKey
      <3>3. startTime # NoTime => began <= startTime /\ startTime <= clock
        BY DEF EntriesInv, RunsInv, HoursInv
      <3>4. QED BY <1>1, <3>1, <3>2, <3>3
    <2>2. CASE pc = "upload" /\ seg' = seg
      <3>1. seg.at # NoTime /\ began <= seg.at /\ seg.at <= clock
        BY <2>2 DEF EntriesInv
      <3>2. seg.at \in Nat
        BY <1>1, <3>1 DEF TypeOK
      <3>3. clock' \in {clock, clock + 1}
        BY <1>1, DataKept
      <3>4. QED BY <1>1, <2>2, <3>1, <3>2, <3>3
    <2>3. QED BY <1>1, <2>1, <2>2, DataKept
  <1>5. pc' \in {"presign", "record"} => EntryStored(seg)'
    <2> SUFFICES ASSUME pc' \in {"presign", "record"}
                 PROVE  EntryStored(seg)'
      OBVIOUS
    <2>1. CASE UploadSegment
      <3>1. CASE PutObject /\ UNCHANGED seg
        <4>1. /\ seg.num = Len(closed) /\ Len(closed) \in 1..Len(closed)
              /\ closed' = closed /\ clock' = clock /\ pc = "upload"
          BY <1>1, <2>1 DEF UploadSegment, TypeInv, Numbering, Cutting, TypeOK
        <4>2. Mine(seg)' /\ seg.at <= clock
          BY <1>1, <3>1, <4>1 DEF EntriesInv, Mine
        <4>3. Holds(seg)'
          BY <3>1, <4>1 DEF PutObject, Object, Holds
        <4>4. pc' # "upload"
          OBVIOUS
        <4>5. QED BY <3>1, <4>1, <4>2, <4>3, <4>4 DEF EntryStored
      <3>2. CASE seg' = MemName
        <4>1. seg'.at = NoTime
          BY <1>1, <3>2 DEF MemName, TypeOK
        <4>2. QED BY <4>1 DEF EntryStored
      <3>3. QED BY <2>1, <3>1, <3>2 DEF UploadSegment
    <2>2. CASE Presign
      <3>1. CASE seg' = seg
        <4>1. EntryStored(seg) /\ seg.at \in Nat \cup {NoTime}
          BY <1>1, <2>2 DEF Presign, EntriesInv, TypeOK
        <4>2. QED BY <1>1, <3>1, <4>1, EntryStep
      <3>2. CASE seg' = MemName
        <4>1. seg'.at = NoTime
          BY <1>1, <3>2 DEF MemName, TypeOK
        <4>2. QED BY <4>1 DEF EntryStored
      <3>3. QED BY <2>2, <3>1, <3>2 DEF Presign
    <2>3. CASE ~UploadSegment /\ ~Presign
      <3>1. /\ Advance => pc' \in {"index_put", "measure", "recv", "close", "done"}
            /\ PublishIndex => pc' \in {"measure", "recv", "close", "done"}
            /\ Measure => pc' \in {"close", "recv"}
        BY <1>1, PcAfter
      <3>2. pc \in {"presign", "record"} /\ seg' = seg
        BY <2>3, <3>1
           DEF Next, vars, Receive, Stop, Disconnect, WriteTs, Close,
           CutSegment, RecordSegment, PublishHour, ConsumerPop, Tick, Kill, Terminated
      <3>3. EntryStored(seg) /\ seg.at \in Nat \cup {NoTime}
        BY <1>1, <3>2 DEF EntriesInv, TypeOK
      <3>4. QED BY <1>1, <3>2, <3>3, EntryStep
    <2>4. QED BY <2>1, <2>2, <2>3
  <1>6. playlist' \in Seq(Stored')
    <2>1. CASE RecordSegment
      <3> DEFINE e == [num |-> seg.num, at |-> seg.at]
                 T == Stored'
      <3>1. EntryStored(e)
        <4>1. EntryStored(seg)
          BY <2>1 DEF RecordSegment, EntriesInv
        <4>2. QED BY <4>1 DEF EntryStored, Mine, Holds, Kept
      <3>2. e \in T
        <4>1. e \in PlaylistEntry
          BY <1>1 DEF TypeOK, PlaylistEntry
        <4>2. e \in Stored
          BY <3>1, <4>1 DEF Stored
        <4>3. QED BY <1>1, <4>2, StoredStep
      <3>3. playlist \in Seq(T) /\ KeepSegments \in Nat
        BY <1>2, SegmenterAssumption
      <3>4. playlist' = DropHead(Append(playlist, e), KeepSegments)
        BY <2>1 DEF RecordSegment
      <3> HIDE DEF e, T
      <3>5. Append(playlist, e) \in Seq(T)
        BY <3>2, <3>3
      <3>6. playlist' \in Seq(T)
        BY <3>3, <3>4, <3>5, DropHeadType
      <3>7. QED BY <3>6 DEF T
    <2>2. CASE ~RecordSegment
      <3>1. playlist' = playlist
        BY <2>2 DEF Next, vars, Receive, Stop, Disconnect, WriteTs, Measure, Close,
           CutSegment, UploadSegment, Presign, PublishHour, Advance,
           PublishIndex, ConsumerPop, Tick, Kill, Terminated
      <3>2. QED BY <1>2, <3>1
    <2>3. QED BY <2>1, <2>2
  <1>7. /\ localM3u8'.entries \in {localM3u8.entries, playlist}
        /\ liveIndex'.entries \in {liveIndex.entries, localM3u8.entries}
    BY DEF Next, vars, Receive, Stop, Disconnect, WriteTs, Measure, Close,
       CutSegment, UploadSegment, Presign, RecordSegment, PublishHour, Advance,
       PublishIndex, ConsumerPop, Tick, Kill, Terminated
  <1>8. QED BY <1>1, <1>2, <1>3, <1>4, <1>5, <1>6, <1>7 DEF EntriesInv

(* The clock has moved on when a run begins: all entries are old then.     *)
LEMMA EntriesRestart ==
    ASSUME RunsInv, EntriesInv, Restart
    PROVE  EntriesInv'
  <1>1. Stored \subseteq Stored'
    <2> SUFFICES ASSUME NEW e \in PlaylistEntry, EntryStored(e), e.at # NoTime
                 PROVE  e.at <= clock' /\ ~Mine(e)' /\ Kept(e)'
      BY DEF Stored, EntryStored
    <2>1. e.at \in Nat /\ e.at <= clock /\ clock \in Nat
      BY SegmenterAssumption DEF PlaylistEntry, EntryStored, RunsInv, TypeInv, TypeOK
    <2>2. clock' = clock + 1 /\ began' = clock' /\ store' = store
      BY DEF Restart
    <2>3. ~Mine(e)' /\ e.at <= clock'
      BY <2>1, <2>2 DEF Mine
    <2>4. Kept(e)
      BY DEF EntryStored, Holds, Kept
    <2>5. QED BY <2>2, <2>3, <2>4 DEF Kept
  <1>2. localM3u8'.entries \in Seq(Stored') /\ liveIndex'.entries \in Seq(Stored')
    <2>1. /\ localM3u8.entries \in Seq(Stored) /\ liveIndex.entries \in Seq(Stored)
          /\ localM3u8' = localM3u8 /\ liveIndex' = liveIndex
      BY DEF EntriesInv, Restart
    <2> HIDE DEF Stored
    <2>2. QED BY <1>1, <2>1
  <1>3. startTime' = NoTime /\ playlist' = <<>> /\ pc' = "recv"
    BY DEF Restart
  <1>4. QED BY <1>2, <1>3 DEF EntriesInv

(* Every entry of the published playlist that is a URL names an object     *)
(* with that very segment, or one of an earlier run that is still there,   *)
(* over any number of kills and restarts and whatever fails.               *)
THEOREM EntriesStoredCorrect == RestartSpec => []EntriesStoredAcrossRuns
<1>1. RestartSpec => []RunsInv
  BY RunsInit, RunsStep, PTL DEF RestartSpec
<1>2. RunsInv /\ EntriesInv /\ [RestartNext]_restartVars => EntriesInv'
  BY RestartOrStep, EntriesStep, EntriesRestart
<1>3. EntriesInv => EntriesStoredAcrossRuns
  <2> SUFFICES ASSUME EntriesInv, NEW i \in DOMAIN liveIndex.entries,
                      liveIndex.entries[i].at # NoTime
               PROVE  IF Mine(liveIndex.entries[i]) THEN Holds(liveIndex.entries[i])
                      ELSE Kept(liveIndex.entries[i])
    BY DEF EntriesStoredAcrossRuns
  <2>1. liveIndex.entries[i] \in Stored
    BY DEF EntriesInv
  <2>2. QED BY <2>1 DEF Stored, EntryStored
<1>4. QED BY <1>1, <1>2, <1>3, EntriesInit, PTL DEF RestartSpec

-----------------------------------------------------------------------------
(* What the indexes of the hours name is in S3.                            *)

(* The key of an entry is computed a second time when the segment is       *)
(* filed. Both keys have the start of the segment in them, or the segment  *)
(* is empty: what is open has a start as long as no close has returned     *)
(* early, and it is cleared only after the segment is filed.               *)
StartInv ==
    ~openFailed =>
        /\ pc \in Closing \ {"close"} => buf = <<>>
        /\ pc \notin {"index_put", "dead"} =>
              /\ openTime # NoTime => startTime # NoTime
              /\ buf # <<>> => startTime # NoTime
        /\ pc \in {"upload", "presign", "record"} /\ closed[seg.num] # <<>>
             => startTime # NoTime
        /\ pc = "upload" /\ startTime # NoTime => seg.at = startTime

LEMMA StartInit == RestartInit => StartInv
  BY DEF RestartInit, Init, StartInv, Closing

LEMMA StartStep ==
    ASSUME TypeInv, StartInv, [Next]_vars
    PROVE  StartInv'
  <1> USE DEF loopVars, segVars, hourVars, histVars
  <1> SUFFICES ASSUME ~openFailed' PROVE StartInv'
    BY DEF StartInv
  <1>1. ~openFailed /\ clock # NoTime
    <2>1. ~openFailed
      BY DEF Next, vars, Receive, Stop, Disconnect, WriteTs, Measure, Close,
         CutSegment, UploadSegment, Presign, RecordSegment, PublishHour, Advance,
         PublishIndex, ConsumerPop, Tick, Kill, Terminated
    <2>2. clock \in Nat
      BY SegmenterAssumption DEF TypeInv, TypeOK
    <2>3. QED BY <2>1, <2>2, SegmenterAssumption
  <1>2. /\ pc \in Closing \ {"close"} => buf = <<>>
        /\ pc \notin {"index_put", "dead"} =>
              /\ openTime # NoTime => startTime # NoTime
              /\ buf # <<>> => startTime # NoTime
        /\ pc \in {"upload", "presign", "record"} /\ closed[seg.num] # <<>>
             => startTime # NoTime
        /\ pc = "upload" /\ startTime # NoTime => seg.at = startTime
    BY <1>1 DEF StartInv
  <1>3. ASSUME pc \notin {"index_put", "dead"} \/ pc' = pc,
               pc' \notin Closing \/ pc' = "close" \/ pc' = pc,
               UNCHANGED <<openTime, startTime, buf, closed, seg>>
        PROVE  StartInv'
    BY <1>2, <1>3 DEF StartInv, Closing
  <1>4. CASE Receive
    BY <1>3, <1>4 DEF Receive, Closing
  <1>5. CASE Stop \/ Disconnect
    BY <1>3, <1>5 DEF Stop, Disconnect
  <1>6. CASE WriteTs
    <2>1. pc = "write" /\ pc' \in {"close", "measure"}
      BY <1>6 DEF WriteTs
    <2>2. openTime' # NoTime /\ startTime' # NoTime
      BY <1>1, <1>2, <1>6, <2>1 DEF WriteTs
    <2>3. QED BY <2>1, <2>2 DEF StartInv, Closing
  <1>7. CASE Measure
    <2>1. pc = "measure" /\ pc' \in {"close", "recv"}
      BY <1>7 DEF Measure
    <2>2. QED BY <1>3, <1>7, <2>1 DEF Measure, Closing
  <1>8. CASE CutSegment
    <2>1. /\ pc = "close" /\ pc' = "upload" /\ buf' = <<>>
          /\ UNCHANGED <<openTime, startTime>>
          /\ seg'.at = SegmentKey(segIndex + 1).at
      BY <1>8 DEF CutSegment, TakeBuffer
    <2>2. closed'[seg'.num] = buf
      BY <1>8, <2>1, DataKept
    <2>3. startTime # NoTime => seg'.at = startTime
      BY <2>1 DEF SegmentKey
    <2>4. QED BY <1>2, <2>1, <2>2, <2>3 DEF StartInv
  <1>9. CASE UploadSegment \/ Presign
    <2>1. /\ pc \in {"upload", "presign"} /\ pc' \in {"presign", "record"}
          /\ UNCHANGED <<openTime, startTime, buf, closed>> /\ seg'.num = seg.num
      BY <1>9 DEF UploadSegment, Presign, MemName, TypeInv, TypeOK
    <2>2. QED BY <1>2, <2>1 DEF StartInv, Closing
  <1>10. CASE RecordSegment \/ PublishHour
    <2>1. /\ pc \in {"record", "hourly_put"} /\ pc' \in {"hourly_put", "advance"}
          /\ UNCHANGED <<openTime, startTime, buf>>
      BY <1>10 DEF RecordSegment, PublishHour
    <2>2. QED BY <1>2, <2>1 DEF StartInv, Closing
  <1>11. CASE Advance
    <2>1. buf' = <<>>
      BY <1>2, <1>11 DEF Advance, Closing
    <2>2. CASE HasFile(localM3u8')
      <3>1. pc' = "index_put"
        BY <1>11, <2>2 DEF Advance, UploadIndex
      <3>2. QED BY <2>1, <3>1 DEF StartInv
    <2>3. CASE ~HasFile(localM3u8')
      <3>1. openTime' = NoTime /\ pc' \in {"measure", "recv", "close", "done"}
        BY <1>11, <2>3, TypeFinishClose DEF Advance, UploadIndex
      <3>2. QED BY <2>1, <3>1 DEF StartInv
    <2>4. QED BY <2>2, <2>3
  <1>12. CASE PublishIndex
    <2>1. FinishClose /\ buf' = <<>>
      BY <1>2, <1>12 DEF PublishIndex, Closing
    <2>2. openTime' = NoTime /\ pc' \in {"measure", "recv", "close", "done"}
      BY <1>12, <2>1, TypeFinishClose DEF PublishIndex
    <2>3. QED BY <2>1, <2>2 DEF StartInv
  <1>13. CASE ConsumerPop \/ Tick
    BY <1>3, <1>13 DEF ConsumerPop, Tick
  <1>14. CASE Kill
    BY <1>14 DEF Kill, StartInv, Closing
  <1>15. CASE UNCHANGED vars
    BY <1>3, <1>15 DEF vars
  <1>16. QED
    BY <1>4, <1>5, <1>6, <1>7, <1>8, <1>9, <1>10, <1>11, <1>12, <1>13, <1>14, <1>15
       DEF Next, Close, Terminated

(* An entry of this run has an id given in it, and if its segment is there *)
(* and has data, it names the object.                                      *)
HourStored(e) ==
    /\ e.at <= clock
    /\ ~openFailed /\ Mine(e) =>
         /\ e.num \in 1..seqId
         /\ e.num \in uploaded /\ closed[e.num] # <<>> => Holds(e)

Filed == {e \in HourEntry : HourStored(e)}

Started == [num |-> seg.num, at |-> startTime]

FiledInv ==
    /\ StartInv
    /\ seqId <= Len(closed) /\ uploaded \subseteq 1..Len(closed)
    /\ pc = "upload" => seg.num \notin uploaded
    /\ pc = "hourly_put" => hourMap[seg.hour] # <<>>
    /\ hourMap \in [Hours -> Seq(Filed)] /\ hourIndex \in [Hours -> Seq(Filed)]
    /\ \A h \in urlsLog : hourIndex[h] # <<>>
    /\ ~openFailed /\ pc \in {"presign", "record"} /\ seg.num \in uploaded
         /\ startTime # NoTime => Holds(Started)

LEMMA FiledInit == RestartInit => FiledInv
  <1> SUFFICES ASSUME RestartInit PROVE FiledInv
    OBVIOUS
  <1>1. hourMap \in [Hours -> Seq(Filed)] /\ hourIndex \in [Hours -> Seq(Filed)]
    BY DEF RestartInit, Init
  <1>2. Len(closed) = 0 /\ seqId = 0
    BY DEF RestartInit, Init
  <1>3. StartInv /\ pc = "recv" /\ uploaded = {} /\ urlsLog = {}
    BY StartInit DEF RestartInit, Init
  <1>4. QED BY <1>1, <1>2, <1>3 DEF FiledInv

LEMMA FiledStep ==
    ASSUME TypeInv, FiledInv, [Next]_vars, UNCHANGED runVars
    PROVE  Filed \subseteq Filed'
  <1> SUFFICES ASSUME NEW e \in HourEntry, HourStored(e)
               PROVE  HourStored(e)'
    BY DEF Filed
  <1>1. e.at \in Nat /\ e.num \in Nat /\ seqId \in Nat /\ segIndex \in Nat /\ Numbering
    BY DEF HourEntry, TypeInv, TypeOK
  <1>2. e.at <= clock'
    BY <1>1, DataKept DEF HourStored
  <1>3. ASSUME ~openFailed', Mine(e)'
        PROVE  /\ e.num \in 1..seqId'
               /\ e.num \in uploaded' /\ closed'[e.num] # <<>> => Holds(e)'
    <2>1. /\ ~openFailed /\ Mine(e)
          /\ seqId' \in {seqId, seqId + 1}
          /\ uploaded' = uploaded \/ (pc = "upload" /\ uploaded' = uploaded \cup {seg.num})
      BY <1>3
         DEF Next, vars, Receive, Stop, Disconnect, WriteTs, Measure, Close,
         CutSegment, UploadSegment, Presign, RecordSegment, PublishHour, Advance,
         PublishIndex, ConsumerPop, Tick, Kill, Terminated, hourVars, histVars,
         runVars, Mine
    <2>2. /\ e.num \in 1..seqId
          /\ e.num \in uploaded /\ closed[e.num] # <<>> => Holds(e)
      BY <2>1 DEF HourStored
    <2>3. pc = "upload" => e.num # seg.num
      BY <1>1, <2>2 DEF Numbering, Cutting, Listing
    <2>4. Len(closed) \in Nat /\ e.num \in 1..Len(closed) /\ closed'[e.num] = closed[e.num]
      <3>1. Len(closed) \in Nat /\ \A n \in 1..Len(closed) : closed'[n] = closed[n]
        BY DataKept
      <3>2. QED BY <1>1, <2>2, <3>1 DEF FiledInv
    <2>5. Holds(e) => Holds(e)'
      <3> SUFFICES ASSUME Holds(e) PROVE Holds(e)'
        OBVIOUS
      <3> DEFINE o == [num |-> e.num, at |-> e.at, data |-> closed[e.num]]
      <3>1. o \in store /\ o.num = e.num
        BY DEF Holds
      <3>2. CASE pc = "upload"
        <4>1. <<o.num, o.at>> # <<seg.num, seg.at>>
          BY <2>3, <3>1, <3>2
        <4>2. o \in store'
          BY <3>1, <4>1, StoreKept
        <4>3. QED BY <2>4, <4>2 DEF Holds
      <3>3. CASE pc # "upload"
        BY <2>4, <3>1, <3>3, DataKept DEF Holds
      <3>4. QED BY <3>2, <3>3
    <2>6. e.num \in 1..seqId'
      BY <1>1, <2>1, <2>2
    <2>7. QED BY <2>1, <2>2, <2>3, <2>4, <2>5, <2>6
  <1>4. QED BY <1>2, <1>3 DEF HourStored

(* The entry that record_segment files.                                    *)
LEMMA FiledEntry ==
    ASSUME TypeInv, HoursInv, FiledInv, RecordSegment, UNCHANGED runVars,
           NEW e, e = HourlyEntry
    PROVE  e \in Filed'
  <1>1. /\ pc = "record" /\ seqId' = seqId + 1 /\ clock' = clock
        /\ UNCHANGED <<store, startTime, histVars>> /\ seg'.num = seg.num
    BY DEF RecordSegment, FiledSeg, TypeInv, TypeOK, segVars
  <1>2. /\ seqId \in Nat /\ segIndex \in Nat /\ seqId = segIndex /\ seg.num = segIndex + 1
        /\ clock \in Nat /\ (startTime = NoTime \/ startTime \in Nat)
    BY <1>1, SegmenterAssumption
       DEF TypeInv, TypeOK, Numbering, Cutting, Listing
  <1>3. /\ e.num = seg.num /\ e.seq = seqId + 1
        /\ e.at = IF startTime = NoTime THEN clock ELSE startTime
    BY <1>2 DEF HourlyEntry, SegmentKey
  <1>4. e \in HourEntry
    BY <1>2, SegmenterAssumption DEF HourlyEntry, HourEntry, SegmentKey
  <1>5. e.at <= clock'
    BY <1>1, <1>2, <1>3 DEF HoursInv
  <1>6. ASSUME ~openFailed'
        PROVE  /\ e.num \in 1..seqId'
               /\ e.num \in uploaded' /\ closed'[e.num] # <<>> => Holds(e)'
    <2>1. e.num \in 1..seqId'
      BY <1>1, <1>2, <1>3
    <2>2. ASSUME e.num \in uploaded', closed'[e.num] # <<>>
          PROVE  Holds(e)'
      <3>1. ~openFailed /\ seg.num \in uploaded /\ closed[seg.num] # <<>>
        BY <1>1, <1>3, <1>6, <2>2 DEF histVars
      <3>2. startTime # NoTime
        BY <1>1, <3>1 DEF FiledInv, StartInv
      <3>3. Holds(Started)
        BY <1>1, <3>1, <3>2 DEF FiledInv
      <3>4. e.num = Started.num /\ e.at = Started.at
        BY <1>3, <3>2 DEF Started
      <3>5. QED BY <1>1, <3>3, <3>4 DEF Holds, histVars
    <2>3. QED BY <2>1, <2>2
  <1>7. QED BY <1>4, <1>5, <1>6 DEF Filed, HourStored

LEMMA FiledInvStep ==
    ASSUME RunsInv, FiledInv, [Next]_vars, UNCHANGED runVars
    PROVE  FiledInv'
  <1> USE DEF loopVars, segVars, hourVars, histVars
  <1>1. /\ TypeInv /\ TypeInv' /\ HoursInv /\ StartInv'
        /\ hourMap \in [Hours -> Seq(HourEntry)] /\ HourOf(clock) \in Hours
    <2>1. TypeInv /\ TypeInv' /\ HoursInv
      BY TypeStep DEF RunsInv
    <2>2. StartInv'
      BY <2>1, StartStep DEF FiledInv
    <2>3. QED BY <2>1, <2>2, SegmenterAssumption DEF TypeInv, TypeOK
  <1>2. seqId' <= Len(closed')
    <2>1. CASE pc' = "dead"
      <3>1. seqId' = seqId /\ closed' = closed
        <4>1. /\ Advance => pc' \in {"index_put", "measure", "recv", "close", "done"}
              /\ PublishIndex => pc' \in {"measure", "recv", "close", "done"}
              /\ Measure => pc' \in {"close", "recv"}
          BY <1>1, PcAfter
        <4>2. QED
          BY <2>1, <4>1
             DEF Next, vars, Receive, Stop, Disconnect, WriteTs, Close,
             CutSegment, UploadSegment, Presign, RecordSegment, PublishHour,
             ConsumerPop, Tick, Kill, Terminated
      <3>2. QED BY <3>1 DEF FiledInv
    <2>2. CASE pc' # "dead"
      <3>1. seqId' \in Nat /\ segIndex' \in Nat /\ Len(closed') \in Nat /\ Numbering'
        BY <1>1, DataKept DEF TypeInv, TypeOK
      <3>2. /\ Len(closed') = segIndex' + (IF pc' \in Cutting THEN 1 ELSE 0)
            /\ seqId' = segIndex' + (IF pc' \in Listing THEN 1 ELSE 0)
        BY <2>2, <3>1 DEF Numbering
      <3>3. pc' \in Listing => pc' \in Cutting
        BY DEF Listing, Cutting
      <3> DEFINE n == Len(closed')
      <3>4. /\ n \in Nat /\ seqId' \in Nat /\ segIndex' \in Nat
            /\ n = segIndex' + 0 \/ n = segIndex' + 1
            /\ seqId' = segIndex' + 0 \/ (seqId' = segIndex' + 1 /\ n = segIndex' + 1)
        BY <3>1, <3>2, <3>3
      <3>5. \A l, k, m \in Nat :
               /\ l = m + 0 \/ l = m + 1
               /\ k = m + 0 \/ (k = m + 1 /\ l = m + 1)
               => k <= l
        OBVIOUS
      <3> HIDE DEF n
      <3>6. seqId' <= n
        BY <3>4, <3>5
      <3>7. QED BY <3>6 DEF n
    <2>3. QED BY <2>1, <2>2
  <1>3. \/ uploaded' = uploaded
        \/ UploadSegment /\ pc = "upload" /\ uploaded' = uploaded \cup {seg.num}
    BY DEF Next, vars, Receive, Stop, Disconnect, WriteTs, Measure, Close,
       CutSegment, UploadSegment, Presign, RecordSegment, PublishHour, Advance,
       PublishIndex, ConsumerPop, Tick, Kill, Terminated
  <1>4. uploaded' \subseteq 1..Len(closed')
    <2>1. Len(closed) \in Nat /\ Len(closed') \in Nat /\ Len(closed) <= Len(closed')
      BY <1>1, DataKept
    <2>2. pc = "upload" => seg.num = Len(closed) /\ seg.num \in Nat /\ seg.num > 0
      <3>1. segIndex \in Nat
        BY <1>1 DEF TypeInv, TypeOK
      <3>2. QED BY <1>1, <3>1 DEF TypeInv, Numbering, Cutting
    <2>3. uploaded \subseteq 1..Len(closed)
      BY DEF FiledInv
    <2>4. uploaded' \subseteq 1..Len(closed)
      <3>1. pc = "upload" => seg.num \in 1..Len(closed)
        BY <2>1, <2>2
      <3>2. QED BY <1>3, <2>3, <3>1
    <2>5. QED BY <2>1, <2>4
  <1>5. pc' = "upload" => seg'.num \notin uploaded'
    <2> SUFFICES ASSUME pc' = "upload" PROVE seg'.num \notin uploaded'
      OBVIOUS
    <2>1. uploaded' = uploaded
      BY <1>3 DEF UploadSegment
    <2>2. CASE pc = "upload" /\ seg' = seg
      BY <2>1, <2>2 DEF FiledInv
    <2>3. CASE seg'.num = Len(closed) + 1
      <3>1. Len(closed) \in Nat /\ uploaded \subseteq 1..Len(closed)
        BY <1>1, DataKept DEF FiledInv
      <3>2. Len(closed) + 1 \notin 1..Len(closed)
        BY <3>1
      <3>3. QED BY <2>1, <2>3, <3>1, <3>2
    <2>4. QED BY <1>1, <2>2, <2>3, DataKept
  <1>6. /\ hourMap' \in [Hours -> Seq(Filed')]
        /\ pc' = "hourly_put" => hourMap'[seg'.hour] # <<>>
    <2>1. Filed \subseteq Filed'
      BY <1>1, FiledStep
    <2>2. hourMap \in [Hours -> Seq(Filed)]
      BY DEF FiledInv
    <2>3. hourMap \in [Hours -> Seq(Filed')]
      <3> HIDE DEF Filed
      <3>1. QED BY <2>1, <2>2
    <2>4. CASE RecordSegment
      <3>1. CASE hourMap' = File(HourOf(clock))
        <4> DEFINE T == Filed'
                   now == HourOf(clock)
        <4>1. PICK e : e = HourlyEntry
          OBVIOUS
        <4>2. e \in T
          BY <1>1, <2>4, <4>1, FiledEntry
        <4>3. /\ hourMap \in [Hours -> Seq(T)] /\ now \in Hours
              /\ hourMap' = [hourMap EXCEPT ![now] = Append(@, e)]
          BY <1>1, <2>3, <3>1, <4>1 DEF File
        <4>4. seg'.hour = now
          BY <1>1, <2>4 DEF RecordSegment, FiledSeg, TypeInv, TypeOK
        <4> HIDE DEF T, now
        <4>5. Append(hourMap[now], e) \in Seq(T) /\ Append(hourMap[now], e) # <<>>
          BY <4>2, <4>3, AppendProperties
        <4>6. hourMap' \in [Hours -> Seq(T)] /\ hourMap'[now] # <<>>
          BY <4>3, <4>5
        <4>7. QED BY <4>4, <4>6 DEF T
      <3>2. CASE UNCHANGED hourMap /\ pc' = "advance"
        BY <2>3, <3>2
      <3>3. QED BY <2>4, <3>1, <3>2 DEF RecordSegment
    <2>5. CASE ~RecordSegment
      <3>1. hourMap' = hourMap
        BY <2>5
           DEF Next, vars, Receive, Stop, Disconnect, WriteTs, Measure, Close,
           CutSegment, UploadSegment, Presign, PublishHour, Advance,
           PublishIndex, ConsumerPop, Tick, Kill, Terminated
      <3>2. pc' = "hourly_put" => pc = "hourly_put" /\ seg' = seg
        <4>1. /\ Advance => pc' \in {"index_put", "measure", "recv", "close", "done"}
              /\ PublishIndex => pc' \in {"measure", "recv", "close", "done"}
              /\ Measure => pc' \in {"close", "recv"}
          BY <1>1, PcAfter
        <4>2. QED
          BY <2>5, <4>1
             DEF Next, vars, Receive, Stop, Disconnect, WriteTs, Close,
             CutSegment, UploadSegment, Presign, PublishHour,
             ConsumerPop, Tick, Kill, Terminated
      <3>3. QED BY <2>3, <3>1, <3>2 DEF FiledInv
    <2>6. QED BY <2>4, <2>5
  <1>7. /\ hourIndex' \in [Hours -> Seq(Filed')]
        /\ \A h \in urlsLog' : hourIndex'[h] # <<>>
    <2>1. Filed \subseteq Filed'
      BY <1>1, FiledStep
    <2>2. /\ hourIndex \in [Hours -> Seq(Filed)] /\ hourMap \in [Hours -> Seq(Filed)]
          /\ \A h \in urlsLog : hourIndex[h] # <<>>
      BY DEF FiledInv
    <2>3. hourIndex \in [Hours -> Seq(Filed')] /\ hourMap \in [Hours -> Seq(Filed')]
      <3> HIDE DEF Filed
      <3>1. QED BY <2>1, <2>2
    <2>4. CASE PublishHour
      <3> DEFINE T == Filed'
      <3>1. /\ seg.hour \in Hours /\ hourMap[seg.hour] # <<>>
            /\ SortedHour = [hourIndex EXCEPT ![seg.hour] = hourMap[seg.hour]]
            /\ hourIndex' \in {hourIndex, SortedHour}
            /\ urlsLog' = urlsLog
               \/ (urlsLog' = urlsLog \cup {seg.hour} /\ hourIndex' = SortedHour)
        BY <1>1, <2>4, PublishedHour DEF FiledInv, PublishHour
      <3>2. hourIndex \in [Hours -> Seq(T)] /\ hourMap \in [Hours -> Seq(T)]
        BY <2>3
      <3> HIDE DEF T
      <3>3. hourIndex' \in [Hours -> Seq(T)]
        BY <3>1, <3>2
      <3>4. \A h \in Hours : hourIndex'[h] = hourIndex[h]
                             \/ (h = seg.hour /\ hourIndex'[h] = hourMap[h])
        BY <3>1, <3>2
      <3>5. urlsLog \subseteq Hours
        BY <1>1 DEF TypeInv, TypeOK
      <3>6. \A h \in urlsLog : hourIndex'[h] # <<>>
        BY <2>2, <3>1, <3>4, <3>5
      <3>7. urlsLog' = urlsLog \/ hourIndex'[seg.hour] # <<>>
        BY <3>1, <3>2
      <3>8. QED BY <3>1, <3>3, <3>6, <3>7 DEF T
    <2>5. CASE ~PublishHour
      BY <2>2, <2>3, <2>5, HourIndexKept
    <2>6. QED BY <2>4, <2>5
  <1>8. ASSUME ~openFailed', pc' \in {"presign", "record"}, seg'.num \in uploaded',
               startTime' # NoTime
        PROVE  Holds(Started)'
    <2>1. CASE UploadSegment
      <3>1. /\ startTime' = startTime /\ closed' = closed /\ pc = "upload"
            /\ seg'.num = seg.num /\ ~openFailed
        BY <1>1, <1>8, <2>1 DEF UploadSegment, MemName, TypeInv, TypeOK
      <3>2. seg.num \notin uploaded /\ seg.at = startTime
        BY <1>8, <3>1 DEF FiledInv, StartInv
      <3>3. PutObject
        BY <1>8, <2>1, <3>1, <3>2 DEF UploadSegment
      <3>4. Object \in store'
        BY <3>3 DEF PutObject
      <3>5. QED BY <3>1, <3>2, <3>4 DEF Object, Holds, Started
    <2>2. CASE ~UploadSegment
      <3>1. /\ pc \in {"presign", "record"} /\ seg'.num = seg.num
            /\ UNCHANGED <<startTime, closed, store, uploaded, openFailed>>
        <4>1. /\ Advance => pc' \in {"index_put", "measure", "recv", "close", "done"}
              /\ PublishIndex => pc' \in {"measure", "recv", "close", "done"}
              /\ Measure => pc' \in {"close", "recv"}
          BY <1>1, PcAfter
        <4>2. seg \in [num : Nat, at : Nat \cup {NoTime}, hour : Hours \cup {NoTime}]
          BY <1>1 DEF TypeInv, TypeOK
        <4>3. QED
          BY <1>8, <2>2, <4>1, <4>2
             DEF Next, vars, Receive, Stop, Disconnect, WriteTs, Close, MemName,
             CutSegment, Presign, RecordSegment, PublishHour,
             ConsumerPop, Tick, Kill, Terminated
      <3>2. Holds(Started)
        BY <1>8, <3>1 DEF FiledInv
      <3>3. QED BY <3>1, <3>2 DEF Holds, Started
    <2>3. QED BY <2>1, <2>2
  <1>9. QED BY <1>1, <1>2, <1>4, <1>5, <1>6, <1>7, <1>8 DEF FiledInv

LEMMA FiledRestart ==
    ASSUME RunsInv, FiledInv, Restart
    PROVE  FiledInv'
  <1>1. Filed \subseteq Filed'
    <2> SUFFICES ASSUME NEW e \in HourEntry, HourStored(e)
                 PROVE  e.at <= clock' /\ ~Mine(e)'
      BY DEF Filed, HourStored
    <2>1. e.at \in Nat /\ e.at <= clock /\ clock \in Nat
      BY SegmenterAssumption DEF HourEntry, HourStored, RunsInv, TypeInv, TypeOK
    <2>2. clock' = clock + 1 /\ began' = clock'
      BY DEF Restart
    <2>3. QED BY <2>1, <2>2 DEF Mine
  <1>2. hourIndex' \in [Hours -> Seq(Filed')]
    <2>1. hourIndex \in [Hours -> Seq(Filed)] /\ hourIndex' = hourIndex
      BY DEF FiledInv, Restart
    <2> HIDE DEF Filed
    <2>2. QED BY <1>1, <2>1
  <1>3. hourMap' \in [Hours -> Seq(Filed')]
    BY DEF Restart
  <1>4. /\ pc' = "recv" /\ seqId' = 0 /\ uploaded' = {} /\ urlsLog' = urlsLog
        /\ Len(closed') = 0 /\ hourIndex' = hourIndex
    BY DEF Restart
  <1>5. StartInv'
    BY DEF Restart, StartInv, Closing
  <1>6. \A h \in urlsLog' : hourIndex'[h] # <<>>
    BY <1>4 DEF FiledInv
  <1>7. QED BY <1>2, <1>3, <1>4, <1>5, <1>6 DEF FiledInv

(* An acknowledged segment with data is found by its entry in the index of *)
(* the hour as long as no close of its run returned early, and the urls    *)
(* log never names an index that is not there, over kills and restarts.    *)
THEOREM HoursStoredCorrect == RestartSpec => []HoursStoredAcrossRuns
<1>1. RestartSpec => []RunsInv
  BY RunsInit, RunsStep, PTL DEF RestartSpec
<1>2. RunsInv /\ FiledInv /\ [RestartNext]_restartVars => FiledInv'
  BY RestartOrStep, FiledInvStep, FiledRestart
<1>3. FiledInv => HoursStoredAcrossRuns
  <2> SUFFICES ASSUME FiledInv, ~openFailed, NEW h \in Hours,
                      NEW i \in DOMAIN hourIndex[h],
                      Mine(hourIndex[h][i]), hourIndex[h][i].num \in uploaded,
                      closed[hourIndex[h][i].num] # <<>>
               PROVE  Holds(hourIndex[h][i])
    BY DEF FiledInv, HoursStoredAcrossRuns
  <2>1. hourIndex[h][i] \in Filed
    <3>1. hourIndex[h] \in Seq(Filed)
      BY DEF FiledInv
    <3> HIDE DEF Filed
    <3>2. QED BY <3>1, ElementOfSeq
  <2>2. QED BY <2>1 DEF Filed, HourStored
<1>4. QED BY <1>1, <1>2, <1>3, FiledInit, PTL DEF RestartSpec
-----------------------------------------------------------------------------
(* What players and indexes see of a restart.                              *)

(* A playlist of the present run: numbered from its media sequence number, *)
(* and behind the rolling playlist while the process lives.                *)
Consecutive(p) == \A i \in DOMAIN p.entries : p.entries[i].num = p.seq + i

Ours(p) ==
    /\ Consecutive(p)
    /\ pc # "dead" => Behind(p, LastListed - Len(playlist), LastListed)

(* WindowInv holds for what a run has rendered. The local file may be one  *)
(* it found until then; once the published playlist is not (always, in the *)
(* first run), the file is of this run and the published copy behind it.   *)
RunInv ==
    /\ pc # "dead" => PlaylistRun
    /\ localM3u8 \in found.lists \/ Ours(localM3u8)
    /\ runs = 1 \/ liveIndex \notin found.lists =>
         /\ Ours(localM3u8) /\ Consecutive(liveIndex)
         /\ Behind(liveIndex, localM3u8.seq, localM3u8.seq + Len(localM3u8.entries))

LEMMA RunInit == RestartInit => RunInv
  <1> SUFFICES ASSUME RestartInit PROVE RunInv
    OBVIOUS
  <1>1. /\ playlist = <<>> /\ segIndex = 0 /\ pc = "recv" /\ LastListed = 0
        /\ localM3u8 = [seq |-> 0, entries |-> <<>>] /\ liveIndex = localM3u8
    BY DEF RestartInit, Init, NoPlaylist, LastListed, Listing
  <1>2. PlaylistRun
    BY <1>1 DEF PlaylistRun, Listing
  <1>3. Ours(localM3u8) /\ Consecutive(liveIndex)
        /\ Behind(liveIndex, localM3u8.seq, localM3u8.seq + Len(localM3u8.entries))
    BY <1>1 DEF Ours, Consecutive, Behind
  <1>4. QED BY <1>2, <1>3 DEF RunInv

(* The rolling playlist stays a run, and what was behind it stays behind.  *)
LEMMA OursKept ==
    ASSUME TypeInv, pc # "dead" => PlaylistRun, [Next]_vars
    PROVE  /\ pc' # "dead" => PlaylistRun'
           /\ \A p \in Playlist : Ours(p) => Ours(p)'
           /\ liveIndex' \in {liveIndex, localM3u8}
           /\ Advance \/ localM3u8' = localM3u8
  <1> USE DEF loopVars, segVars, hourVars, histVars
  <1>1. /\ liveIndex' \in {liveIndex, localM3u8}
        /\ Advance \/ localM3u8' = localM3u8
    BY DEF Next, vars, Receive, Stop, Disconnect, WriteTs, Measure, Close,
       CutSegment, UploadSegment, Presign, RecordSegment, PublishHour, Advance,
       PublishIndex, ConsumerPop, Tick, Kill, Terminated
  <1>2. CASE RecordSegment
    <2>1. pc = "record"
      BY <1>2 DEF RecordSegment
    <2>2. QED BY <1>1, <1>2, <2>1, RunRecord DEF Ours
  <1>3. CASE ~RecordSegment
    <2>1. /\ playlist' = playlist
          /\ pc' # "dead" => /\ pc # "dead" /\ LastListed' = LastListed
                             /\ pc' \in Listing => pc \in Listing
      <3>1. playlist' = playlist
        BY <1>3
           DEF Next, vars, Receive, Stop, Disconnect, WriteTs, Measure, Close,
           CutSegment, UploadSegment, Presign, PublishHour, Advance,
           PublishIndex, ConsumerPop, Tick, Kill, Terminated
      <3>2. CASE Advance
        <4>1. pc = "advance" /\ segIndex' = segIndex + 1 /\ segIndex \in Nat
              /\ pc' \notin Listing
          BY <3>2, PcAfter DEF Advance, Listing, TypeInv, TypeOK
        <4>2. QED BY <3>1, <4>1 DEF LastListed, Listing
      <3>3. CASE ~Advance
        <4>1. PublishIndex => pc = "index_put" /\ pc' \notin Listing
          <5>1. PublishIndex => pc = "index_put"
            BY DEF PublishIndex
          <5>2. PublishIndex => pc' \in {"measure", "recv", "close", "done"}
            BY PcAfter
          <5>3. QED BY <5>1, <5>2 DEF Listing
        <4>2. Measure => pc = "measure" /\ pc' \notin Listing
          BY PcAfter DEF Measure, Listing
        <4>3. segIndex' = segIndex
          BY <1>3, <3>3
             DEF Next, vars, Receive, Stop, Disconnect, WriteTs, Measure, Close,
             CutSegment, UploadSegment, Presign, PublishHour,
             PublishIndex, ConsumerPop, Tick, Kill, Terminated
        <4>4. pc' # "dead" => pc # "dead" /\ (pc' \in Listing <=> pc \in Listing)
          BY <1>3, <3>3, <4>1, <4>2
             DEF Next, vars, Receive, Stop, Disconnect, WriteTs, Close,
             CutSegment, UploadSegment, Presign, PublishHour,
             ConsumerPop, Tick, Kill, Terminated, Ended, Listing
        <4>5. QED BY <3>1, <4>3, <4>4 DEF LastListed
      <3>4. QED BY <3>2, <3>3
    <2>2. QED BY <1>1, <2>1 DEF Ours, PlaylistRun
  <1>4. QED BY <1>2, <1>3

(* The file that Advance renders is the rolling playlist itself.           *)
LEMMA RunAdvance ==
    ASSUME TypeInv, PlaylistRun, Advance, localM3u8' # localM3u8
    PROVE  /\ Ours(localM3u8)'
           /\ localM3u8'.seq = LastListed - Len(playlist)
           /\ localM3u8'.entries = playlist
  <1>1. /\ pc = "advance" /\ segIndex' = segIndex + 1 /\ playlist' = playlist
        /\ localM3u8' = [seq |-> SeqStart(segIndex'), entries |-> playlist]
    BY DEF Advance
  <1>2. segIndex \in Nat /\ playlist \in Seq(PlaylistEntry)
    BY DEF TypeInv, TypeOK
  <1>3. Len(playlist) \in Nat
    BY <1>2
  <1>4. LastListed = segIndex + 1 /\ LastListed' = segIndex + 1
    <2>1. pc' \notin Listing
      BY PcAfter DEF Listing
    <2>2. QED BY <1>1, <1>2, <2>1 DEF LastListed, Listing
  <1>5. SeqStart(segIndex') = LastListed - Len(playlist)
    BY <1>1, <1>2, <1>3, <1>4 DEF SeqStart, PlaylistRun
  <1>6. /\ localM3u8'.seq = LastListed - Len(playlist)
        /\ localM3u8'.entries = playlist
    BY <1>1, <1>5
  <1>7. Consecutive(localM3u8')
    BY <1>6 DEF Consecutive, PlaylistRun
  <1>8. Behind(localM3u8', LastListed - Len(playlist), LastListed)
    BY <1>2, <1>3, <1>4, <1>6 DEF Behind
  <1>9. QED BY <1>1, <1>4, <1>6, <1>7, <1>8 DEF Ours, Consecutive, Behind

LEMMA RunStep ==
    ASSUME RunsInv, RunInv, [Next]_vars, UNCHANGED runVars
    PROVE  RunInv'
  <1>1. /\ TypeInv /\ localM3u8 \in Playlist /\ liveIndex \in Playlist
        /\ playlist \in Seq(PlaylistEntry)
    BY DEF RunsInv, TypeInv, TypeOK
  <1>2. /\ pc' # "dead" => PlaylistRun'
        /\ \A p \in Playlist : Ours(p) => Ours(p)'
        /\ liveIndex' \in {liveIndex, localM3u8}
        /\ Advance \/ localM3u8' = localM3u8
    BY <1>1, OursKept DEF RunInv
  <1>3. runs' = runs /\ found' = found
    BY DEF runVars
  <1>4. localM3u8' # localM3u8 => Ours(localM3u8)'
    <2>1. Advance => PlaylistRun
      BY DEF Advance, RunInv
    <2>2. QED BY <1>1, <1>2, <2>1, RunAdvance
  <1>5. Ours(localM3u8) => Ours(localM3u8)'
    <2>1. CASE localM3u8' = localM3u8
      BY <1>1, <1>2, <2>1 DEF Ours, Consecutive, Behind
    <2>2. QED BY <1>4, <2>1
  <1>6. localM3u8' \in found'.lists \/ Ours(localM3u8)'
    <2>1. localM3u8' = localM3u8 \/ Ours(localM3u8)'
      BY <1>4
    <2>2. QED BY <1>3, <1>5, <2>1 DEF RunInv
  <1>7. ASSUME runs' = 1 \/ liveIndex' \notin found'.lists
        PROVE  /\ Ours(localM3u8)' /\ Consecutive(liveIndex')
               /\ Behind(liveIndex', localM3u8'.seq,
                         localM3u8'.seq + Len(localM3u8'.entries))
    <2>1. /\ Ours(localM3u8) /\ Consecutive(liveIndex')
          /\ Behind(liveIndex', localM3u8.seq, localM3u8.seq + Len(localM3u8.entries))
      <3>1. CASE liveIndex' = liveIndex
        BY <1>3, <1>7, <3>1 DEF RunInv
      <3>2. CASE liveIndex' = localM3u8
        <4>1. Ours(localM3u8)
          BY <1>3, <1>7, <3>2 DEF RunInv
        <4>2. Behind(localM3u8, localM3u8.seq, localM3u8.seq + Len(localM3u8.entries))
          BY <1>1 DEF Behind, Playlist
        <4>3. QED BY <3>2, <4>1, <4>2 DEF Ours
      <3>3. QED BY <1>2, <3>1, <3>2
    <2>2. Behind(liveIndex', localM3u8'.seq, localM3u8'.seq + Len(localM3u8'.entries))
      <3>1. CASE localM3u8' = localM3u8
        BY <2>1, <3>1
      <3>2. CASE localM3u8' # localM3u8
        <4>1. /\ localM3u8'.seq = LastListed - Len(playlist)
              /\ localM3u8'.entries = playlist
              /\ pc # "dead"
          <5>1. Advance
            BY <1>2, <3>2
          <5>2. pc # "dead" /\ PlaylistRun
            BY <5>1 DEF Advance, RunInv
          <5>3. QED BY <1>1, <3>2, <5>1, <5>2, RunAdvance
        <4>2. liveIndex' \in Playlist /\ LastListed \in Nat
          BY <1>1, <1>2 DEF TypeInv, TypeOK, LastListed
        <4>3. /\ localM3u8.seq <= LastListed - Len(playlist)
              /\ localM3u8.seq + Len(localM3u8.entries) <= LastListed
          BY <2>1, <4>1 DEF Ours, Behind
        <4> DEFINE first == LastListed - Len(playlist)
        <4>4. /\ localM3u8.seq \in Nat /\ Len(localM3u8.entries) \in Nat
              /\ Len(playlist) \in Nat /\ first + Len(playlist) = LastListed
          BY <1>1, <4>2 DEF Playlist
        <4>5. Behind(liveIndex', first, first + Len(playlist))
          <5>1. PICK p \in Playlist : p = liveIndex'
            BY <4>2
          <5>2. /\ p.seq <= localM3u8.seq
                /\ p.seq + Len(p.entries) <= localM3u8.seq + Len(localM3u8.entries)
            BY <2>1, <5>1 DEF Behind
          <5>3. p.seq \in Nat /\ Len(p.entries) \in Nat
            BY DEF Playlist
          <5>4. first \in Int /\ localM3u8.seq <= first
            BY <4>2, <4>3, <4>4
          <5> HIDE DEF first
          <5>5. p.seq <= first
            BY <4>4, <5>2, <5>3, <5>4
          <5>6. p.seq + Len(p.entries) <= LastListed
            <6>1. \A a, b, c, d, e \in Nat : a + b <= c + d /\ c + d <= e => a + b <= e
              OBVIOUS
            <6>2. QED BY <4>2, <4>3, <4>4, <5>2, <5>3, <6>1
          <5>7. Behind(p, first, first + Len(playlist))
            BY <4>4, <5>5, <5>6 DEF Behind
          <5>8. QED BY <5>1, <5>7
        <4>6. QED BY <4>1, <4>5
      <3>3. QED BY <3>1, <3>2
    <2>3. QED BY <1>5, <2>1, <2>2
  <1>8. QED BY <1>2, <1>6, <1>7 DEF RunInv, Consecutive

LEMMA RunRestart == RunsInv /\ Restart => RunInv'
  <1> SUFFICES ASSUME RunsInv, Restart PROVE RunInv'
    OBVIOUS
  <1>1. /\ playlist' = <<>> /\ segIndex' = 0 /\ pc' = "recv"
        /\ localM3u8' = localM3u8 /\ liveIndex' = liveIndex
        /\ found'.lists = {liveIndex, localM3u8} /\ runs' # 1
    BY DEF Restart, Present, RunsInv
  <1>2. PlaylistRun'
    BY <1>1 DEF PlaylistRun, LastListed, Listing
  <1>3. localM3u8' \in found'.lists /\ liveIndex' \in found'.lists
    BY <1>1
  <1>4. QED BY <1>1, <1>2, <1>3 DEF RunInv

(* Once a run has published a playlist no segment changes its media        *)
(* sequence number and the window never moves back; only the first one a   *)
(* restarted run publishes moves it.                                       *)
THEOREM SequenceStableInRun == RestartSpec => SequenceStableWithinRun
<1>1. RestartSpec => []RunsInv
  BY RunsInit, RunsStep, PTL DEF RestartSpec
<1>2. RunsInv /\ RunInv /\ [RestartNext]_restartVars => RunInv'
  BY RestartOrStep, RunStep, RunRestart
<1> DEFINE Published == runs = 1 \/ liveIndex \notin found.lists
<1>3. RunsInv /\ RunInv /\ [RestartNext]_restartVars
        => [Published => SequenceKept]_restartVars
  <2> SUFFICES ASSUME RunsInv, RunInv, [RestartNext]_restartVars, Published
               PROVE  SequenceKept
    OBVIOUS
  <2>1. liveIndex \in Playlist /\ localM3u8 \in Playlist
    BY DEF RunsInv, TypeInv, TypeOK
  <2>2. liveIndex' \in {liveIndex, localM3u8}
    <3>1. Restart => liveIndex' = liveIndex
      BY DEF Restart
    <3>2. [Next]_vars => liveIndex' \in {liveIndex, localM3u8}
      BY OursKept DEF RunsInv, RunInv
    <3>3. QED BY <3>1, <3>2, RestartOrStep
  <2>3. /\ Consecutive(liveIndex) /\ Consecutive(localM3u8)
        /\ liveIndex.seq <= localM3u8.seq
    BY DEF RunInv, Ours, Behind
  <2>4. PICK p \in Playlist : p = liveIndex' /\ Consecutive(p) /\ liveIndex.seq <= p.seq
    BY <2>1, <2>2, <2>3 DEF Playlist
  <2>5. QED BY <2>1, <2>3, <2>4 DEF SequenceKept, Consecutive, Playlist
<1> HIDE DEF Published
<1>4. RestartSpec => [][Published => SequenceKept]_restartVars
  BY <1>1, <1>2, <1>3, RunInit, PTL DEF RestartSpec
<1>5. QED BY <1>4 DEF SequenceStableWithinRun, Published

(* A prefix, place by place.                                               *)
LEMMA PrefixPlaces ==
    ASSUME NEW T, NEW s \in Seq(T), NEW t \in Seq(T)
    PROVE  IsPrefix(s, t) <=> /\ Len(s) <= Len(t)
                              /\ \A i \in 1..Len(s) : s[i] = t[i]
  <1>1. Len(s) \in Nat /\ Len(t) \in Nat /\ 1 \in Int
    BY LenProperties
  <1>2. SubSeq(s, 1, Len(s)) = s
    BY SubSeqFull
  <1>3. ASSUME Len(s) <= Len(t)
        PROVE  /\ SubSeq(t, 1, Len(s)) \in Seq(T)
               /\ Len(SubSeq(t, 1, Len(s))) = Len(s)
               /\ \A i \in 1..Len(s) : SubSeq(t, 1, Len(s))[i] = t[i]
    <2>1. \A i \in 1..Len(s) : t[i] \in T
      <3>1. \A i \in 1..Len(s) : i \in 1..Len(t)
        BY <1>1, <1>3
      <3>2. QED BY <3>1, ElementOfSeq
    <2>2. /\ SubSeq(t, 1, Len(s)) \in Seq(T)
          /\ Len(SubSeq(t, 1, Len(s))) = IF 1 <= Len(s) THEN Len(s) - 1 + 1 ELSE 0
          /\ \A i \in 1..(Len(s) - 1 + 1) : SubSeq(t, 1, Len(s))[i] = t[1 + i - 1]
      BY <1>1, <2>1, SubSeqProperties
    <2>3. QED BY <1>1, <2>2
  <1>4. CASE Len(s) <= Len(t)
    <2> DEFINE u == SubSeq(t, 1, Len(s))
    <2>1. u \in Seq(T) /\ Len(u) = Len(s) /\ \A i \in 1..Len(s) : u[i] = t[i]
      BY <1>3, <1>4
    <2>2. IsPrefix(s, t) <=> s = u
      BY <1>2, <1>4 DEF IsPrefix
    <2> HIDE DEF u
    <2>3. ASSUME \A i \in 1..Len(s) : s[i] = t[i] PROVE s = u
      BY <2>1, <2>3, SeqEqual
    <2>4. QED BY <1>4, <2>1, <2>2, <2>3
  <1>5. CASE ~(Len(s) <= Len(t))
    BY <1>5 DEF IsPrefix
  <1>6. QED BY <1>4, <1>5

LEMMA PrefixSame == ASSUME NEW T, NEW s \in Seq(T) PROVE IsPrefix(s, s)
  BY PrefixPlaces, LenProperties

LEMMA PrefixAppend ==
    ASSUME NEW T, NEW s \in Seq(T), NEW t \in Seq(T), NEW e \in T, IsPrefix(s, t)
    PROVE  IsPrefix(s, Append(t, e))
  <1>1. Len(s) <= Len(t) /\ \A i \in 1..Len(s) : s[i] = t[i]
    BY PrefixPlaces
  <1>2. /\ Append(t, e) \in Seq(T) /\ Len(Append(t, e)) = Len(t) + 1
        /\ \A i \in 1..Len(t) : Append(t, e)[i] = t[i]
    BY AppendProperties
  <1>3. Len(s) \in Nat /\ Len(t) \in Nat
    BY LenProperties
  <1>4. Len(s) <= Len(Append(t, e))
    BY <1>1, <1>2, <1>3
  <1>5. \A i \in 1..Len(s) : s[i] = Append(t, e)[i]
    BY <1>1, <1>2, <1>3
  <1>6. QED BY <1>2, <1>4, <1>5, PrefixPlaces

(* The list of an hour is only appended to; what is published for the hour *)
(* is an earlier state of it, or still what a restarted run found.         *)
GrowInv ==
    \A h \in Hours : \/ IsPrefix(hourIndex[h], hourMap[h])
                     \/ runs > 1 /\ hourIndex[h] = found.hours[h]

LEMMA GrowInit == RestartInit => GrowInv
  <1> SUFFICES ASSUME RestartInit, NEW h \in Hours
               PROVE  IsPrefix(hourIndex[h], hourMap[h])
    BY DEF GrowInv
  <1>1. hourIndex[h] = <<>> /\ hourMap[h] = <<>>
    BY DEF RestartInit, Init
  <1>2. <<>> \in Seq(HourEntry)
    OBVIOUS
  <1>3. QED BY <1>1, <1>2, PrefixSame

(* What a step publishes for an hour, and what it appends to its list.     *)
LEMMA HourStep ==
    ASSUME RunsInv, [Next]_vars, NEW h \in Hours
    PROVE  /\ hourMap[h] \in Seq(HourEntry) /\ hourIndex[h] \in Seq(HourEntry)
           /\ hourIndex'[h] \in {hourIndex[h], hourMap[h]}
           /\ \/ hourMap'[h] = hourMap[h]
              \/ /\ hourIndex'[h] = hourIndex[h]
                 /\ \E e \in HourEntry : hourMap'[h] = Append(hourMap[h], e)
  <1>1. /\ hourMap \in [Hours -> Seq(HourEntry)]
        /\ hourIndex \in [Hours -> Seq(HourEntry)] /\ TypeInv /\ HoursInv
    BY DEF RunsInv, TypeInv, TypeOK
  <1>2. hourIndex'[h] \in {hourIndex[h], hourMap[h]}
    <2>1. CASE PublishHour
      BY <1>1, <2>1, PublishedHour
    <2>2. CASE ~PublishHour
      BY <2>2, HourIndexKept
    <2>3. QED BY <2>1, <2>2
  <1>3. hourMap' = hourMap \/ (RecordSegment /\ hourMap' = File(HourOf(clock)))
    BY DEF Next, vars, Receive, Stop, Disconnect, WriteTs, Measure, Close,
       CutSegment, UploadSegment, Presign, RecordSegment, PublishHour, Advance,
       PublishIndex, ConsumerPop, Tick, Kill, Terminated, hourVars
  <1>4. CASE hourMap' = hourMap
    BY <1>1, <1>2, <1>4
  <1>5. CASE RecordSegment /\ hourMap' = File(HourOf(clock))
    <2>1. hourIndex' = hourIndex /\ HourlyEntry \in HourEntry
      <3>1. hourIndex' = hourIndex
        BY <1>5 DEF RecordSegment
      <3>2. /\ seqId \in Nat /\ segIndex \in Nat /\ clock \in Nat
            /\ startTime = NoTime \/ startTime \in Nat
        BY <1>1, SegmenterAssumption DEF TypeInv, TypeOK
      <3>3. HourlyEntry \in HourEntry
        BY <3>2, SegmenterAssumption DEF HourlyEntry, HourEntry, SegmentKey
      <3>4. QED BY <3>1, <3>3
    <2>2. hourMap'[h] \in {hourMap[h], Append(hourMap[h], HourlyEntry)}
      BY <1>1, <1>5 DEF File
    <2>3. QED BY <1>1, <1>2, <2>1, <2>2
  <1>6. QED BY <1>3, <1>4, <1>5

LEMMA GrowStep ==
    ASSUME RunsInv, GrowInv, [Next]_vars, UNCHANGED runVars
    PROVE  GrowInv'
  <1> SUFFICES ASSUME NEW h \in Hours
               PROVE  \/ IsPrefix(hourIndex'[h], hourMap'[h])
                      \/ runs > 1 /\ hourIndex'[h] = found.hours[h]
    BY DEF GrowInv, runVars
  <1>1. \/ IsPrefix(hourIndex[h], hourMap[h])
        \/ runs > 1 /\ hourIndex[h] = found.hours[h]
    BY DEF GrowInv
  <1>2. CASE hourMap'[h] = hourMap[h]
    BY <1>1, <1>2, HourStep, PrefixSame
  <1>3. CASE hourMap'[h] # hourMap[h]
    <2>1. hourIndex'[h] = hourIndex[h]
          /\ \E e \in HourEntry : hourMap'[h] = Append(hourMap[h], e)
      BY <1>3, HourStep
    <2>2. QED BY <1>1, <2>1, HourStep, PrefixAppend
  <1>4. QED BY <1>2, <1>3

LEMMA GrowRestart == RunsInv /\ Restart => GrowInv'
  <1> SUFFICES ASSUME RunsInv, Restart, NEW h \in Hours
               PROVE  runs' > 1 /\ hourIndex'[h] = found'.hours[h]
    BY DEF GrowInv
  <1>1. QED BY DEF RunsInv, Restart, Present

(* The published index of an hour only grows, but for the first one that a *)
(* restarted run publishes for the hour.                                   *)
THEOREM HoursGrowInRun == RestartSpec => HoursGrowWithinRun
<1>1. RestartSpec => []RunsInv
  BY RunsInit, RunsStep, PTL DEF RestartSpec
<1>2. RunsInv /\ GrowInv /\ [RestartNext]_restartVars => GrowInv'
  BY RestartOrStep, GrowStep, GrowRestart
<1> DEFINE Grows ==
      \A h \in Hours : \/ IsPrefix(hourIndex[h], hourIndex'[h])
                       \/ runs > 1 /\ hourIndex[h] = found.hours[h]
<1>3. RunsInv /\ GrowInv /\ [RestartNext]_restartVars => [Grows]_restartVars
  <2> SUFFICES ASSUME RunsInv, GrowInv, [RestartNext]_restartVars, NEW h \in Hours,
                      ~(runs > 1 /\ hourIndex[h] = found.hours[h])
               PROVE  IsPrefix(hourIndex[h], hourIndex'[h])
    OBVIOUS
  <2>1. hourIndex[h] \in Seq(HourEntry) /\ IsPrefix(hourIndex[h], hourMap[h])
    BY DEF RunsInv, GrowInv
  <2>2. hourIndex'[h] \in {hourIndex[h], hourMap[h]}
    <3>1. Restart => hourIndex' = hourIndex
      BY DEF Restart
    <3>2. QED BY <3>1, RestartOrStep, HourStep
  <2>3. QED BY <2>1, <2>2, PrefixSame
<1> HIDE DEF Grows
<1>4. RestartSpec => [][Grows]_restartVars
  BY <1>1, <1>2, <1>3, GrowInit, PTL DEF RestartSpec
<1>5. QED BY <1>4 DEF HoursGrowWithinRun, Grows
=============================================================================
