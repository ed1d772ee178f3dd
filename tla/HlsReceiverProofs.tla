------------------------- MODULE HlsReceiverProofs --------------------------
(***************************************************************************)
(* For every playlist, however its window moves, and every capacity of the *)
(* history that holds a window: segments are played once, in their order,  *)
(* and none of a playlist gone through is left out; a live playback begins *)
(* behind its first playlist; a VOD playback plays its range.              *)
(*                                                                         *)
(* The history forgets its oldest uris, so that the receiver does not know *)
(* all it has taken. What makes it work is that it knows enough: what it   *)
(* has taken and forgotten lies a whole history before the last it took    *)
(* (Remembers), and no list reaches back as far. The numbers in the queue  *)
(* grow by one at least from place to place (QueueGrows), which is what    *)
(* bounds how far back the history reaches.                                *)
(***************************************************************************)
EXTENDS HlsReceiver, SequenceTheorems, TLAPS

(* The history holds the window of a live playlist of urls.                *)
WithinHistory ==
    \/ Vod
    \/ /\ UriKind # "rooted"
       /\ Window \in 1..HistCap \/ (Window = 0 /\ Segments <= HistCap)

(* The offsets of the segments grow along the list.                        *)
OffsetsGrow == \A m, n \in 1..Segments : m <= n => Offset[m] <= Offset[n]

(* Where the receiver works on a segment, and where it is over, are names  *)
(* for program points only.                                                *)
USE DEF Busy, Over

Within(n) == StartTime <= Offset[n] /\ (EndTime = 0 \/ Offset[n] <= EndTime)

-----------------------------------------------------------------------------
(* The invariant.                                                          *)

(* The segments a live playback has dealt with under the uri it looks up.  *)
Taken ==
    Range(got) \cup failed
      \cup (IF Busy THEN {Current} ELSE {})
      \cup (IF UriKind = "relative" THEN {} ELSE noted)

Kind == IF UriKind = "relative" THEN "absolute" ELSE UriKind

QueueGrows ==
    \A i, j \in DOMAIN queue : i <= j /\ queue[i][1] = Kind =>
        queue[j][1] = Kind /\ queue[j][2] >= queue[i][2] + (j - i)

QueueSeen == \A i \in DOMAIN queue : queue[i][1] = Kind => queue[i] \in seen

SeenTaken == \A n \in 1..Segments : <<Kind, n>> \in seen => n \in Taken

Remembers ==
    \A n \in Taken : <<Kind, n>> \in seen \/ \E k \in Taken : n + HistCap <= k

(* What the window still holds of what has been passed is taken.           *)
NoGap == \A n \in 1..Segments, k \in Taken : Oldest <= n /\ n <= k => n \in Taken

(* The list it is going through.                                           *)
ListInOrder ==
    pc \in {"walk", "download", "send"} =>
        \A i \in 1..Len(list) : list[i] = list[1] + i - 1

ListAhead ==
    pc \in {"walk", "download", "send"} /\ list # <<>> =>
        /\ Len(list) <= HistCap /\ list[Len(list)] <= last
        /\ \A k \in Taken : k <= list[Len(list)]
        /\ \A i \in 1..Len(list) : list[i] \in Taken \/ \A k \in Taken : k < list[i]
        /\ \A n \in 1..Segments : Oldest <= n /\ n < list[1] => n \in Taken

GotGrows ==
    /\ \A i, j \in DOMAIN got : i < j => got[i] < got[j]
    /\ Busy => \A k \in Range(got) : k < Current

NotNoted ==
    UriKind # "relative" =>
        noted \cap Range(got) = {} /\ (Busy => Current \notin noted)

FirstPoll ==
    first => /\ got = <<>> /\ failed = {} /\ offered = {} /\ noted = {}
             /\ seen = {} /\ queue = <<>> /\ pc \in {"poll", "ended"}

LiveInv ==
    /\ FirstPoll /\ GotGrows /\ NotNoted
    /\ ~Over =>
         /\ Taken \subseteq 1..last
         /\ QueueGrows /\ QueueSeen /\ SeenTaken /\ Remembers /\ NoGap
         /\ ListAhead
         /\ ~flag => offered \subseteq Range(got) \cup failed \cup noted \cup Range(list)

VodInv ==
    /\ ~first /\ noted = {} /\ GotGrows
    /\ pc = "poll" => got = <<>> /\ failed = {} /\ offered = {} /\ seen = {}
    /\ pc = "ended" /\ ~flag => list = <<>>
    /\ pc \in {"walk", "download", "send"} =>
         \A i \in 1..Len(list) :
           /\ \A k \in Range(got) : k < list[i]
           /\ \A n \in 1..Segments : <<Kind, n>> \in seen =>
                 n < list[i] \/ (Busy /\ n = list[1])
    /\ UriKind # "rooted" /\ OffsetsGrow =>
         \A n \in offered : Within(n) =>
            /\ ~Over \/ (pc = "ended" /\ ~flag)
                  => n \in Range(got) \cup failed \cup Range(list)
            /\ (\E k \in Range(got) : n < k) => n \in Range(got) \cup failed

IInv ==
    /\ TypeOK /\ ListInOrder /\ (pc = "poll" => list = <<>>)
    /\ ~Vod /\ WithinHistory => LiveInv
    /\ Vod => VodInv

-----------------------------------------------------------------------------
(* Sequences.                                                              *)

LEMMA RangeAppend ==
    ASSUME NEW S, NEW s \in Seq(S), NEW x
    PROVE  Range(Append(s, x)) = Range(s) \cup {x}
  <1> DEFINE t == Append(s, x)
             U == S \cup {x}
  <1>1. s \in Seq(U) /\ x \in U
    OBVIOUS
  <1> HIDE DEF U
  <1>2. /\ t \in Seq(U) /\ Len(t) = Len(s) + 1 /\ Len(s) \in Nat
        /\ \A i \in 1..Len(s) : t[i] = s[i]
        /\ t[Len(s) + 1] = x
    BY <1>1, AppendProperties, LenProperties
  <1> HIDE DEF t
  <1>3. Range(t) = {t[i] : i \in 1..Len(t)} /\ Range(s) = {s[i] : i \in 1..Len(s)}
    BY <1>2 DEF Range
  <1>4. \A i \in 1..Len(t) : i \in 1..Len(s) \/ i = Len(s) + 1
    BY <1>2
  <1>5. 1..Len(s) \subseteq 1..Len(t) /\ Len(s) + 1 \in 1..Len(t)
    BY <1>2
  <1>6. QED BY <1>2, <1>3, <1>4, <1>5 DEF t

LEMMA RangeOf ==
    ASSUME NEW S, NEW s \in Seq(S)
    PROVE  Range(s) = {s[i] : i \in 1..Len(s)} /\ Range(s) \subseteq S
  BY DEF Range

LEMMA AppendGrows ==
    ASSUME NEW s \in Seq(1..Segments), NEW x \in 1..Segments,
           \A i, j \in DOMAIN s : i < j => s[i] < s[j],
           \A k \in Range(s) : k < x
    PROVE  \A i, j \in DOMAIN Append(s, x) : i < j => Append(s, x)[i] < Append(s, x)[j]
  <1> DEFINE t == Append(s, x)
  <1>1. /\ Len(t) = Len(s) + 1 /\ t[Len(s) + 1] = x /\ Len(s) \in Nat
        /\ \A i \in 1..Len(s) : t[i] = s[i]
        /\ DOMAIN t = 1..(Len(s) + 1) /\ DOMAIN s = 1..Len(s)
    BY AppendProperties, LenProperties
  <1> HIDE DEF t
  <1>2. \A i \in 1..Len(s) : s[i] < x
    BY RangeOf
  <1>3. ASSUME NEW i \in 1..(Len(s) + 1), NEW j \in 1..(Len(s) + 1), i < j
        PROVE  t[i] < t[j]
    <2>1. CASE j = Len(s) + 1
      <3>1. i \in 1..Len(s)
        BY <1>1, <1>3, <2>1
      <3>2. QED BY <1>1, <1>2, <2>1, <3>1
    <2>2. CASE j # Len(s) + 1
      <3>1. i \in 1..Len(s) /\ j \in 1..Len(s)
        BY <1>1, <1>3, <2>2
      <3>2. QED BY <1>1, <1>3, <3>1
    <2>3. QED BY <2>1, <2>2
  <1>4. QED BY <1>1, <1>3 DEF t

LEMMA PlaylistIs ==
    ASSUME last \in 0..Segments, sit \in Situations
    PROVE  /\ Oldest \in 1..(last + 1)
           /\ Playlist \in Seq(1..Segments) /\ Len(Playlist) = last - Oldest + 1
           /\ \A i \in 1..Len(Playlist) : Playlist[i] = Oldest + i - 1
           /\ Range(Playlist) = Oldest..last
  <1>1. Window \in Nat
    BY ReceiverAssumption DEF Window, Situation
  <1>2. Oldest \in 1..(last + 1)
    BY <1>1, ReceiverAssumption DEF Oldest
  <1>3. /\ Playlist \in Seq(1..Segments) /\ Len(Playlist) = last - Oldest + 1
        /\ \A i \in 1..Len(Playlist) : Playlist[i] = Oldest + i - 1
    BY <1>2, ReceiverAssumption DEF Playlist
  <1>4. Range(Playlist) = {Playlist[i] : i \in 1..Len(Playlist)}
    BY <1>3, RangeOf
  <1>5. Range(Playlist) \subseteq Oldest..last
    <2>1. last \in Nat
      BY ReceiverAssumption
    <2>2. ASSUME NEW i \in 1..Len(Playlist)
          PROVE  Playlist[i] \in Oldest..last
      <3>1. Playlist[i] = Oldest + i - 1 /\ Len(Playlist) = last - Oldest + 1
        BY <1>3
      <3>2. QED BY <1>2, <2>1, <3>1
    <2>3. QED BY <1>4, <2>2
  <1>6. ASSUME NEW n \in Oldest..last
        PROVE  n \in Range(Playlist)
    <2>1. n - Oldest + 1 \in 1..Len(Playlist) /\ Playlist[n - Oldest + 1] = n
      BY <1>2, <1>3, ReceiverAssumption
    <2>2. QED BY <1>4, <2>1
  <1>7. QED BY <1>2, <1>3, <1>5, <1>6

-----------------------------------------------------------------------------
(* Types, and the order of the list.                                       *)

LEMMA KindIs ==
    ASSUME TypeOK
    PROVE  /\ UriKind \in Uris /\ Kind \in Uris /\ Vod \in BOOLEAN
           /\ Window \in Nat /\ StartTime \in Nat /\ EndTime \in Nat
           /\ \A n : Resolved(n) = <<Kind, n>>
  <1>1. sit \in Situation
    BY ReceiverAssumption DEF TypeOK
  <1>2. /\ UriKind \in Uris /\ Vod \in BOOLEAN
        /\ Window \in Nat /\ StartTime \in Nat /\ EndTime \in Nat
    BY <1>1 DEF Situation, UriKind, Vod, Window, StartTime, EndTime
  <1>3. QED BY <1>2 DEF Kind, Resolved, Raw, Uris

LEMMA InsertTypes ==
    ASSUME TypeOK, NEW n \in 1..Segments, Insert(Resolved(n))
    PROVE  /\ seen' \subseteq Uris \X (1..Segments)
           /\ queue' \in Seq(Uris \X (1..Segments))
  <1> DEFINE U == Uris \X (1..Segments)
  <1>1. Resolved(n) \in U /\ queue \in Seq(U) /\ seen \subseteq U
    BY KindIs DEF TypeOK
  <1> HIDE DEF U
  <1>2. Append(queue, Resolved(n)) \in Seq(U) /\ Append(queue, Resolved(n)) # <<>>
    BY <1>1, AppendProperties
  <1>3. Tail(Append(queue, Resolved(n))) \in Seq(U)
    BY <1>2, HeadTailProperties
  <1>4. seen' \subseteq U /\ queue' \in Seq(U)
    BY <1>1, <1>2, <1>3 DEF Insert
  <1>5. QED BY <1>4 DEF U

LEMMA KeptIs ==
    ASSUME TypeOK
    PROVE  \E d \in Nat :
             /\ d <= Len(Playlist) /\ Len(Playlist) - d <= HistCap
             /\ d > 0 => Len(Playlist) - d = HistCap
             /\ Kept \in Seq(Uris \X (1..Segments)) /\ Len(Kept) = Len(Playlist) - d
             /\ \A i \in 1..Len(Kept) : Kept[i] = <<UriKind, Oldest + d + i - 1>>
  <1> DEFINE d == IF Len(Playlist) > HistCap THEN Len(Playlist) - HistCap ELSE 0
  <1>1. /\ Oldest \in 1..(last + 1) /\ last \in 0..Segments
        /\ Playlist \in Seq(1..Segments) /\ Len(Playlist) \in Nat
        /\ \A i \in 1..Len(Playlist) : Playlist[i] = Oldest + i - 1
        /\ UriKind \in Uris
    BY PlaylistIs, KindIs DEF TypeOK
  <1>2. /\ d \in Nat /\ d <= Len(Playlist) /\ Len(Playlist) - d <= HistCap
        /\ d > 0 => Len(Playlist) - d = HistCap
    BY <1>1, ReceiverAssumption
  <1>3. Kept = [i \in 1..(Len(Playlist) - d) |-> Raw(Playlist[d + i])]
    BY DEF Kept
  <1> HIDE DEF d
  <1>4. ASSUME NEW i \in 1..(Len(Playlist) - d)
        PROVE  /\ Raw(Playlist[d + i]) = <<UriKind, Oldest + d + i - 1>>
               /\ Raw(Playlist[d + i]) \in Uris \X (1..Segments)
    <2>1. d + i \in 1..Len(Playlist)
      BY <1>1, <1>2
    <2>2. Playlist[d + i] = Oldest + (d + i) - 1
      BY <1>1, <2>1
    <2>3. Playlist[d + i] \in 1..Segments
      BY <1>1, <2>1, ElementOfSeq
    <2>4. Oldest + (d + i) - 1 = Oldest + d + i - 1
      BY <1>1, <1>2
    <2>5. QED BY <1>1, <2>2, <2>3, <2>4 DEF Raw
  <1>5. /\ Kept \in Seq(Uris \X (1..Segments)) /\ Len(Kept) = Len(Playlist) - d
    <2>1. Len(Playlist) - d \in Nat
      BY <1>1, <1>2
    <2>2. QED BY <1>3, <1>4, <2>1
  <1>6. QED BY <1>2, <1>3, <1>4, <1>5

LEMMA TypeStep ==
    ASSUME TypeOK, Next, ListInOrder, pc = "poll" => list = <<>>
    PROVE  TypeOK' /\ ListInOrder' /\ (pc = "poll" => list = <<>>)'
  <1> USE ReceiverAssumption DEF netVars, sendVars, hisVars, ghosts, vars
  <1>1. CASE Note
    <2>1. queue' \in Seq(Uris \X (1..Segments)) /\ seen' \subseteq Uris \X (1..Segments)
      BY <1>1, KeptIs, RangeOf DEF Note
    <2>2. noted' \subseteq 1..Segments
      BY <1>1, PlaylistIs DEF Note, TypeOK
    <2>3. QED BY <1>1, <2>1, <2>2 DEF Note, TypeOK, ListInOrder
  <1>2. CASE Poll
    <2>1. /\ Playlist \in Seq(1..Segments) /\ Range(Playlist) \subseteq 1..Segments
          /\ \A i \in 1..Len(Playlist) : Playlist[i] = Playlist[1] + i - 1
      <3>1. /\ Oldest \in 1..(last + 1) /\ last \in 0..Segments
            /\ Playlist \in Seq(1..Segments) /\ Range(Playlist) \subseteq 1..Segments
            /\ \A i \in 1..Len(Playlist) : Playlist[i] = Oldest + i - 1
        <4>1. sit \in Situations /\ last \in 0..Segments
          BY DEF TypeOK
        <4>2. QED BY <4>1, PlaylistIs, RangeOf
      <3>2. ASSUME NEW i \in 1..Len(Playlist)
            PROVE  Playlist[i] = Playlist[1] + i - 1
        <4>1. 1 \in 1..Len(Playlist)
          BY <3>1, LenProperties
        <4>2. Playlist[1] = Oldest + 1 - 1
          BY <3>1, <4>1
        <4>3. QED BY <3>1, <4>2
      <3>3. QED BY <3>1, <3>2
    <2>2. QED BY <1>2, <2>1 DEF Poll, TypeOK, ListInOrder
  <1>3. CASE PollAgain \/ Ended
    BY <1>3 DEF PollAgain, Ended, TypeOK, ListInOrder
  <1>4. CASE SeesFlag \/ SendFails \/ Download
    BY <1>4 DEF SeesFlag, SendFails, Download, TypeOK, ListInOrder
  <1>5. ASSUME list # <<>>, list' = Tail(list), pc \in {"walk", "download", "send"},
               pc' = "walk"
        PROVE  list' \in Seq(1..Segments) /\ ListInOrder'
    <2>1. /\ list \in Seq(1..Segments) /\ Len(list) \in Nat
          /\ \A i \in 1..Len(list) : list[i] \in 1..Segments
      <3>1. list \in Seq(1..Segments)
        BY DEF TypeOK
      <3>2. QED BY <3>1, ElementOfSeq
    <2>2. /\ list' \in Seq(1..Segments) /\ Len(list') = Len(list) - 1
          /\ \A i \in 1..Len(list') : list'[i] = list[i + 1]
      BY <1>5, <2>1, HeadTailProperties
    <2>3. \A i \in 1..Len(list) : list[i] = list[1] + i - 1
      BY <1>5 DEF ListInOrder
    <2>4. ASSUME NEW i \in 1..Len(list')
          PROVE  list'[i] = list'[1] + i - 1
      <3>1. 1 \in 1..Len(list') /\ i + 1 \in 1..Len(list) /\ 2 \in 1..Len(list)
            /\ 1 \in 1..Len(list)
        <4>1. Len(list) \in Nat /\ Len(list') = Len(list) - 1
          BY <2>1, <2>2
        <4>2. QED BY ONLY <4>1, <2>4
      <3>2. list'[i] = list[i + 1] /\ list'[1] = list[1 + 1] /\ list[1] \in 1..Segments
        BY <2>1, <2>2, <3>1
      <3>3. list[i + 1] = list[1] + (i + 1) - 1 /\ list[2] = list[1] + 2 - 1
        BY <2>3, <3>1
      <3>4. QED BY <3>2, <3>3
    <2>5. QED BY <2>2, <2>4 DEF ListInOrder
  <1>6. CASE Skip
    BY <1>5, <1>6 DEF Skip, Walking, Passed, TypeOK
  <1>7. CASE Take
    <2>1. Walking /\ Current \in 1..Segments
      BY <1>7 DEF Take, Walking, Current, TypeOK
    <2>2. /\ seen' \subseteq Uris \X (1..Segments)
          /\ queue' \in Seq(Uris \X (1..Segments))
      BY <1>7, <2>1, InsertTypes DEF Take
    <2>3. CASE pc' = pc /\ list' = Tail(list)
      BY <1>5, <1>7, <2>1, <2>2, <2>3 DEF Take, Walking, TypeOK
    <2>4. CASE pc' = pc /\ list' = <<>>
      BY <1>7, <2>1, <2>2, <2>4 DEF Take, Walking, TypeOK, ListInOrder
    <2>5. CASE pc' = "download" /\ list' = list
      BY <1>7, <2>1, <2>2, <2>5 DEF Take, Walking, TypeOK, ListInOrder
    <2>6. QED BY <1>7, <2>3, <2>4, <2>5 DEF Take
  <1>8. CASE Send \/ DownloadFails
    <2>1. Busy /\ list # <<>> /\ Current \in 1..Segments
      <3>1. pc \in {"download", "send"}
        BY <1>8 DEF Send, DownloadFails
      <3>2. list \in Seq(1..Segments) /\ (Busy => list # <<>>)
        BY DEF TypeOK
      <3>3. QED BY <3>1, <3>2, ElementOfSeq DEF Busy, Current
    <2>2. list' \in Seq(1..Segments) /\ ListInOrder'
      BY <1>5, <1>8, <2>1 DEF Send, DownloadFails
    <2>3. CASE Send
      <3>1. got' \in Seq(1..Segments)
        <4>1. got \in Seq(1..Segments) /\ got' = Append(got, Current)
          BY <2>3 DEF Send, TypeOK
        <4>2. QED BY <2>1, <4>1, AppendProperties
      <3>2. waiting' \in 0..SegCap
        <4>1. waiting \in 0..SegCap /\ waiting < SegCap /\ waiting' = waiting + 1
          BY <2>3 DEF Send, TypeOK
        <4>2. QED BY <4>1, ReceiverAssumption
      <3>3. QED BY <2>1, <2>2, <2>3, <3>1, <3>2 DEF Send, TypeOK
    <2>4. CASE DownloadFails
      BY <2>1, <2>2, <2>4 DEF DownloadFails, TypeOK
    <2>5. QED BY <1>8, <2>3, <2>4
  <1>9. CASE Walked
    BY <1>9 DEF Walked, TypeOK, ListInOrder
  <1>10. CASE Publish \/ Close \/ CtrlC
    <2>1. last' \in 0..Segments /\ endlist' \in BOOLEAN /\ flag' \in BOOLEAN
      <3>1. last \in 0..Segments /\ endlist \in BOOLEAN /\ flag \in BOOLEAN
        BY DEF TypeOK
      <3>2. CASE Publish
        BY <3>1, <3>2 DEF Publish
      <3>3. CASE Close \/ CtrlC
        BY <3>1, <3>3 DEF Close, CtrlC
      <3>4. QED BY <1>10, <3>2, <3>3
    <2>2. UNCHANGED <<sit, sender, waiting, pc, list, final, seen, queue, first, noted,
                      offered, got, failed>>
      BY <1>10 DEF Publish, Close, CtrlC
    <2>3. QED BY <2>1, <2>2 DEF TypeOK, ListInOrder
  <1>11. CASE SenderStarts \/ SenderTakes \/ SenderHeld \/ SenderEnds
    <2>1. sender' \in {"starts", "takes", "held", "gone"} /\ waiting' \in 0..SegCap
      BY <1>11 DEF SenderStarts, SenderTakes, SenderHeld, SenderEnds, TypeOK
    <2>2. UNCHANGED <<sit, last, endlist, flag, pc, list, final, seen, queue, first, noted,
                      offered, got, failed>>
      BY <1>11 DEF SenderStarts, SenderTakes, SenderHeld, SenderEnds, receiverVars
    <2>3. QED BY <2>1, <2>2 DEF TypeOK, ListInOrder
  <1>12. QED
    BY <1>1, <1>2, <1>3, <1>4, <1>6, <1>7, <1>8, <1>9, <1>10, <1>11 DEF Next, Receive

-----------------------------------------------------------------------------
(* A live playback.                                                        *)

LEMMA SitFrame ==
    ASSUME sit' = sit
    PROVE  /\ Vod' = Vod /\ UriKind' = UriKind /\ Window' = Window /\ Kind' = Kind
           /\ StartTime' = StartTime /\ EndTime' = EndTime
           /\ WithinHistory' = WithinHistory
  BY DEF Vod, UriKind, Window, Kind, StartTime, EndTime, WithinHistory

LEMMA TakenIs ==
    ASSUME TypeOK
    PROVE  Taken \subseteq 1..Segments /\ (Busy => Current \in Taken)
  <1>1. Range(got) \subseteq 1..Segments
    BY RangeOf DEF TypeOK
  <1>2. Busy => Current \in 1..Segments
    BY HeadTailProperties DEF TypeOK, Current
  <1>3. QED BY <1>1, <1>2 DEF Taken, TypeOK

LEMMA HeadIs ==
    ASSUME TypeOK, list # <<>>
    PROVE  Len(list) \in Nat \ {0} /\ Current = list[1] /\ Current \in 1..Segments
  <1>1. list \in Seq(1..Segments) /\ Len(list) \in Nat \ {0}
    BY EmptySeq DEF TypeOK
  <1>2. Head(list) \in 1..Segments
    <2> DEFINE U == 1..Segments
    <2>1. list \in Seq(U) /\ list # <<>>
      BY <1>1
    <2> HIDE DEF U
    <2>2. Head(list) \in U
      BY <2>1, HeadTailProperties
    <2>3. QED BY <2>2 DEF U
  <1>3. QED BY <1>1, <1>2 DEF Current

(* Going on to the next segment of the list.                               *)
LEMMA TailIs ==
    ASSUME TypeOK, list # <<>>, list' = Tail(list)
    PROVE  /\ Len(list) \in Nat \ {0} /\ Current = list[1] /\ Current \in 1..Segments
           /\ Len(list') = Len(list) - 1
           /\ \A i \in 1..Len(list') : list'[i] = list[i + 1]
           /\ Range(list) \subseteq {Current} \cup Range(list')
  <1>1. list \in Seq(1..Segments) /\ Len(list) \in Nat \ {0} /\ Current = list[1]
    BY EmptySeq DEF TypeOK, Current
  <1>2. /\ list' \in Seq(1..Segments) /\ Len(list') = Len(list) - 1
        /\ \A i \in 1..Len(list') : list'[i] = list[i + 1]
        /\ Current \in 1..Segments
    BY <1>1, HeadTailProperties DEF Current
  <1>3. ASSUME NEW i \in 1..Len(list)
        PROVE  list[i] \in {Current} \cup Range(list')
    <2>1. CASE i = 1
      BY <1>1, <2>1
    <2>2. CASE i # 1
      <3>1. i - 1 \in 1..Len(list') /\ (i - 1) + 1 = i
        BY <1>1, <1>2, <2>2
      <3>2. list[i] = list'[i - 1]
        BY <1>2, <3>1
      <3>3. DOMAIN list' = 1..Len(list')
        BY <1>2
      <3>4. QED BY <3>1, <3>2, <3>3 DEF Range
    <2>3. QED BY <2>1, <2>2
  <1>4. QED BY <1>1, <1>2, <1>3, RangeOf

LEMMA Advance ==
    ASSUME TypeOK, ListInOrder, list # <<>>, list' = Tail(list), ListAhead,
           pc \in {"walk", "download", "send"}, Current \in Taken, Taken' = Taken,
           UNCHANGED <<sit, last>>
    PROVE  ListAhead'
  <1>1. /\ Len(list) \in Nat \ {0} /\ Current = list[1] /\ Current \in 1..Segments
        /\ Len(list') = Len(list) - 1
        /\ \A i \in 1..Len(list') : list'[i] = list[i + 1]
    BY TailIs
  <1>2. Oldest' = Oldest /\ Oldest \in Int
    BY PlaylistIs DEF Oldest, Window, TypeOK
  <1>3. SUFFICES ASSUME list' # <<>>
                 PROVE  ListAhead'
    BY DEF ListAhead
  <1>4. Len(list') >= 1
    <2>1. list' \in Seq(1..Segments)
      BY HeadTailProperties DEF TypeOK
    <2>2. QED BY <1>3, <2>1, EmptySeq
  <1>5. list'[Len(list')] = list[Len(list)] /\ list'[1] = list[2]
    BY <1>1, <1>4
  <1>6. list[2] = list[1] + 1
    BY <1>1, <1>4 DEF ListInOrder
  <1>7. \A i \in 1..Len(list') : list'[i] \in Taken \/ \A k \in Taken : k < list'[i]
    BY <1>1 DEF ListAhead
  <1>8. \A n \in 1..Segments : Oldest <= n /\ n < list'[1] => n \in Taken
    <2> SUFFICES ASSUME NEW n \in 1..Segments, Oldest <= n, n < list[1] + 1
                 PROVE  n \in Taken
      BY <1>5, <1>6
    <2>1. CASE n = list[1]
      BY <1>1, <2>1
    <2>2. CASE n < list[1]
      BY <2>2 DEF ListAhead
    <2>3. QED BY <1>1, <2>1, <2>2
  <1>9. Len(list') <= HistCap
    BY <1>1, ReceiverAssumption DEF ListAhead
  <1>10. list'[Len(list')] <= last /\ \A k \in Taken : k <= list'[Len(list')]
    BY <1>5 DEF ListAhead
  <1>11. QED BY <1>2, <1>7, <1>8, <1>9, <1>10 DEF ListAhead

(* The history takes in a segment beyond all that was taken.               *)
LEMMA Inserted ==
    ASSUME TypeOK, NEW n \in 1..Segments, Insert(Resolved(n)), sit' = sit,
           QueueGrows, QueueSeen, SeenTaken, Remembers,
           \A k \in Taken : k < n, Taken' = Taken \cup {n}
    PROVE  QueueGrows' /\ QueueSeen' /\ SeenTaken' /\ Remembers'
  <1> DEFINE U == Uris \X (1..Segments)
             key == <<Kind, n>>
             q == Append(queue, key)
             full == Len(q) > HistCap
             N == Len(queue)
  <1>1. /\ Kind' = Kind /\ Resolved(n) = key /\ key \in U /\ queue \in Seq(U)
        /\ seen \subseteq U /\ Taken \subseteq 1..Segments /\ N \in Nat
    BY KindIs, SitFrame, TakenIs, LenProperties DEF TypeOK
  <1>2. /\ queue' = IF full THEN Tail(q) ELSE q
        /\ seen' = (seen \cup {key}) \ IF full THEN {Head(q)} ELSE {}
    BY <1>1 DEF Insert
  <1>3. /\ q \in Seq(U) /\ q # <<>> /\ Len(q) = N + 1
        /\ \A i \in 1..N : q[i] = queue[i]
        /\ q[N + 1] = key
    <2> HIDE DEF key, U
    <2>1. QED BY <1>1, AppendProperties
  <1> HIDE DEF q, U
  <1>4. /\ Tail(q) \in Seq(U) /\ Len(Tail(q)) = N /\ Head(q) = q[1]
        /\ \A i \in 1..N : Tail(q)[i] = q[i + 1]
    BY <1>1, <1>3, HeadTailProperties
  <1>5. \A i \in 1..N : queue[i][1] = Kind => queue[i][2] \in 1..Segments /\ queue[i][2] < n
                                            /\ queue[i] = <<Kind, queue[i][2]>>
    <2> SUFFICES ASSUME NEW i \in 1..N, queue[i][1] = Kind
                 PROVE  queue[i][2] \in 1..Segments /\ queue[i][2] < n
                        /\ queue[i] = <<Kind, queue[i][2]>>
      OBVIOUS
    <2>1. queue[i] \in U
      BY <1>1, ElementOfSeq
    <2>2. queue[i][2] \in 1..Segments /\ queue[i] = <<Kind, queue[i][2]>>
      BY <2>1 DEF U
    <2>3. queue[i] \in seen
      BY <1>1 DEF QueueSeen
    <2>4. queue[i][2] \in Taken
      BY <2>2, <2>3 DEF SeenTaken
    <2>5. QED BY <2>2, <2>4
  <1>6. ASSUME NEW i \in 1..(N + 1), NEW j \in 1..(N + 1), i <= j, q[i][1] = Kind
        PROVE  q[j][1] = Kind /\ q[j][2] >= q[i][2] + (j - i) /\ q[i][2] \in 1..Segments
    <2>1. CASE j <= N
      <3>1. i \in 1..N /\ j \in 1..N /\ q[i] = queue[i] /\ q[j] = queue[j]
        BY <1>1, <1>3, <1>6, <2>1
      <3>2. QED BY <1>1, <1>5, <1>6, <3>1 DEF QueueGrows
    <2>2. CASE j = N + 1 /\ i <= N
      <3>1. i \in 1..N /\ N \in 1..N /\ q[i] = queue[i] /\ q[j] = key
        BY <1>1, <1>3, <2>2
      <3>2. queue[N][1] = Kind /\ queue[N][2] >= queue[i][2] + (N - i)
        BY <1>1, <1>6, <3>1 DEF QueueGrows
      <3>3. queue[N][2] \in 1..Segments /\ queue[N][2] < n /\ queue[i][2] \in 1..Segments
        BY <1>5, <1>6, <3>1, <3>2
      <3>4. n >= queue[i][2] + (N + 1 - i)
        BY <1>1, <3>2, <3>3
      <3>5. QED BY <2>2, <3>1, <3>3, <3>4
    <2>3. CASE i = N + 1 /\ j = N + 1
      BY <1>1, <1>3, <2>3
    <2>4. QED BY <1>1, <1>6, <2>1, <2>2, <2>3
  <1>7. \A i \in 1..(N + 1) : q[i][1] = Kind => q[i] \in seen \cup {key}
    BY <1>1, <1>3 DEF QueueSeen
  <1>8. QueueGrows'
    <2>1. CASE full
      <3>1. DOMAIN queue' = 1..N /\ \A i \in 1..N : queue'[i] = q[i + 1]
        BY <1>1, <1>2, <1>4, <2>1
      <3>2. ASSUME NEW i \in 1..N, NEW j \in 1..N, i <= j, queue'[i][1] = Kind
            PROVE  queue'[j][1] = Kind /\ queue'[j][2] >= queue'[i][2] + (j - i)
        <4>1. i + 1 \in 1..(N + 1) /\ j + 1 \in 1..(N + 1) /\ i + 1 <= j + 1
              /\ (j + 1) - (i + 1) = j - i
          BY <1>1, <3>2
        <4>2. q[i + 1][1] = Kind /\ queue'[j] = q[j + 1] /\ queue'[i] = q[i + 1]
          BY <3>1, <3>2
        <4>3. q[j + 1][1] = Kind /\ q[j + 1][2] >= q[i + 1][2] + ((j + 1) - (i + 1))
          BY <1>6, <4>1, <4>2
        <4>4. QED BY <4>1, <4>2, <4>3
      <3>3. QED BY <1>1, <3>1, <3>2 DEF QueueGrows
    <2>2. CASE ~full
      <3>1. queue' = q /\ DOMAIN queue' = 1..(N + 1)
        BY <1>1, <1>2, <1>3, <2>2
      <3>2. QED BY <1>1, <1>6, <3>1 DEF QueueGrows
    <2>3. QED BY <2>1, <2>2
  <1>9. QueueSeen'
    <2>1. CASE full
      <3>1. DOMAIN queue' = 1..N /\ \A i \in 1..N : queue'[i] = q[i + 1]
        BY <1>1, <1>2, <1>4, <2>1
      <3>2. ASSUME NEW i \in 1..N, queue'[i][1] = Kind
            PROVE  queue'[i] \in seen'
        <4>1. i + 1 \in 1..(N + 1) /\ 1 \in 1..(N + 1) /\ queue'[i] = q[i + 1]
          BY <1>1, <3>1
        <4>2. q[i + 1] \in seen \cup {key}
          BY <1>7, <3>2, <4>1
        <4>3. q[i + 1] # q[1]
          <5>1. CASE q[1][1] = Kind
            <6>1. q[i + 1][2] >= q[1][2] + ((i + 1) - 1) /\ q[1][2] \in 1..Segments
              BY <1>1, <1>6, <4>1, <5>1
            <6>2. QED BY <6>1
          <5>2. CASE q[1][1] # Kind
            BY <3>2, <4>1, <5>2
          <5>3. QED BY <5>1, <5>2
        <4>4. QED BY <1>2, <1>4, <2>1, <4>1, <4>2, <4>3
      <3>3. QED BY <1>1, <3>1, <3>2 DEF QueueSeen
    <2>2. CASE ~full
      <3>1. queue' = q /\ DOMAIN queue' = 1..(N + 1) /\ seen' = seen \cup {key}
        BY <1>1, <1>2, <1>3, <2>2
      <3>2. QED BY <1>1, <1>7, <3>1 DEF QueueSeen
    <2>3. QED BY <2>1, <2>2
  <1>10. SeenTaken'
    BY <1>1, <1>2 DEF SeenTaken
  <1>11. ASSUME NEW m \in 1..Segments, <<Kind, m>> \in seen \cup {key}, m \in Taken \cup {n}
         PROVE  <<Kind, m>> \in seen' \/ m + HistCap <= n
    <2> SUFFICES ASSUME full, <<Kind, m>> = q[1]
                 PROVE  m + HistCap <= n
      BY <1>2, <1>4, <1>11
    <2>1. 1 \in 1..(N + 1) /\ N + 1 \in 1..(N + 1) /\ q[1][1] = Kind /\ q[1][2] = m
      BY <1>1
    <2>2. q[N + 1][2] >= q[1][2] + ((N + 1) - 1)
      BY <1>1, <1>6, <2>1
    <2>3. n >= m + N /\ N >= HistCap
      BY <1>1, <1>3, <2>1, <2>2, ReceiverAssumption
    <2>4. QED BY <1>1, <2>3, ReceiverAssumption
  <1>12. Remembers'
    <2> SUFFICES ASSUME NEW m \in Taken \cup {n}
                 PROVE  <<Kind, m>> \in seen' \/ \E k \in Taken \cup {n} : m + HistCap <= k
      BY <1>1 DEF Remembers
    <2>1. CASE <<Kind, m>> \in seen \cup {key}
      BY <1>1, <1>11, <2>1
    <2>2. CASE <<Kind, m>> \notin seen \cup {key}
      BY <2>2 DEF Remembers
    <2>3. QED BY <2>1, <2>2
  <1>13. QED BY <1>8, <1>9, <1>10, <1>12

LEMMA LiveNote ==
    ASSUME IInv, ~Vod, WithinHistory, Note
    PROVE  LiveInv'
  <1>1. /\ TypeOK /\ LiveInv /\ sit' = sit /\ last' = last /\ pc = "poll" /\ pc' = "poll"
        /\ queue' = Kept /\ seen' = Range(Kept) /\ noted' = Range(Playlist) /\ first' = FALSE
        /\ UNCHANGED <<list, offered, got, failed, flag>>
        /\ got = <<>> /\ failed = {} /\ offered = {}
    BY DEF Note, IInv, LiveInv, FirstPoll, netVars
  <1>2. /\ UriKind \in Uris /\ UriKind' = UriKind /\ Kind' = Kind
        /\ Oldest \in 1..(last + 1) /\ Oldest' = Oldest /\ last \in 0..Segments
        /\ Range(Playlist) = Oldest..last /\ Len(Playlist) = last - Oldest + 1
    BY <1>1, PlaylistIs, KindIs, SitFrame DEF TypeOK, Oldest
  <1>3. PICK d \in Nat :
          /\ d <= Len(Playlist) /\ Len(Playlist) - d <= HistCap
          /\ d > 0 => Len(Playlist) - d = HistCap
          /\ Kept \in Seq(Uris \X (1..Segments)) /\ Len(Kept) = Len(Playlist) - d
          /\ \A i \in 1..Len(Kept) : Kept[i] = <<UriKind, Oldest + d + i - 1>>
    BY <1>1, KeptIs
  <1>4. DOMAIN Kept = 1..Len(Kept) /\ Range(Kept) = {Kept[i] : i \in 1..Len(Kept)}
    BY <1>3, RangeOf, SMTT(30)
  <1>5. Range(got) = {}
    BY <1>1 DEF Range
  <1>6. Taken' = IF UriKind = "relative" THEN {} ELSE Oldest..last
    BY <1>1, <1>2, <1>5 DEF Taken
  <1>7. QueueGrows' /\ QueueSeen'
    <2>1. QueueSeen'
      BY <1>1, <1>4 DEF QueueSeen
    <2>2. ASSUME NEW i \in 1..Len(Kept), NEW j \in 1..Len(Kept), i <= j, Kept[i][1] = Kind
          PROVE  Kept[j][1] = Kind /\ Kept[j][2] >= Kept[i][2] + (j - i)
      <3>1. Kept[i] = <<UriKind, Oldest + d + i - 1>> /\ Kept[j] = <<UriKind, Oldest + d + j - 1>>
        BY <1>3
      <3>2. UriKind = Kind
        BY <2>2, <3>1
      <3>3. Oldest + d + j - 1 >= (Oldest + d + i - 1) + (j - i)
        BY <1>2
      <3>4. QED BY <3>1, <3>2, <3>3
    <2>3. QED BY <1>1, <1>2, <1>4, <2>1, <2>2 DEF QueueGrows
  <1>8. SeenTaken'
    <2> SUFFICES ASSUME NEW n \in 1..Segments, NEW i \in 1..Len(Kept), <<Kind, n>> = Kept[i]
                 PROVE  n \in Taken'
      BY <1>1, <1>2, <1>4 DEF SeenTaken
    <2>1. Kind = UriKind /\ n = Oldest + d + i - 1
      BY <1>3
    <2>2. UriKind # "relative"
      BY <2>1 DEF Kind
    <2>3. n \in Oldest..last
      BY <1>2, <1>3, <2>1
    <2>4. QED BY <1>6, <2>2, <2>3
  <1>9. Remembers'
    <2> SUFFICES ASSUME NEW n \in Taken'
                 PROVE  <<Kind, n>> \in Range(Kept) \/ \E k \in Taken' : n + HistCap <= k
      BY <1>1, <1>2 DEF Remembers
    <2>1. UriKind # "relative" /\ Kind = UriKind /\ n \in Oldest..last /\ last \in Taken'
      BY <1>2, <1>6 DEF Kind
    <2>2. CASE n >= Oldest + d
      <3>1. n - Oldest - d + 1 \in 1..Len(Kept)
        BY <1>2, <1>3, <2>1, <2>2
      <3>2. Kept[n - Oldest - d + 1] = <<UriKind, Oldest + d + (n - Oldest - d + 1) - 1>>
        BY <1>3, <3>1
      <3>3. Oldest + d + (n - Oldest - d + 1) - 1 = n
        BY <1>2, <2>1
      <3>4. QED BY <1>4, <2>1, <3>1, <3>2, <3>3
    <2>3. CASE n < Oldest + d
      <3>1. n + HistCap <= last
        BY <1>2, <1>3, <2>1, <2>3, ReceiverAssumption
      <3>2. QED BY <2>1, <3>1
    <2>4. QED BY <1>2, <2>1, <2>2, <2>3
  <1>10. NoGap'
    BY <1>1, <1>2, <1>6 DEF NoGap
  <1>11. Taken' \subseteq 1..last'
    BY <1>1, <1>2, <1>6
  <1>12. FirstPoll' /\ GotGrows' /\ NotNoted' /\ ListAhead'
    BY <1>1, <1>5 DEF FirstPoll, GotGrows, NotNoted, ListAhead
  <1>13. QED BY <1>1, <1>7, <1>8, <1>9, <1>10, <1>11, <1>12 DEF LiveInv

LEMMA LivePoll ==
    ASSUME IInv, ~Vod, WithinHistory, Poll
    PROVE  LiveInv'
  <1>1. /\ TypeOK /\ LiveInv /\ sit' = sit /\ last' = last /\ pc = "poll" /\ pc' = "walk"
        /\ list' = Playlist /\ offered' = offered \cup Range(Playlist) /\ ~first /\ list = <<>>
        /\ UNCHANGED <<seen, queue, first, noted, got, failed, flag>>
    BY DEF Poll, IInv, netVars, hisVars
  <1>2. /\ Kind' = Kind /\ UriKind' = UriKind /\ Oldest' = Oldest /\ last \in 0..Segments
        /\ Oldest \in 1..(last + 1) /\ Playlist \in Seq(1..Segments)
        /\ Len(Playlist) = last - Oldest + 1
        /\ \A i \in 1..Len(Playlist) : Playlist[i] = Oldest + i - 1
    BY <1>1, PlaylistIs, SitFrame DEF TypeOK, Oldest
  <1>3. Taken' = Taken /\ Taken \subseteq 1..last
    BY <1>1, <1>2 DEF Taken, LiveInv
  <1>4. ListAhead'
    <2> SUFFICES ASSUME Len(Playlist) >= 1
                 PROVE  ListAhead'
      BY <1>1, <1>2, EmptySeq DEF ListAhead
    <2>1. 1 \in 1..Len(Playlist) /\ Len(Playlist) \in 1..Len(Playlist)
      BY <1>2
    <2>2. Playlist[1] = Oldest /\ Playlist[Len(Playlist)] = last
      BY <1>2, <2>1
    <2>3. Len(Playlist) <= HistCap
      <3>1. Window \in Nat
        BY <1>1, KindIs
      <3>2. CASE Window = 0
        BY <1>2, <3>2, ReceiverAssumption DEF WithinHistory
      <3>3. CASE Window # 0 /\ last <= Window
        BY <1>2, <3>1, <3>3, ReceiverAssumption DEF WithinHistory
      <3>4. CASE Window # 0 /\ last > Window
        <4>1. Oldest = last - Window + 1 /\ Window <= HistCap
          BY <1>2, <3>1, <3>4, ReceiverAssumption DEF WithinHistory, Oldest
        <4>2. QED BY <1>2, <3>1, <4>1, ReceiverAssumption
      <3>5. QED BY <1>2, <3>1, <3>2, <3>3, <3>4
    <2>4. ASSUME NEW i \in 1..Len(Playlist)
          PROVE  Playlist[i] \in Taken \/ \A k \in Taken : k < Playlist[i]
      <3>1. Playlist[i] \in 1..Segments /\ Oldest <= Playlist[i]
        <4>1. Playlist[i] = Oldest + i - 1
          BY <1>2
        <4>2. QED BY <1>2, <4>1, ReceiverAssumption
      <3>2. QED BY <1>1, <1>2, <1>3, <3>1 DEF LiveInv, NoGap
    <2>5. QED BY <1>1, <1>2, <1>3, <2>2, <2>3, <2>4 DEF ListAhead
  <1>5. FirstPoll' /\ GotGrows' /\ NotNoted'
    BY <1>1, <1>2 DEF LiveInv, FirstPoll, GotGrows, NotNoted
  <1>6. QueueGrows' /\ QueueSeen' /\ SeenTaken' /\ Remembers' /\ NoGap'
    BY <1>1, <1>2, <1>3 DEF LiveInv, QueueGrows, QueueSeen, SeenTaken, Remembers, NoGap
  <1>7. ~flag => offered' \subseteq Range(got) \cup failed \cup noted \cup Range(list')
    BY <1>1 DEF LiveInv, Range
  <1>8. QED BY <1>1, <1>3, <1>4, <1>5, <1>6, <1>7 DEF LiveInv

(* A segment that is taken goes on the way.                                *)
LEMMA LiveTake ==
    ASSUME IInv, ~Vod, WithinHistory, Take
    PROVE  LiveInv'
  <1>1. /\ TypeOK /\ ListInOrder /\ LiveInv /\ sit' = sit /\ last' = last /\ flag' = flag
        /\ pc = "walk" /\ list # <<>> /\ ~Known /\ Insert(Resolved(Current))
        /\ pc' = "download" /\ list' = list
        /\ UNCHANGED <<first, noted, offered, got, failed>>
    BY DEF Take, Walking, IInv, netVars, ghosts, Before, Beyond, Ranged
  <1>2. /\ Len(list) \in Nat \ {0} /\ Current = list[1] /\ Current \in 1..Segments
    BY <1>1, HeadIs
  <1>3. /\ Resolved(Current) = <<Kind, Current>> /\ Kind' = Kind /\ UriKind' = UriKind
        /\ Current' = Current /\ Oldest' = Oldest /\ Oldest \in Int
        /\ last \in 0..Segments
    BY <1>1, KindIs, SitFrame, PlaylistIs DEF Current, Oldest, TypeOK
  <1>4. Taken' = Taken \cup {Current} /\ Taken \subseteq 1..last
    BY <1>1, <1>3 DEF Taken, LiveInv
  <1>5. list[Len(list)] = Current + Len(list) - 1 /\ Len(list) <= HistCap
        /\ list[Len(list)] <= last
        /\ \A k \in Taken : k <= list[Len(list)]
    BY <1>1, <1>2 DEF ListInOrder, LiveInv, ListAhead
  <1>6. Current \notin Taken
    <2> SUFFICES ASSUME Current \in Taken
                 PROVE  FALSE
      OBVIOUS
    <2>1. PICK k \in Taken : Current + HistCap <= k
      BY <1>1, <1>3 DEF LiveInv, Remembers, Known
    <2>2. QED BY <1>2, <1>4, <1>5, <2>1, ReceiverAssumption
  <1>7. \A k \in Taken : k < Current
    BY <1>1, <1>2, <1>6 DEF LiveInv, ListAhead
  <1>8. QueueGrows' /\ QueueSeen' /\ SeenTaken' /\ Remembers'
    BY <1>1, <1>2, <1>4, <1>7, Inserted DEF LiveInv
  <1>9. \A n \in 1..Segments : Oldest <= n /\ n < Current => n \in Taken
    BY <1>1, <1>2 DEF LiveInv, ListAhead
  <1>10. NoGap'
    BY <1>1, <1>2, <1>3, <1>4, <1>9 DEF LiveInv, NoGap
  <1>11. \A i \in 1..Len(list) : i = 1 \/ list[i] > Current
    BY <1>1, <1>2 DEF ListInOrder
  <1>12. ListAhead'
    <2>1. \A i \in 1..Len(list) : list[i] \in Taken' \/ \A k \in Taken' : k < list[i]
      BY <1>1, <1>2, <1>4, <1>11 DEF LiveInv, ListAhead
    <2>2. \A k \in Taken' : k <= list[Len(list)]
      BY <1>2, <1>4, <1>5
    <2>3. \A n \in 1..Segments : Oldest <= n /\ n < list[1] => n \in Taken'
      BY <1>2, <1>4, <1>9
    <2>4. QED BY <1>1, <1>3, <1>5, <2>1, <2>2, <2>3 DEF ListAhead
  <1>13. GotGrows' /\ NotNoted'
    <2>1. GotGrows'
      BY <1>1, <1>3, <1>7 DEF LiveInv, GotGrows, Taken
    <2>2. NotNoted'
      BY <1>1, <1>3, <1>6 DEF LiveInv, NotNoted, Taken
    <2>3. QED BY <2>1, <2>2
  <1>14. FirstPoll'
    BY <1>1 DEF LiveInv, FirstPoll
  <1>15. Taken' \subseteq 1..last'
    <2>1. Current <= last /\ Current \in 1..last
      BY <1>2, <1>3, <1>5
    <2>2. QED BY <1>1, <1>4, <2>1
  <1>16. QED BY <1>1, <1>8, <1>10, <1>12, <1>13, <1>14, <1>15 DEF LiveInv

(* The list goes on behind a segment that is known, handed over or failed. *)
LEMMA LivePass ==
    ASSUME IInv, ~Vod, WithinHistory, Skip \/ Send \/ DownloadFails
    PROVE  LiveInv'
  <1>1. /\ TypeOK /\ ListInOrder /\ LiveInv /\ sit' = sit /\ last' = last /\ flag' = flag
        /\ pc \in {"walk", "download", "send"} /\ pc' = "walk" /\ list # <<>> /\ list' = Tail(list)
        /\ UNCHANGED <<first, noted, offered, seen, queue>> /\ ~first
    BY DEF Skip, Send, DownloadFails, Walking, Passed, IInv, TypeOK, netVars, hisVars,
           ghosts, LiveInv, FirstPoll
  <1>2. /\ Current = list[1] /\ Current \in 1..Segments
        /\ Range(list) \subseteq {Current} \cup Range(list')
    BY <1>1, TailIs
  <1>3. Kind' = Kind /\ UriKind' = UriKind /\ Oldest' = Oldest
    BY <1>1, SitFrame DEF Oldest
  <1>4. Current \in Taken
    <2>1. CASE Skip
      BY <1>1, <1>2, <2>1, KindIs DEF Skip, Known, WithinHistory, LiveInv, SeenTaken
    <2>2. CASE Busy
      BY <1>1, <2>2, TakenIs
    <2>3. QED BY <2>1, <2>2 DEF Send, DownloadFails
  <1>5. /\ Skip => got' = got /\ failed' = failed /\ pc = "walk"
        /\ Send => got' = Append(got, Current) /\ failed' = failed /\ Busy
        /\ DownloadFails => got' = got /\ failed' = failed \cup {Current} /\ Busy
    BY DEF Skip, Send, DownloadFails, Walking, ghosts
  <1>6. got \in Seq(1..Segments) /\ Len(got) \in Nat
    BY <1>1 DEF TypeOK
  <1>7. Range(got') \cup failed' = IF Skip THEN Range(got) \cup failed
                                   ELSE Range(got) \cup failed \cup {Current}
    <2>1. CASE Skip
      BY <1>5, <2>1
    <2>2. CASE Send
      <3>1. Range(got') = Range(got) \cup {Current} /\ ~Skip
        BY <1>2, <1>5, <1>6, <2>2, RangeAppend
      <3>2. QED BY <1>5, <2>2, <3>1
    <2>3. CASE DownloadFails
      BY <1>5, <2>3
    <2>4. QED BY <2>1, <2>2, <2>3
  <1>8. Taken' = Taken
    BY <1>1, <1>3, <1>5, <1>7 DEF Taken
  <1>9. ListAhead'
    BY <1>1, <1>4, <1>8, Advance DEF LiveInv
  <1>10. GotGrows' /\ NotNoted'
    <2>1. CASE ~Send
      BY <1>1, <1>3, <1>5, <2>1 DEF LiveInv, GotGrows, NotNoted
    <2>2. CASE Send
      <3>1. \A k \in Range(got) : k < Current
        BY <1>1, <1>5, <2>2 DEF LiveInv, GotGrows
      <3>2. \A i, j \in DOMAIN got' : i < j => got'[i] < got'[j]
        BY <1>1, <1>2, <1>5, <1>6, <2>2, <3>1, AppendGrows DEF LiveInv, GotGrows
      <3>3. GotGrows'
        BY <1>1, <3>2 DEF GotGrows
      <3>4. Range(got') = Range(got) \cup {Current}
        BY <1>2, <1>5, <1>6, <2>2, RangeAppend
      <3>5. NotNoted'
        BY <1>1, <1>3, <1>5, <2>2, <3>4 DEF LiveInv, NotNoted
      <3>6. QED BY <3>3, <3>5
    <2>3. QED BY <2>1, <2>2
  <1>11. FirstPoll'
    BY <1>1 DEF FirstPoll
  <1>12. QueueGrows' /\ QueueSeen' /\ SeenTaken' /\ Remembers' /\ NoGap'
    BY <1>1, <1>3, <1>8 DEF LiveInv, QueueGrows, QueueSeen, SeenTaken, Remembers, NoGap
  <1>13. ~flag => offered \subseteq Range(got') \cup failed' \cup noted \cup Range(list')
    <2>1. ~flag => offered \subseteq Range(got) \cup failed \cup noted \cup Range(list)
      BY <1>1 DEF LiveInv
    <2>2. Current \in Range(got') \cup failed' \cup noted
      BY <1>1, <1>4, <1>5, <1>7 DEF Taken
    <2>3. QED BY <1>2, <1>7, <2>1, <2>2
  <1>14. QED BY <1>1, <1>8, <1>9, <1>10, <1>11, <1>12, <1>13 DEF LiveInv

(* The other steps.                                                        *)
LEMMA LiveStep ==
    ASSUME IInv, ~Vod, WithinHistory, Next
    PROVE  LiveInv'
  <1>1. TypeOK /\ LiveInv /\ ListInOrder /\ (pc = "poll" => list = <<>>)
    BY DEF IInv
  <1>2. ASSUME UNCHANGED <<sit, got, failed, noted, offered, seen, queue, first>>
        PROVE  /\ Kind' = Kind /\ UriKind' = UriKind
               /\ ~Busy' /\ ~Busy => Taken' = Taken
               /\ ~Busy' => GotGrows' /\ NotNoted'
    BY <1>1, <1>2, SitFrame DEF Taken, LiveInv, GotGrows, NotNoted
  <1>3. CASE SeesFlag \/ SendFails
    <2>1. /\ UNCHANGED <<sit, got, failed, noted, offered, seen, queue, first>>
          /\ (pc = "poll" /\ pc' = "ended") \/ (pc = "send" /\ pc' = "gone")
      BY <1>3 DEF SeesFlag, SendFails, hisVars, ghosts
    <2>2. FirstPoll'
      BY <1>1, <2>1 DEF LiveInv, FirstPoll
    <2>3. QED BY <1>2, <2>1, <2>2 DEF LiveInv
  <1>4. CASE Walked
    <2>1. /\ UNCHANGED <<sit, last, flag, got, failed, noted, offered, seen, queue, first>>
          /\ pc = "walk" /\ pc' \in {"ended", "poll"} /\ list' = <<>>
          /\ list = <<>> \/ flag
      BY <1>4 DEF Walked, hisVars, ghosts, netVars
    <2>2. Taken' = Taken /\ GotGrows' /\ NotNoted' /\ Kind' = Kind /\ Oldest' = Oldest
      BY <1>2, <2>1 DEF Oldest, Window
    <2>3. FirstPoll' /\ ListAhead'
      BY <1>1, <2>1 DEF LiveInv, FirstPoll, ListAhead
    <2>4. QueueGrows' /\ QueueSeen' /\ SeenTaken' /\ Remembers' /\ NoGap'
      BY <1>1, <2>1, <2>2 DEF LiveInv, QueueGrows, QueueSeen, SeenTaken, Remembers, NoGap
    <2>5. Taken' \subseteq 1..last'
      BY <1>1, <2>1, <2>2 DEF LiveInv
    <2>6. ~flag' => offered' \subseteq Range(got)' \cup failed' \cup noted' \cup Range(list)'
      BY <1>1, <2>1 DEF LiveInv
    <2>7. QED BY <2>2, <2>3, <2>4, <2>5, <2>6 DEF LiveInv
  <1>5. CASE Download \/ Publish \/ Close \/ CtrlC \/ PollAgain \/ Ended
             \/ SenderStarts \/ SenderTakes \/ SenderHeld \/ SenderEnds
    <2>1. /\ UNCHANGED <<sit, list, got, failed, noted, offered, seen, queue, first>>
          /\ pc' = pc \/ (pc = "download" /\ pc' = "send")
          /\ last' \in {last, last + 1} /\ (flag' = flag \/ flag')
      BY <1>5 DEF Download, Publish, Close, CtrlC, PollAgain, Ended, SenderStarts,
                  SenderTakes, SenderHeld, SenderEnds, receiverVars, vars, hisVars, ghosts, netVars
    <2>2. /\ Kind' = Kind /\ UriKind' = UriKind /\ Current' = Current /\ Taken' = Taken
          /\ last \in Nat /\ Window \in Nat /\ Window' = Window
      BY <1>1, <2>1, SitFrame, KindIs, ReceiverAssumption DEF Taken, Current, TypeOK
    <2>3. Oldest' >= Oldest /\ Oldest \in Int /\ Oldest' \in Int
      <3>1. /\ Oldest = IF Window = 0 \/ last <= Window THEN 1 ELSE last - Window + 1
            /\ Oldest' = IF Window = 0 \/ last' <= Window THEN 1 ELSE last' - Window + 1
        BY <2>2 DEF Oldest
      <3>2. last' = last \/ last' = last + 1
        BY <2>1
      <3>3. QED BY <2>2, <3>1, <3>2
    <2>4. FirstPoll' /\ GotGrows' /\ NotNoted'
      BY <1>1, <2>1, <2>2 DEF LiveInv, FirstPoll, GotGrows, NotNoted
    <2>5. ~Over => QueueGrows' /\ QueueSeen' /\ SeenTaken' /\ Remembers'
      BY <1>1, <2>1, <2>2 DEF LiveInv, QueueGrows, QueueSeen, SeenTaken, Remembers
    <2>6. ~Over => Taken' \subseteq 1..last'
      BY <1>1, <2>1, <2>2 DEF LiveInv
    <2>7. ~Over => NoGap'
      <3> SUFFICES ASSUME ~Over, NEW n \in 1..Segments, NEW k \in Taken,
                          Oldest' <= n, n <= k
                   PROVE  n \in Taken
        BY <2>2 DEF NoGap
      <3>1. Oldest <= n
        BY <2>3
      <3>2. QED BY <1>1, <3>1 DEF LiveInv, NoGap
    <2>8. ~Over => ListAhead'
      <3> SUFFICES ASSUME pc \in {"walk", "download", "send"}, list # <<>>
                   PROVE  ListAhead'
        BY <2>1 DEF ListAhead
      <3>1. /\ Len(list) <= HistCap /\ list[Len(list)] <= last
            /\ \A k \in Taken : k <= list[Len(list)]
            /\ \A i \in 1..Len(list) : list[i] \in Taken \/ \A k \in Taken : k < list[i]
            /\ \A n \in 1..Segments : Oldest <= n /\ n < list[1] => n \in Taken
        BY <1>1 DEF LiveInv, ListAhead
      <3>2. list[Len(list)] <= last'
        <4>1. Len(list) \in 1..Len(list)
          BY <1>1, HeadIs
        <4>2. list[Len(list)] \in 1..Segments
          BY <1>1, <4>1, ElementOfSeq DEF TypeOK
        <4>3. QED BY <2>1, <2>2, <3>1, <4>2
      <3>3. \A n \in 1..Segments : Oldest' <= n /\ n < list[1] => n \in Taken
        BY <2>3, <3>1
      <3>4. QED BY <2>1, <2>2, <3>1, <3>2, <3>3 DEF ListAhead
    <2>9. QED BY <1>1, <2>1, <2>4, <2>5, <2>6, <2>7, <2>8 DEF LiveInv
  <1>6. QED
    BY <1>3, <1>4, <1>5, LiveNote, LivePoll, LiveTake, LivePass DEF Next, Receive

-----------------------------------------------------------------------------
(* A VOD playback.                                                         *)

LEMMA SeenGrows ==
    ASSUME TypeOK, NEW n \in 1..Segments, Insert(Resolved(n))
    PROVE  seen' \subseteq seen \cup {<<Kind, n>>}
  BY KindIs DEF Insert

(* What is left of the list lies beyond what has been passed.              *)
VodList ==
    \A i \in 1..Len(list) :
      /\ \A k \in Range(got) : k < list[i]
      /\ \A n \in 1..Segments : <<Kind, n>> \in seen =>
            n < list[i] \/ (Busy /\ n = list[1])

VodRange ==
    UriKind # "rooted" /\ OffsetsGrow =>
        \A n \in offered : Within(n) =>
           /\ ~Over \/ (pc = "ended" /\ ~flag)
                 => n \in Range(got) \cup failed \cup Range(list)
           /\ (\E k \in Range(got) : n < k) => n \in Range(got) \cup failed

LEMMA VodTake ==
    ASSUME IInv, Vod, Take
    PROVE  VodInv'
  <1>1. /\ TypeOK /\ ListInOrder /\ VodInv /\ VodList /\ VodRange /\ sit' = sit
        /\ flag' = flag /\ pc = "walk" /\ list # <<>> /\ Insert(Resolved(Current))
        /\ UNCHANGED <<first, noted, offered, got, failed>>
    BY DEF Take, Walking, IInv, VodInv, VodList, VodRange, netVars, ghosts
  <1>2. /\ Len(list) \in Nat \ {0} /\ Current = list[1] /\ Current \in 1..Segments
    BY <1>1, HeadIs
  <1>3. /\ UNCHANGED <<Vod, UriKind, Kind, StartTime, EndTime>>
        /\ StartTime \in Nat /\ EndTime \in Nat
        /\ \A n : Within(n)' = Within(n)
    BY <1>1, SitFrame, KindIs DEF Within
  <1>4. seen' \subseteq seen \cup {<<Kind, Current>>}
    BY <1>1, <1>2, SeenGrows
  <1>5. \A i \in 1..Len(list) : list[i] = Current + i - 1 /\ list[i] \in 1..Segments
    BY <1>1, <1>2, ElementOfSeq DEF ListInOrder, TypeOK
  <1>6. \A n \in 1..Segments : <<Kind, n>> \in seen' => n <= Current
    <2> SUFFICES ASSUME NEW n \in 1..Segments, <<Kind, n>> \in seen'
                 PROVE  n <= Current
      OBVIOUS
    <2>1. <<Kind, n>> \in seen \/ n = Current
      BY <1>4
    <2>2. <<Kind, n>> \in seen => n < list[1]
      BY <1>1, <1>2 DEF VodList
    <2>3. QED BY <1>2, <2>1, <2>2
  <1>7. \A k \in Range(got) : k < Current
    BY <1>1, <1>2 DEF VodList
  <1>8. CASE pc' = pc /\ list' = Tail(list) /\ Before(Current)
    <2>1. /\ Len(list') = Len(list) - 1 /\ Range(list) \subseteq {Current} \cup Range(list')
          /\ \A i \in 1..Len(list') : list'[i] = list[i + 1]
      BY <1>1, <1>8, TailIs
    <2>2. ~Within(Current)
      BY <1>2, <1>3, <1>8, ReceiverAssumption DEF Before, Within
    <2>3. VodRange'
      BY <1>1, <1>3, <2>1, <2>2 DEF VodRange
    <2>4. \A i \in 1..Len(list') : Current < list'[i] /\ list'[i] \in 1..Segments
      BY <1>2, <1>5, <2>1
    <2>5. VodList'
      <3>1. ASSUME NEW i \in 1..Len(list')
            PROVE  /\ \A k \in Range(got) : k < list'[i]
                   /\ \A n \in 1..Segments : <<Kind, n>> \in seen' => n < list'[i]
        <4>1. \A k \in Range(got) : k \in 1..Segments
          BY <1>1, RangeOf DEF TypeOK
        <4>2. QED BY <1>2, <1>6, <1>7, <2>4, <4>1
      <3>2. QED BY <1>1, <1>3, <3>1 DEF VodList
    <2>6. QED BY <1>1, <1>3, <1>8, <2>3, <2>5 DEF VodInv, VodList, VodRange, GotGrows
  <1>9. CASE pc' = pc /\ list' = <<>> /\ Beyond(Current)
    <2>1. ASSUME OffsetsGrow, NEW n \in Range(list)
          PROVE  ~Within(n)
      <3>1. n \in 1..Segments /\ Current <= n
        <4>1. PICK i \in 1..Len(list) : n = list[i]
          BY <1>1, <2>1, RangeOf DEF TypeOK
        <4>2. n = Current + i - 1 /\ n \in 1..Segments
          BY <1>5, <4>1
        <4>3. QED BY <1>2, <4>1, <4>2
      <3>2. Offset[Current] <= Offset[n]
        BY <1>2, <2>1, <3>1 DEF OffsetsGrow
      <3>3. EndTime > 0 /\ Offset[Current] > EndTime
        BY <1>9 DEF Beyond
      <3>4. Offset[n] \in Nat /\ Offset[Current] \in Nat
        BY <1>2, <3>1, ReceiverAssumption
      <3>5. QED BY <1>3, <3>2, <3>3, <3>4 DEF Within
    <2>2. VodRange'
      BY <1>1, <1>3, <2>1 DEF VodRange
    <2>3. VodList'
      BY <1>9 DEF VodList
    <2>4. QED BY <1>1, <1>3, <1>9, <2>2, <2>3 DEF VodInv, VodList, VodRange, GotGrows
  <1>10. CASE pc' = "download" /\ list' = list
    <2>1. VodRange'
      BY <1>1, <1>3, <1>10 DEF VodRange
    <2>2. VodList'
      BY <1>1, <1>2, <1>3, <1>5, <1>6, <1>10 DEF VodList
    <2>3. GotGrows'
      BY <1>1, <1>7, <1>10 DEF VodInv, GotGrows, Current
    <2>4. QED BY <1>1, <1>3, <1>10, <2>1, <2>2, <2>3 DEF VodInv, VodList, VodRange
  <1>11. QED BY <1>8, <1>9, <1>10 DEF Take

LEMMA VodPass ==
    ASSUME IInv, Vod, Skip \/ Send \/ DownloadFails
    PROVE  VodInv'
  <1>1. /\ TypeOK /\ ListInOrder /\ VodInv /\ VodList /\ VodRange /\ sit' = sit
        /\ flag' = flag /\ pc \in {"walk", "download", "send"} /\ pc' = "walk"
        /\ list # <<>> /\ list' = Tail(list)
        /\ UNCHANGED <<first, noted, offered, seen>>
    BY DEF Skip, Send, DownloadFails, Walking, Passed, IInv, TypeOK, VodInv, VodList,
           VodRange, hisVars, ghosts
  <1>2. /\ Len(list) \in Nat \ {0} /\ Current = list[1] /\ Current \in 1..Segments
        /\ Len(list') = Len(list) - 1 /\ Range(list) \subseteq {Current} \cup Range(list')
        /\ \A i \in 1..Len(list') : list'[i] = list[i + 1]
    BY <1>1, TailIs
  <1>3. /\ UNCHANGED <<Vod, UriKind, Kind, StartTime, EndTime>>
        /\ \A n : Within(n)' = Within(n)
    BY <1>1, SitFrame DEF Within
  <1>4. \A i \in 1..Len(list') :
          /\ i + 1 \in 1..Len(list) /\ Current < list'[i] /\ list'[i] \in 1..Segments
    <2> SUFFICES ASSUME NEW i \in 1..Len(list')
                 PROVE  i + 1 \in 1..Len(list) /\ Current < list'[i] /\ list'[i] \in 1..Segments
      OBVIOUS
    <2>1. i + 1 \in 1..Len(list) /\ list'[i] = list[i + 1]
      BY <1>2
    <2>2. list[i + 1] = list[1] + (i + 1) - 1
      BY <1>1, <2>1 DEF ListInOrder
    <2>3. list[i + 1] \in 1..Segments
      BY <1>1, <2>1, ElementOfSeq DEF TypeOK
    <2>4. QED BY <1>2, <2>1, <2>2, <2>3
  <1>5. ASSUME NEW i \in 1..Len(list')
        PROVE  /\ \A k \in Range(got) : k < list'[i]
               /\ \A n \in 1..Segments : <<Kind, n>> \in seen => n < list'[i]
    <2>1. i + 1 \in 1..Len(list) /\ Current < list'[i] /\ list'[i] = list[i + 1]
      BY <1>2, <1>4
    <2>2. QED BY <1>1, <1>2, <2>1 DEF VodList
  <1>6. CASE Skip
    <2>1. UNCHANGED <<got, failed>> /\ pc = "walk" /\ (Known \/ UriKind = "rooted")
      BY <1>6 DEF Skip, Walking, ghosts
    <2>2. ~Known
      <3> SUFFICES ASSUME <<Kind, Current>> \in seen
                   PROVE  FALSE
        BY <1>1, KindIs DEF Known
      <3>1. Current < list[1]
        <4>1. 1 \in 1..Len(list)
          BY <1>2
        <4>2. QED BY <1>1, <1>2, <2>1, <4>1 DEF VodList
      <3>2. QED BY <1>2, <3>1
    <2>3. QED BY <1>1, <1>3, <1>5, <2>1, <2>2 DEF VodInv, GotGrows
  <1>7. CASE Send \/ DownloadFails
    <2>1. Busy /\ \A k \in Range(got) : k < Current
      BY <1>1, <1>7 DEF Send, DownloadFails, VodInv, GotGrows
    <2>2. CASE DownloadFails
      <3>1. got' = got /\ failed' = failed \cup {Current}
        BY <2>2 DEF DownloadFails
      <3>2. VodRange'
        BY <1>1, <1>2, <1>3, <3>1 DEF VodRange
      <3>3. QED BY <1>1, <1>3, <1>5, <3>1, <3>2 DEF VodInv, GotGrows, VodRange
    <2>3. CASE Send
      <3>1. got' = Append(got, Current) /\ failed' = failed /\ got \in Seq(1..Segments)
        BY <1>1, <2>3 DEF Send, TypeOK
      <3>2. Range(got') = Range(got) \cup {Current}
        BY <1>2, <3>1, RangeAppend
      <3>3. VodRange'
        <4> SUFFICES ASSUME UriKind # "rooted", OffsetsGrow, NEW n \in offered, Within(n)
                     PROVE  /\ n \in Range(got') \cup failed \cup Range(list')
                            /\ (\E k \in Range(got') : n < k) => n \in Range(got') \cup failed
          BY <1>1, <1>3, <3>1 DEF VodRange
        <4>1. n \in Range(got) \cup failed \cup Range(list)
          BY <1>1 DEF VodRange
        <4>2. n \in Range(list') => ~(n < Current)
          <5> SUFFICES ASSUME NEW i \in 1..Len(list'), n = list'[i]
                       PROVE  ~(n < Current)
            <6>1. list' \in Seq(1..Segments)
              BY <1>1, HeadTailProperties DEF TypeOK
            <6>2. QED BY <6>1, RangeOf
          <5>1. QED BY <1>2, <1>4
        <4>3. \A k \in Range(got) : n < k => n \in Range(got) \cup failed
          BY <1>1 DEF VodRange
        <4>4. QED BY <1>2, <3>2, <4>1, <4>2, <4>3
      <3>4. GotGrows'
        BY <1>1, <1>2, <2>1, <3>1, AppendGrows DEF VodInv, GotGrows
      <3>5. VodList'
        BY <1>1, <1>3, <1>4, <1>5, <3>2 DEF VodList
      <3>6. QED BY <1>1, <1>3, <3>3, <3>4, <3>5 DEF VodInv, VodRange, VodList
    <2>4. QED BY <1>7, <2>2, <2>3
  <1>8. QED BY <1>6, <1>7

LEMMA VodStep ==
    ASSUME IInv, Vod, Next
    PROVE  VodInv'
  <1>1. TypeOK /\ VodInv /\ (pc = "poll" => list = <<>>) /\ ListInOrder
    BY DEF IInv
  <1>2. sit' = sit => /\ UNCHANGED <<Vod, UriKind, Kind, StartTime, EndTime>>
                      /\ \A n : Within(n)' = Within(n)
    BY SitFrame DEF Within
  <1>3. CASE Poll
    <2>1. /\ got = <<>> /\ seen = {} /\ offered = {} /\ ~first /\ noted = {}
          /\ UNCHANGED <<sit, flag, seen, first, noted, got, failed>>
          /\ pc' = "walk" /\ list' = Playlist /\ offered' = Range(Playlist)
      BY <1>1, <1>3 DEF Poll, VodInv, hisVars
    <2>2. Range(got') = {} /\ DOMAIN got' = {}
      BY <2>1 DEF Range
    <2>3. QED BY <1>2, <2>1, <2>2 DEF VodInv, GotGrows
  <1>4. CASE SeesFlag \/ SendFails
    <2>1. /\ UNCHANGED <<sit, flag, first, noted, offered, got, failed>>
          /\ (flag' /\ pc' = "ended") \/ pc' = "gone"
      BY <1>4 DEF SeesFlag, SendFails, ghosts
    <2>2. QED BY <1>1, <1>2, <2>1 DEF VodInv, GotGrows
  <1>5. CASE Walked
    <2>1. /\ pc = "walk" /\ pc' = "ended" /\ list' = <<>> /\ (list = <<>> \/ flag)
          /\ UNCHANGED <<sit, flag, first, noted, offered, got, failed>>
      BY <1>5 DEF Walked, Done, ghosts
    <2>2. QED BY <1>1, <1>2, <2>1 DEF VodInv, GotGrows
  <1>6. CASE Download \/ Publish \/ Close \/ CtrlC \/ PollAgain \/ Ended
             \/ SenderStarts \/ SenderTakes \/ SenderHeld \/ SenderEnds
    <2>1. /\ UNCHANGED <<sit, list, got, failed, noted, offered, seen, first>>
          /\ pc' = pc \/ (pc = "download" /\ pc' = "send")
          /\ flag' = flag \/ flag'
      BY <1>6 DEF Download, Publish, Close, CtrlC, PollAgain, Ended, SenderStarts,
                  SenderTakes, SenderHeld, SenderEnds, receiverVars, vars, hisVars, ghosts, netVars
    <2>2. Current' = Current
      BY <2>1 DEF Current
    <2>3. QED BY <1>1, <1>2, <2>1, <2>2 DEF VodInv, GotGrows
  <1>7. ~Note
    BY <1>1 DEF VodInv, Note
  <1>8. QED
    BY <1>3, <1>4, <1>5, <1>6, <1>7, VodTake, VodPass DEF Next, Receive

-----------------------------------------------------------------------------
(* The theorems.                                                           *)

LEMMA Initially ==
    Init => IInv
  <1> SUFFICES ASSUME Init
               PROVE  IInv
    OBVIOUS
  <1> USE ReceiverAssumption DEF Init
  <1>1. TypeOK
    <2>1. Vod \in BOOLEAN
      BY DEF Vod, Situation
    <2>2. first \in BOOLEAN
      BY <2>1
    <2>3. <<>> \in Seq(1..Segments) /\ <<>> \in Seq(Uris \X (1..Segments))
      BY EmptySeq
    <2>4. 0 \in 0..Segments /\ 0 \in 0..SegCap /\ sit \in Situations
      OBVIOUS
    <2>5. QED BY <2>2, <2>3, <2>4 DEF TypeOK
  <1>2. ListInOrder /\ (pc = "poll" => list = <<>>)
    BY DEF ListInOrder
  <1>3. Range(got) = {} /\ Range(list) = {} /\ DOMAIN got = {} /\ DOMAIN queue = {}
    BY DEF Range
  <1>4. ASSUME ~Vod
        PROVE  LiveInv
    <2>1. Taken = {}
      BY <1>3 DEF Taken
    <2>2. FirstPoll /\ GotGrows /\ NotNoted
      BY <1>3 DEF FirstPoll, GotGrows, NotNoted
    <2>3. QueueGrows /\ QueueSeen /\ SeenTaken /\ Remembers /\ NoGap /\ ListAhead
      BY <1>3, <2>1 DEF QueueGrows, QueueSeen, SeenTaken, Remembers, NoGap, ListAhead
    <2>4. QED BY <2>1, <2>2, <2>3 DEF LiveInv
  <1>5. Vod => VodInv
    BY <1>3 DEF VodInv, GotGrows
  <1>6. QED BY <1>1, <1>2, <1>4, <1>5 DEF IInv

LEMMA Stutters ==
    IInv /\ UNCHANGED vars => IInv'
  <1> SUFFICES ASSUME IInv, UNCHANGED vars
               PROVE  IInv'
    OBVIOUS
  <1>1. UNCHANGED <<sit, last, endlist, flag, sender, waiting, pc, list, final, seen,
                    queue, first, noted, offered, got, failed>>
    BY DEF vars, netVars, sendVars, hisVars, ghosts
  <1>2. /\ UNCHANGED <<Vod, UriKind, Window, Kind, Oldest, Current, Taken, StartTime, EndTime>>
        /\ WithinHistory' = WithinHistory /\ \A n : Within(n)' = Within(n)
    BY <1>1, SitFrame DEF Oldest, Current, Taken, Within
  <1>3. TypeOK' /\ ListInOrder' /\ (pc = "poll" => list = <<>>)'
    BY <1>1 DEF IInv, TypeOK, ListInOrder
  <1>4. LiveInv => LiveInv'
    BY <1>1, <1>2 DEF LiveInv, FirstPoll, GotGrows, NotNoted, QueueGrows, QueueSeen,
                      SeenTaken, Remembers, NoGap, ListAhead
  <1>5. VodInv => VodInv'
    BY <1>1, <1>2 DEF VodInv, GotGrows
  <1>6. QED BY <1>2, <1>3, <1>4, <1>5 DEF IInv

LEMMA SpecIInv ==
    Spec => []IInv
  <1>1. IInv /\ [Next]_vars => IInv'
    <2>1. ASSUME IInv, Next
          PROVE  IInv'
      <3>1. sit' = sit
        BY <2>1 DEF Next, Receive, Note, Poll, SeesFlag, Skip, Take, Download, Send,
                    DownloadFails, SendFails, Walked, PollAgain, SenderStarts,
                    SenderTakes, SenderHeld, SenderEnds, Publish, Close, CtrlC, Ended, vars
      <3>2. Vod' = Vod /\ WithinHistory' = WithinHistory
        BY <3>1, SitFrame
      <3>3. QED BY <2>1, <3>2, TypeStep, LiveStep, VodStep DEF IInv
    <2>2. QED BY <2>1, Stutters
  <1>2. QED BY <1>1, Initially, PTL DEF Spec

(* In every state every variable of the receiver has its type.             *)
THEOREM TypeCorrect ==
    Spec => []TypeOK
  <1>1. IInv => TypeOK
    BY DEF IInv
  <1>2. QED BY <1>1, SpecIInv, PTL

(* A receiver whose history holds a window hands no segment to the sender  *)
(* twice or after a later one, and leaves out none that a playlist it went *)
(* through offered, however often the window moved in between.             *)
THEOREM PlaysInOrder ==
    Spec => [](WithinHistory => PlayedInOrder)
  <1>1. ASSUME IInv, WithinHistory
        PROVE  PlayedInOrder
    <2>1. GotGrows
      BY <1>1 DEF IInv, LiveInv, VodInv
    <2>2. ASSUME ~Vod, pc = "poll", ~flag
          PROVE  offered \subseteq Range(got) \cup failed \cup noted
      <3>1. Range(list) = {}
        BY <1>1, <2>2 DEF IInv, Range
      <3>2. QED BY <1>1, <2>2, <3>1 DEF IInv, LiveInv
    <2>3. QED BY <2>1, <2>2 DEF PlayedInOrder, GotGrows
  <1>2. QED BY <1>1, SpecIInv, PTL

(* A live playback whose uris are noted as they are looked up plays none   *)
(* of the segments its first playlist listed.                              *)
THEOREM StartsAtTheEdge ==
    Spec => [](WithinHistory => LiveStartsAtTheEdge)
  <1>1. ASSUME IInv, WithinHistory
        PROVE  LiveStartsAtTheEdge
    BY <1>1 DEF IInv, LiveInv, VodInv, NotNoted, LiveStartsAtTheEdge
  <1>2. QED BY <1>1, SpecIInv, PTL

(* A VOD playback of urls whose offsets grow plays the range of offsets,   *)
(* ends included, without a gap; and all of it when it ends by itself,     *)
(* rather than by a shutdown or for want of a sender.                      *)
THEOREM PlaysItsRange ==
    Spec => [](UriKind # "rooted" /\ OffsetsGrow => VodPlaysRange)
  <1> DEFINE Listed == UriKind # "rooted" /\ OffsetsGrow
  <1>1. ASSUME IInv, Listed
        PROVE  VodPlaysRange
    <2> SUFFICES ASSUME Vod, NEW n \in offered, Within(n),
                        (pc = "ended" /\ ~flag) \/ \E k \in Range(got) : n < k
                 PROVE  n \in Range(got) \cup failed
      BY DEF VodPlaysRange, Within
    <2>1. CASE \E k \in Range(got) : n < k
      BY <1>1, <2>1 DEF IInv, VodInv
    <2>2. CASE pc = "ended" /\ ~flag
      <3>1. n \in Range(got) \cup failed \cup Range(list)
        BY <1>1, <2>2 DEF IInv, VodInv
      <3>2. Range(list) = {}
        BY <1>1, <2>2 DEF IInv, VodInv, Range
      <3>3. QED BY <3>1, <3>2
    <2>3. QED BY <2>1, <2>2
  <1> HIDE DEF Listed
  <1>2. Spec => [](Listed => VodPlaysRange)
    BY <1>1, SpecIInv, PTL
  <1>3. QED BY <1>2 DEF Listed
=============================================================================
