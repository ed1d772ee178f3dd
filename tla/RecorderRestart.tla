-------------------------- MODULE RecorderRestart ---------------------------
(***************************************************************************)
(* A recorder that is started again for the same output directory, after   *)
(* it was killed or ended: udp-to-hls reads nothing back (src/src/main.rs, *)
(* ManualSegmenter::new and HourlyIndexCreator::new), so that its numbers, *)
(* its playlist and its hours begin anew, while the playlists on disk and  *)
(* what is in S3 are still those of the run before.                        *)
(*                                                                         *)
(* Segment objects are named after the second they begin in; a start takes *)
(* longer than that, which is a tick here.                                 *)
(***************************************************************************)
EXTENDS Segmenter

CONSTANT MaxRuns  \* bound: runs of the recorder

ASSUME RestartAssumption == MaxRuns \in Nat \ {0}

VARIABLES
    runs,   \* runs of the recorder
    began,  \* when this one began
    missed, \* the last packet before it
    found   \* what this run found: playlists, published or local, and indexes

runVars == <<runs, began, missed, found>>
restartVars == <<vars, runVars>>

Present == [lists |-> {liveIndex, localM3u8}, hours |-> hourIndex]

RestartInit == Init /\ runs = 1 /\ began = 0 /\ missed = 0 /\ found = Present

(* The memory of the process is as in Init; time has passed.               *)
Restart ==
    /\ pc \in Ended /\ runs < MaxRuns /\ clock < MaxClock
    /\ runs' = runs + 1 /\ clock' = clock + 1
    /\ began' = clock' /\ missed' = next /\ found' = Present
    /\ pc' = "recv" /\ caller' = "final" /\ batch' = <<>>
    /\ openTime' = NoTime /\ startTime' = NoTime
    /\ buf' = <<>> /\ bytes' = 0 /\ measured' = FALSE /\ segIndex' = 0
    /\ playlist' = <<>> /\ ring' = <<>>
    /\ seg' = [num |-> 0, at |-> NoTime, hour |-> NoTime]
    /\ seqId' = 0 /\ hourMap' = [h \in Hours |-> <<>>]
    /\ closed' = <<>> /\ uploaded' = {} /\ openFailed' = FALSE
    /\ UNCHANGED <<next, store, localM3u8, liveIndex, hourIndex, urlsLog>>

RestartNext == (Next /\ UNCHANGED runVars) \/ Restart

RestartSpec == RestartInit /\ [][RestartNext]_restartVars
-----------------------------------------------------------------------------
(* Properties. Those of Segmenter hold for what the present run has made.  *)

Mine(e) == e.at # NoTime /\ e.at >= began
Kept(e) == \E o \in store : o.num = e.num /\ o.at = e.at
Holds(e) == [num |-> e.num, at |-> e.at, data |-> closed[e.num]] \in store

(* What players are told exists: every entry of the published playlist     *)
(* that is a URL names an object that holds that very segment; what an     *)
(* earlier run listed is still there.                                      *)
EntriesStoredAcrossRuns ==
    \A i \in DOMAIN liveIndex.entries :
        LET e == liveIndex.entries[i]
        IN  e.at # NoTime => IF Mine(e) THEN Holds(e) ELSE Kept(e)

(* An acknowledged segment that has data is found by its entry in the      *)
(* index of the hour, computed a second time, and the urls log never names *)
(* an index that is not there (Segmenter!HourEntriesStored, for the        *)
(* present run).                                                           *)
HoursStoredAcrossRuns ==
    /\ ~openFailed => \A h \in Hours : \A i \in DOMAIN hourIndex[h] :
          LET e == hourIndex[h][i]
          IN  Mine(e) /\ e.num \in uploaded /\ closed[e.num] # <<>> => Holds(e)
    /\ \A h \in urlsLog : hourIndex[h] # <<>>

(* Even when closes fail, no packet captured in a run is forgotten before  *)
(* its end: each is in the batch, in the open segment or in a closed one.  *)
NoPacketForgotten ==
    pc # "dead" => \A p \in (missed + 1)..next :
        \/ Contains(batch, p) \/ Contains(buf, p)
        \/ \E i \in DOMAIN closed : Contains(closed[i], p)

(* Only the first playlist that a restarted run makes moves the window     *)
(* back; in a run no segment changes its media sequence number.            *)
SequenceStableWithinRun ==
    [][ (runs = 1 \/ liveIndex \notin found.lists) => SequenceKept ]_restartVars

(* The published index of an hour only ever grows, but for the first one a *)
(* restarted run publishes for the hour, which leaves out all that earlier *)
(* runs recorded in it.                                                    *)
HoursGrowWithinRun ==
    [][ \A h \in Hours :
          \/ IsPrefix(hourIndex[h], hourIndex'[h])
          \/ runs > 1 /\ hourIndex[h] = found.hours[h] ]_restartVars
=============================================================================
