------------------------------- MODULE Parts --------------------------------
(***************************************************************************)
(* Six parts that share no state, side by side: a behaviour is one of      *)
(* VodIndex, AgentVod, UrlsLog, TsExtract, RecorderStart or PidTracker,    *)
(* and `part' says which. The variables the modules name alike are         *)
(* declared once; those the part does not have stay idle. PidTracker,      *)
(* whose constants come with an assumption, is extended: its variables     *)
(* stay as they begin in the other parts.                                  *)
(***************************************************************************)
EXTENDS PidTracker, SequencesExt

CONSTANTS HourLen, Recordings, IndexRanges, AgentRanges, Fails, Faults,
          Recorders, MaxHour, MaxWrites, Kills,
          Size, Batch, Header, FrameHeader, RtpHeader, SnapCount, DatagramSizes,
          Loss, LookAlikes, DropCorrupt, WriteFails, MaxBytes,
          Starters, MaxStartFaults

VARIABLES
    part,
    pc, rec, range, hours,                                  \* both players
    merged, fetched, unread, combined,
    log, hour, writes, copy, since,                         \* the urls log
    got, failed,                                            \* history
    rtp, sent, alike, bad, leftover, looping, batch, out, cuts, \* the packet loop
    step, junk, bucket, status, trouble                     \* the start

Index == INSTANCE VodIndex WITH Ranges <- IndexRanges
Agent == INSTANCE AgentVod WITH Ranges <- AgentRanges
Log == INSTANCE UrlsLog
Ts == INSTANCE TsExtract
Start == INSTANCE RecorderStart

ASSUME PartsAssumption ==
    /\ Index!HourAssumption /\ Index!IndexAssumption /\ Agent!VodAssumption
    /\ Log!LogAssumption /\ Ts!ExtractAssumption /\ Start!StartAssumption

playerVars == <<pc, rec, range, hours>>
indexVars == <<merged, fetched>>
agentVars == <<unread, combined>>
logVars == <<log, hour, writes, copy, since>>
history == <<got, failed>>
loopVars == <<rtp, sent, alike, bad, leftover, looping, batch, out, cuts>>
startVars == <<step, junk, bucket, status, trouble>>
trackerVars == vars
partsVars == <<part, playerVars, indexVars, agentVars, logVars, history, loopVars,
               startVars, trackerVars>>

Idle == "idle"
PlayersIdle == rec = Idle /\ range = Idle /\ hours = Idle
IndexIdle == merged = Idle /\ fetched = Idle
AgentIdle == unread = Idle /\ combined = Idle
LogIdle ==
    log = Idle /\ hour = Idle /\ writes = Idle /\ copy = Idle /\ since = Idle
HistoryIdle == got = Idle /\ failed = Idle
LoopIdle ==
    /\ rtp = Idle /\ sent = Idle /\ alike = Idle /\ bad = Idle /\ leftover = Idle
    /\ looping = Idle /\ batch = Idle /\ out = Idle /\ cuts = Idle
StartIdle ==
    step = Idle /\ junk = Idle /\ bucket = Idle /\ status = Idle /\ trouble = Idle

Parts == {"index", "agent", "log", "loop", "start", "tracker"}

PartsInit ==
    /\ part \in Parts
    /\ Init /\ (part # "tracker" => cc = [p \in Pids |-> 0])
    /\ part \notin {"log", "agent", "index"} => pc = Idle
    /\ part \notin {"agent", "index"} => PlayersIdle
    /\ part \notin {"loop", "index"} => HistoryIdle
    /\ IF part = "index" THEN Index!Init ELSE IndexIdle
    /\ IF part = "agent" THEN Agent!Init ELSE AgentIdle
    /\ IF part = "log"   THEN Log!Init   ELSE LogIdle
    /\ IF part = "loop"  THEN Ts!Init    ELSE LoopIdle
    /\ IF part = "start" THEN Start!Init ELSE StartIdle

PartsNext ==
    \/ part = "index" /\ Index!Next
       /\ UNCHANGED <<part, agentVars, logVars, loopVars, startVars, trackerVars>>
    \/ part = "agent" /\ Agent!Next
       /\ UNCHANGED <<part, indexVars, history, logVars, loopVars, startVars,
                      trackerVars>>
    \/ part = "log" /\ Log!Next
       /\ UNCHANGED <<part, rec, range, hours, indexVars, agentVars, history,
                      loopVars, startVars, trackerVars>>
    \/ part = "loop" /\ Ts!Next
       /\ UNCHANGED <<part, playerVars, indexVars, agentVars, logVars, startVars,
                      trackerVars>>
    \/ part = "start" /\ Start!Next
       /\ UNCHANGED <<part, playerVars, indexVars, agentVars, history, logVars,
                      loopVars, trackerVars>>
    \/ part = "tracker" /\ Next
       /\ UNCHANGED <<part, playerVars, indexVars, agentVars, history, logVars,
                      loopVars, startVars>>

PartsSpec == PartsInit /\ [][PartsNext]_partsVars

-----------------------------------------------------------------------------
(* Properties: those of the parts, under their names, and PidTracker's.    *)

(* Playing from an index of hours plays the segments of the range that     *)
(* stay within an hour, once, in their order, and no others, up to its end *)
(* or to where it breaks off (VodIndex).                                   *)
HoursPlayRange == part = "index" => Index!HoursPlayRange

(* The agent combines the hours it could read in the order they were       *)
(* recorded, and leaves out no segment of an hour that begins in the range *)
(* and ends before the range does (AgentVod).                              *)
CombinedWhole == part = "agent" => Agent!CombinedWhole

(* A line of a recorder leaves the log only when two recorders overlap     *)
(* (UrlsLog).                                                              *)
LossNeedsOverlap == [][part = "log" => Log!LostByOverlap]_partsVars

(* No byte reaches the segmenter twice or after a later one (TsExtract).   *)
BytesInOrder == part = "loop" => Ts!BytesInOrder

(* Whole packets pass, and one broken off damages one packet (TsExtract).  *)
PacketsPass == part = "loop" => Ts!PacketsPass

(* A recorder that is set up right stops only for a fault of its own or    *)
(* for the bucket two of them make at once (RecorderStart).                *)
StartsUnlessRaced == part = "start" => Start!StartsUnlessRaced
=============================================================================
