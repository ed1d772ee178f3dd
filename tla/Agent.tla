------------------------------- MODULE Agent -------------------------------
(***************************************************************************)
(* An agent with recordings and playbacks: AgentRecordings and             *)
(* AgentPlaybacks interleaved, over one table of processes, whose pids     *)
(* they send signals to without knowing whom they reach, and one Node      *)
(* process, whose restart ends the requests of both.                       *)
(***************************************************************************)
EXTENDS AgentJobs

CONSTANTS
    Requests, Hours,           \* of AgentRecordings
    Posts, Stops, Jobs, NoJob, \* of AgentPlaybacks
    Loads                      \* bound: the sets of calls that may be made

VARIABLES
    load,                                           \* the calls that may be made
    rpc, lines, record, log, urls, missed,          \* of AgentRecordings
    serial, skipped, ppc, job, todo, records, spc, sjob, stodo

Rec == INSTANCE AgentRecordings
Play == INSTANCE AgentPlaybacks

ASSUME AgentAssumption ==
    /\ Rec!RecordingsAssumption /\ Play!PlaybacksAssumption
    /\ Owners = Requests \cup Posts /\ Requests \cap Posts = {}
    /\ \A l \in Loads : l \subseteq Owners \cup Stops
                       /\ Cardinality(l \cap Owners) <= MaxPid

recVars == <<rpc, lines, record, log, urls, missed>>
playVars == <<serial, skipped, ppc, job, todo, records, spc, sjob, stodo>>
vars == <<load, jobVars, recVars, playVars>>

(* Callers that wait for their answers matter to playbacks of the same job. *)
Init ==
    /\ load \in Loads /\ JobsInit /\ Rec!Init /\ Play!Init
    /\ load \cap Requests # {} => ~serial

Record(r) ==
    \/ r \in load /\ Rec!Post(r)
    \/ Rec!Handle(r) \/ Rec!PutFailed(r) \/ Rec!TimerFire(r) \/ Rec!RecorderExits(r)
    \/ \E h \in Hours : Rec!PublishHour(r, h)

Playback(r) ==
    \/ r \in load /\ Play!Post(r)
    \/ Play!Handle(r) \/ Play!PutFailed(r) \/ Play!TimerFire(r) \/ Play!Events(r)
    \/ Play!PlayerExits(r)

StopPlayback(s) == (s \in load /\ Play!Stop(s)) \/ Play!HandleStop(s)

Restart == JobsRestart /\ Rec!RequestsLost /\ Play!RequestsLost /\ UNCHANGED load

Next ==
    \/ \E r \in Requests : Record(r) /\ UNCHANGED <<load, playVars>>
    \/ \E r \in Posts : Playback(r) /\ UNCHANGED <<load, recVars>>
    \/ \E s \in Stops : StopPlayback(s) /\ UNCHANGED <<load, recVars>>
    \/ Rec!StopRecording /\ UNCHANGED vars
    \/ Restart

Spec == Init /\ [][Next]_vars

(* S3 answers, Node runs its callbacks, and timers run out: what the agent *)
(* has to do for a recording, it goes on with. Nobody owes a request, a    *)
(* fault or an exit.                                                       *)
GoesOn(r) == (Rec!Handle(r) \/ Rec!TimerFire(r)) /\ UNCHANGED <<load, playVars>>

FairSpec == Spec /\ \A r \in Requests : WF_vars(GoesOn(r))

-----------------------------------------------------------------------------
(* Properties: those of the two modules.                                   *)

(* The type of every variable.                                             *)
TypeOK == load \in Loads /\ JobsTypeOK /\ Rec!TypeOK /\ Play!TypeOK

(* Every accepted recorder that runs is listed, also when the signal of a  *)
(* playback or of an earlier process meets it (AgentRecordings).           *)
RecorderIsListed == Rec!RunningIsListed

(* The URLs of all hours are stored before the record goes                 *)
(* (AgentRecordings).                                                      *)
UrlsBeforeForget == Rec!UrlsBeforeForget

(* A recorder with a duration is stopped (AgentRecordings).                *)
AutoStop == Rec!AutoStop

(* A job that no POST is working on plays at most once (AgentPlaybacks).   *)
PlaysOnce == Play!PlaysOnce

(* Every accepted player that runs has its record (AgentPlaybacks).        *)
PlayerIsListed == Play!RunningIsListed

(* A stop that is answered has stopped the job (AgentPlaybacks).           *)
StopIsComplete == [][Play!StopLeavesNone]_vars

(* What an agent is about to kill for a playback is that playback or       *)
(* nothing (AgentPlaybacks; does not hold).                                *)
SignalsReachTheirOwn == Play!SignalsReachTheirOwn
=============================================================================
