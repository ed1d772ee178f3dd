-------------------------- MODULE AgentRecordings --------------------------
(***************************************************************************)
(* The recording jobs of the agent (src/recording-playback-api/agent.js):  *)
(* the POST handler that spawns a udp-to-hls, records it in S3 and only    *)
(* then attaches the timer and the close handler, the timer that stops the *)
(* recorder, the close handler that stores the URLs of its hours, and the  *)
(* DELETE handler.                                                         *)
(*                                                                         *)
(* The manager gives every recording an id of its own, so that a request,  *)
(* its jobId and its record share one name. The agent also stores the      *)
(* hours it finds in the output of a recorder; udp-to-hls prints none.     *)
(***************************************************************************)
EXTENDS AgentJobs

CONSTANTS
    Requests,    \* the POSTs of recordings
    Hours        \* the hour directories a recorder publishes

RecordingsAssumption == Requests \subseteq Owners

VARIABLES
    rpc,       \* program point of the POST handler of a request
    lines,     \* the lines its close handler has read and not yet stored
    record,    \* the agent_recordings/ objects in S3
    log,       \* the hours the urls log names for a job
    urls,      \* the hours that have a recording_urls object
    missed     \* history: the hours whose recording_urls put failed, or
               \* whose lines the close handler could not read

s3Vars == <<record, urls, missed>>
recVars == <<rpc, lines, s3Vars, log>>
vars == <<jobVars, recVars>>

Init ==
    /\ rpc = [r \in Requests |-> "idle"]
    /\ lines = [r \in Requests |-> {}]
    /\ record = {}
    /\ log = [r \in Requests |-> {}]
    /\ urls = [r \in Requests |-> {}]
    /\ missed = [r \in Requests |-> {}]

-----------------------------------------------------------------------------
(* POST /jobs/recordings.                                                  *)

Post(r) ==
    /\ rpc[r] = "idle"
    /\ rpc' = [rpc EXCEPT ![r] = "creds"]
    /\ UNCHANGED <<jobVars, lines, s3Vars, log>>

(* getPoolCredentials answers, the recorder is spawned and the PutObject   *)
(* is sent; or the request is answered with 400.                           *)
Spawn(r) ==
    /\ rpc[r] = "creds"
    /\ \/ SpawnProcess(r) /\ rpc' = [rpc EXCEPT ![r] = "put"]
       \/ /\ "credentials" \in Faults
          /\ rpc' = [rpc EXCEPT ![r] = "rejected"] /\ UNCHANGED processVars
    /\ UNCHANGED <<watch, timer, restarts, lines, s3Vars, log>>

(* The object reaches S3; its answer is under way.                         *)
PutLands(r) ==
    /\ rpc[r] = "put"
    /\ record' = record \cup {r}
    /\ rpc' = [rpc EXCEPT ![r] = "stored"]
    /\ UNCHANGED <<jobVars, lines, urls, missed, log>>

(* The then branch: the timer is armed and the close handler attached, too *)
(* late if the close event has been dispatched already.                    *)
PutAnswered(r) ==
    /\ rpc[r] = "stored"
    /\ rpc' = [rpc EXCEPT ![r] = "accepted"]
    /\ timer' = Armed(r)
    /\ watch' = [watch EXCEPT ![r] = "attached"]
    /\ UNCHANGED <<processVars, restarts, lines, s3Vars, log>>

(* The catch branch, whether or not the object was stored.                 *)
PutFailed(r) ==
    /\ rpc[r] \in {"put", "stored"} /\ "put" \in Faults
    /\ Kill(r)
    /\ rpc' = [rpc EXCEPT ![r] = "rejected"]
    /\ UNCHANGED <<pid, lastPid, child, watch, timer, restarts,
                   lines, s3Vars, log>>

-----------------------------------------------------------------------------
(* The timeout.                                                            *)

BugDeleteRecords(r) == record' = {}
DeleteRecord(r) ==
    \/ record' = record \ {r}
    \/ "delete" \in Faults /\ UNCHANGED record

TimerFire(r) == TimerFires(r) /\ UNCHANGED recVars

TimerDelete(r) ==
    /\ timer[r] = "delete"
    /\ DeleteRecord(r)
    /\ timer' = [timer EXCEPT ![r] = "fired"]
    /\ UNCHANGED <<processVars, watch, restarts, rpc, lines, urls, missed, log>>

-----------------------------------------------------------------------------
(* The close handler.                                                      *)

(* The urls log is read at once; one that is not there, or cannot be read, *)
(* is reported and passes for one without lines.                           *)
ReadLog(r) ==
    \/ lines' = [lines EXCEPT ![r] = log[r]] /\ UNCHANGED missed
    \/ /\ "log" \in Faults /\ UNCHANGED lines
       /\ missed' = [missed EXCEPT ![r] = @ \cup log[r]]

(* The close event: its handler, if there is one by now, reads the urls    *)
(* log. An event without a handler is lost.                                *)

CloseEvent(r) ==
    /\ r \in child /\ ~Running(r)
    /\ child' = child \ {r}
    /\ IF watch[r] = "attached"
       THEN watch' = [watch EXCEPT ![r] = "delete"] /\ ReadLog(r)
       ELSE UNCHANGED <<watch, lines, missed>>
    /\ UNCHANGED <<pid, holder, lastPid, timer, restarts, rpc, record, urls, log>>

(* One line after the other is stored; a failed put is logged and skipped. *)
StoreUrl(r) ==
    /\ watch[r] = "delete"
    /\ \E h \in lines[r] :
         /\ lines' = [lines EXCEPT ![r] = @ \ {h}]
         /\ \/ urls' = [urls EXCEPT ![r] = @ \cup {h}] /\ UNCHANGED missed
            \/ /\ "url_put" \in Faults /\ UNCHANGED urls
               /\ missed' = [missed EXCEPT ![r] = @ \cup {h}]
    /\ UNCHANGED <<jobVars, rpc, record, log>>

(* The record goes when every line has been tried.                         *)
BugUrlsDone(r) == TRUE
UrlsDone(r) == lines[r] = {}

ForgetEnded(r) ==
    /\ watch[r] = "delete" /\ UrlsDone(r)
    /\ DeleteRecord(r)
    /\ watch' = [watch EXCEPT ![r] = "done"]
    /\ UNCHANGED <<processVars, timer, restarts, rpc, lines, urls, missed, log>>

-----------------------------------------------------------------------------
(* DELETE /recordings/:jobId. S3Database.get names a variable db that its  *)
(* module does not have; the exception, and the one its catch block then   *)
(* raises, end the request with 500 before anything is done.               *)
StopRecording == UNCHANGED vars

-----------------------------------------------------------------------------
(* The recorder publishes the index of an hour and names it in the log.    *)
PublishHour(r, h) ==
    /\ Running(r) /\ h \notin log[r]
    /\ log' = [log EXCEPT ![r] = @ \cup {h}]
    /\ UNCHANGED <<jobVars, rpc, lines, s3Vars>>

RecorderExits(r) == "recorder" \in Faults /\ Exit(r) /\ UNCHANGED recVars

(* A restart ends the requests and the close handlers.                     *)
RequestsLost ==
    /\ rpc' = [r \in Requests |->
                IF rpc[r] \in {"creds", "put", "stored"} THEN "lost" ELSE rpc[r]]
    /\ lines' = [r \in Requests |-> {}]
    /\ UNCHANGED <<s3Vars, log>>

(* What the agent owes: S3 answers and Node runs its callbacks.            *)
Handle(r) == Spawn(r) \/ PutLands(r) \/ PutAnswered(r) \/ TimerDelete(r)
             \/ CloseEvent(r) \/ StoreUrl(r) \/ ForgetEnded(r)

Next ==
    \/ \E r \in Requests :
         \/ Post(r) \/ Handle(r) \/ PutFailed(r) \/ TimerFire(r)
         \/ RecorderExits(r) \/ \E h \in Hours : PublishHour(r, h)
    \/ StopRecording

-----------------------------------------------------------------------------
(* Properties.                                                             *)

(* The type of every variable, and which pairs of them go together.        *)
TypeOK ==
    /\ rpc \in [Requests -> {"idle", "creds", "put", "stored", "accepted",
                             "rejected", "lost"}]
    /\ \A r \in Requests : r \in child => pid[r] # 0 /\ rpc[r] # "idle"
    /\ lines \in [Requests -> SUBSET Hours] /\ record \subseteq Requests
    /\ log \in [Requests -> SUBSET Hours] /\ urls \in [Requests -> SUBSET Hours]
    /\ missed \in [Requests -> SUBSET Hours]

(* The status of the agent lists every accepted recorder that runs ("List  *)
(* of active recording jobs on the Agent"), also after faults, restarts    *)
(* and signals meant for an earlier process. A request that was refused    *)
(* leaves no recorder behind.                                              *)
RunningIsListed ==
    \A r \in Requests : Running(r) =>
        rpc[r] # "rejected" /\ (rpc[r] = "accepted" => r \in record)

(* When the close handler deletes the record, every hour the recorder      *)
(* named in the log has its URL in S3, so that playback finds the whole    *)
(* recording from then on; but for an hour whose put has failed, and for   *)
(* all of them when the log could not be read: the record goes nonetheless *)
(* (agent.js:80-83, 115-121).                                              *)
UrlsBeforeForget ==
    \A r \in Requests : watch[r] = "done" => log[r] \subseteq urls[r] \cup missed[r]

(* A recorder with a duration is stopped ("automatically stopped using     *)
(* timeouts"), if the agent does not restart and lose its timer.           *)
AutoStop == \A r \in Requests :
    (rpc[r] = "accepted" /\ r \in Timed) ~> (~Running(r) \/ restarts > 0)
=============================================================================
