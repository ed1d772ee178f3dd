-------------------------- MODULE AgentPlaybacks ---------------------------
(***************************************************************************)
(* The playback jobs of the agent (src/recording-playback-api/agent.js):   *)
(* the POST handler, which spawns an hls-to-udp, replaces the playbacks of *)
(* the same job it finds in S3, records the new one and only then attaches *)
(* its timer and close handler; the timer; the close handler; the DELETE   *)
(* handler.                                                                *)
(*                                                                         *)
(* A POST, its player and its record, which has a key of its own and the   *)
(* pid of the player, share one name.                                      *)
(***************************************************************************)
EXTENDS AgentJobs

CONSTANTS
    Posts,       \* the POSTs of playbacks
    Stops,       \* the DELETEs of playbacks
    Jobs,        \* the jobIds
    NoJob

PlaybacksAssumption == Posts \subseteq Owners /\ NoJob \notin Jobs

VARIABLES
    serial,   \* whether callers wait for an answer before they name the
              \* same job again
    skipped,  \* history: a list that failed or passed over a record, or a
              \* delete that failed, made a request skip work (noted when
              \* callers wait)
    ppc,      \* program point of a POST
    job,      \* its jobId
    todo,     \* the records it has still to replace
    records,  \* the agent_playbacks/ objects in S3
    spc,      \* program point of a DELETE
    sjob,     \* its jobId
    stodo     \* the records it has still to remove

ghosts == <<serial, skipped>>
postVars == <<ppc, job, todo>>
stopVars == <<spc, sjob, stodo>>
playVars == <<ghosts, postVars, records, stopVars>>
vars == <<jobVars, playVars>>

Init ==
    /\ serial \in BOOLEAN /\ skipped = FALSE
    /\ ppc = [r \in Posts |-> "idle"] /\ job = [r \in Posts |-> NoJob]
    /\ todo = [r \in Posts |-> {}] /\ records = {}
    /\ spc = [s \in Stops |-> "idle"] /\ sjob = [s \in Stops |-> NoJob]
    /\ stodo = [s \in Stops |-> {}]

PostBusy(r) == ppc[r] \in {"playlist", "list", "replace", "put", "stored"}
StopBusy(s) == spc[s] \in {"list", "remove"}

(* A caller that waits has nothing under way for job j.                    *)
MayCall(j) ==
    serial => /\ \A r \in Posts : PostBusy(r) => job[r] # j
              /\ \A s \in Stops : StopBusy(s) => sjob[s] # j

(* What getS3DataWithKey finds for a job: a record that cannot be read is  *)
(* passed over.                                                            *)
BugRecordsOf(j) == {q \in records : job[q] = j /\ timer[q] # "none"}
RecordsOf(j) == {q \in records : job[q] = j}

Listing(j, found) ==
    /\ IF "item" \in Faults THEN found \subseteq RecordsOf(j) ELSE found = RecordsOf(j)
    /\ skipped' = (skipped \/ (serial /\ found # RecordsOf(j)))

(* process.kill(pid, 0): something runs under the pid of q.                *)
Alive(q) == holder[pid[q]] # NoOne

-----------------------------------------------------------------------------
(* POST /jobs/playbacks.                                                   *)

Post(r) ==
    /\ ppc[r] = "idle"
    /\ \E j \in Jobs : MayCall(j) /\ job' = [job EXCEPT ![r] = j]
    /\ ppc' = [ppc EXCEPT ![r] = "playlist"]
    /\ UNCHANGED <<jobVars, ghosts, todo, records, stopVars>>

(* The combined playlist is ready and the player spawned, or the request   *)
(* is answered with 400.                                                   *)
Spawn(r) ==
    /\ ppc[r] = "playlist"
    /\ \/ SpawnProcess(r) /\ ppc' = [ppc EXCEPT ![r] = "list"]
       \/ /\ "playlist" \in Faults
          /\ ppc' = [ppc EXCEPT ![r] = "rejected"] /\ UNCHANGED processVars
    /\ UNCHANGED <<watch, timer, restarts, ghosts, job, todo, records, stopVars>>

(* The playbacks of the job that S3 knows; a failing list skips the check. *)
ListExisting(r) ==
    /\ ppc[r] = "list"
    /\ \/ \E found \in SUBSET records :
            Listing(job[r], found) /\ todo' = [todo EXCEPT ![r] = found]
       \/ "list" \in Faults /\ UNCHANGED todo /\ skipped' = serial
    /\ ppc' = [ppc EXCEPT ![r] = "replace"]
    /\ UNCHANGED <<jobVars, serial, job, records, stopVars>>

(* What runs under the pid of one of them is killed ...                    *)
KillExisting(r) ==
    /\ ppc[r] = "replace"
    /\ \E q \in todo[r] : Alive(q) /\ Kill(q)
    /\ UNCHANGED <<pid, lastPid, child, watch, timer, restarts, playVars>>

(* ... and its record deleted; a failure abandons the others.              *)
DeleteExisting(r) ==
    /\ ppc[r] = "replace"
    /\ \E q \in todo[r] :
         /\ ~Alive(q)
         /\ \/ records' = records \ {q} /\ todo' = [todo EXCEPT ![r] = @ \ {q}]
               /\ UNCHANGED skipped
            \/ /\ "delete" \in Faults /\ skipped' = serial
               /\ UNCHANGED records /\ todo' = [todo EXCEPT ![r] = {}]
    /\ UNCHANGED <<jobVars, serial, ppc, job, stopVars>>

SendPut(r) ==
    /\ ppc[r] = "replace" /\ todo[r] = {}
    /\ ppc' = [ppc EXCEPT ![r] = "put"]
    /\ UNCHANGED <<jobVars, ghosts, job, todo, records, stopVars>>

PutLands(r) ==
    /\ ppc[r] = "put"
    /\ ppc' = [ppc EXCEPT ![r] = "stored"] /\ records' = records \cup {r}
    /\ UNCHANGED <<jobVars, ghosts, job, todo, stopVars>>

PutAnswered(r) ==
    /\ ppc[r] = "stored"
    /\ ppc' = [ppc EXCEPT ![r] = "accepted"]
    /\ timer' = Armed(r) /\ watch' = [watch EXCEPT ![r] = "attached"]
    /\ UNCHANGED <<processVars, restarts, ghosts, job, todo, records, stopVars>>

PutFailed(r) ==
    /\ ppc[r] \in {"put", "stored"} /\ "put" \in Faults
    /\ Kill(r) /\ ppc' = [ppc EXCEPT ![r] = "rejected"]
    /\ UNCHANGED <<pid, lastPid, child, watch, timer, restarts,
                   ghosts, job, todo, records, stopVars>>

-----------------------------------------------------------------------------
(* The timeout and the close handler: both send a signal to the player,    *)
(* which the close handler knows to be gone, and delete its own record. A  *)
(* close event without a handler is lost.                                  *)

DeleteRecord(r) ==
    \/ records' = records \ {r}
    \/ "delete" \in Faults /\ UNCHANGED records

TimerFire(r) == TimerFires(r) /\ UNCHANGED playVars

TimerDelete(r) ==
    /\ timer[r] = "delete"
    /\ DeleteRecord(r) /\ timer' = [timer EXCEPT ![r] = "fired"]
    /\ UNCHANGED <<processVars, watch, restarts, ghosts, postVars, stopVars>>

CloseEvent(r) ==
    /\ r \in child /\ ~Running(r)
    /\ child' = child \ {r}
    /\ IF watch[r] = "attached"
       THEN Kill(r) /\ watch' = [watch EXCEPT ![r] = "delete"]
       ELSE UNCHANGED <<holder, watch>>
    /\ UNCHANGED <<pid, lastPid, timer, restarts, playVars>>

CloseDelete(r) ==
    /\ watch[r] = "delete"
    /\ DeleteRecord(r) /\ watch' = [watch EXCEPT ![r] = "done"]
    /\ UNCHANGED <<processVars, timer, restarts, ghosts, postVars, stopVars>>

-----------------------------------------------------------------------------
(* DELETE /playbacks/:jobId.                                               *)

Stop(s) ==
    /\ spc[s] = "idle"
    /\ \E j \in Jobs : MayCall(j) /\ sjob' = [sjob EXCEPT ![s] = j]
    /\ spc' = [spc EXCEPT ![s] = "list"]
    /\ UNCHANGED <<jobVars, ghosts, postVars, records, stodo>>

(* 404 when the listing has no playback of the job, 500 when S3 does not   *)
(* answer.                                                                 *)
ListToStop(s) ==
    /\ spc[s] = "list"
    /\ \/ \E found \in SUBSET records :
            /\ Listing(sjob[s], found) /\ stodo' = [stodo EXCEPT ![s] = found]
            /\ spc' = [spc EXCEPT ![s] = IF found = {} THEN "not_found" ELSE "remove"]
       \/ "list" \in Faults /\ spc' = [spc EXCEPT ![s] = "failed"]
          /\ UNCHANGED <<skipped, stodo>>
    /\ UNCHANGED <<jobVars, serial, postVars, records, sjob>>

KillToStop(s) ==
    /\ spc[s] = "remove"
    /\ \E q \in stodo[s] : Alive(q) /\ Kill(q)
    /\ UNCHANGED <<pid, lastPid, child, watch, timer, restarts, playVars>>

(* The record is deleted. activeTimers is asked for item.data.id, a field  *)
(* the records do not have, so that no timer is cleared. A failure ends    *)
(* the request with 500.                                                   *)
DeleteToStop(s) ==
    /\ spc[s] = "remove"
    /\ \E q \in stodo[s] :
         /\ ~Alive(q)
         /\ \/ /\ records' = records \ {q}
               /\ stodo' = [stodo EXCEPT ![s] = @ \ {q}] /\ UNCHANGED spc
            \/ /\ "delete" \in Faults /\ UNCHANGED <<records, stodo>>
               /\ spc' = [spc EXCEPT ![s] = "failed"]
    /\ UNCHANGED <<jobVars, ghosts, postVars, sjob>>

BugStopped(s) == TRUE
Stopped(s) == stodo[s] = {}

(* 204.                                                                    *)
AnswerStop(s) ==
    /\ spc[s] = "remove" /\ Stopped(s)
    /\ spc' = [spc EXCEPT ![s] = "stopped"]
    /\ UNCHANGED <<jobVars, ghosts, postVars, records, sjob, stodo>>

-----------------------------------------------------------------------------
PlayerExits(r) == "player" \in Faults /\ Exit(r) /\ UNCHANGED playVars

(* A restart ends the requests.                                            *)
RequestsLost ==
    /\ ppc' = [r \in Posts |-> IF PostBusy(r) THEN "lost" ELSE ppc[r]]
    /\ spc' = [s \in Stops |-> IF StopBusy(s) THEN "lost" ELSE spc[s]]
    /\ todo' = [r \in Posts |-> {}] /\ stodo' = [s \in Stops |-> {}]
    /\ UNCHANGED <<ghosts, job, records, sjob>>

Handle(r) == Spawn(r) \/ ListExisting(r) \/ KillExisting(r) \/ DeleteExisting(r)
             \/ SendPut(r) \/ PutLands(r) \/ PutAnswered(r)
Events(r) == TimerDelete(r) \/ CloseEvent(r) \/ CloseDelete(r)
HandleStop(s) == ListToStop(s) \/ KillToStop(s) \/ DeleteToStop(s) \/ AnswerStop(s)

Next ==
    \/ \E r \in Posts : Post(r) \/ Handle(r) \/ PutFailed(r) \/ TimerFire(r)
                        \/ Events(r) \/ PlayerExits(r)
    \/ \E s \in Stops : Stop(s) \/ HandleStop(s)

-----------------------------------------------------------------------------
(* Properties.                                                             *)

(* The type of every variable.                                             *)
TypeOK ==
    /\ serial \in BOOLEAN /\ skipped \in BOOLEAN
    /\ ppc \in [Posts -> {"idle", "playlist", "list", "replace", "put",
                          "stored", "accepted", "rejected", "lost"}]
    /\ job \in [Posts -> Jobs \cup {NoJob}]
    /\ todo \in [Posts -> SUBSET Posts] /\ records \subseteq Posts
    /\ \A r \in records : pid[r] # 0
    /\ spc \in [Stops -> {"idle", "list", "remove", "stopped", "not_found",
                          "failed", "lost"}]
    /\ sjob \in [Stops -> Jobs \cup {NoJob}] /\ stodo \in [Stops -> SUBSET Posts]

RunningOf(j) == {r \in Posts : job[r] = j /\ Running(r)}
Idle(j) == \A r \in Posts : PostBusy(r) => job[r] # j

(* Callers that wait for their answers, an agent that has not restarted,   *)
(* no listing that failed or passed over a record, and no deletion that    *)
(* failed.                                                                 *)
Undisturbed == serial /\ ~skipped /\ restarts = 0

(* A job that no POST is working on plays at most once ("Check if the      *)
(* jobId is already playing back"): replacing works however the end of the *)
(* old player, its timer, its close handler and a DELETE interleave with   *)
(* it. (Callers that do not wait can start two.)                           *)
PlaysOnce ==
    Undisturbed => \A j \in Jobs : Idle(j) => Cardinality(RunningOf(j)) <= 1

(* A player of an accepted playback always has its record, so that the     *)
(* status shows it and a DELETE or the next POST of its job finds it: the  *)
(* record is never deleted before the kill, on none of the five paths.     *)
RunningIsListed ==
    \A r \in Posts : ppc[r] = "accepted" /\ Running(r) => r \in records

(* When a DELETE is answered with 204, or 404, no player of the job runs;  *)
(* but for callers that do not wait, restarts, and records that a listing  *)
(* missed: one it passes over keeps its player (S3Database.js:113-115).    *)
StopLeavesNone ==
    Undisturbed' => \A s \in Stops :
        spc[s] # spc'[s] /\ spc'[s] \in {"stopped", "not_found"}
          => \A r \in Posts : job[r] = sjob[s] => ~Running(r)'

(* What a POST takes for an existing playback and is about to kill is that *)
(* playback or nothing, and so is what a DELETE or a timer is about to     *)
(* kill (agent.js:782-785, "Check if the process is still running",        *)
(* "Process is still running, so kill it"). False: the record of a         *)
(* playback outlives the container, and its pid is given out again, to the *)
(* player of the POST itself, for instance.                                *)
SignalsReachTheirOwn ==
    LET targets == UNION {todo[r] : r \in Posts} \cup UNION {stodo[s] : s \in Stops}
                     \cup {r \in Posts : timer[r] = "armed"}
    IN  \A q \in targets : holder[pid[q]] \in {q, NoOne}
=============================================================================
