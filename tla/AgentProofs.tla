---------------------------- MODULE AgentProofs ----------------------------
(***************************************************************************)
(* For every number of recordings, playbacks, deletions, jobs, process ids *)
(* and restarts, and whatever fails: what runs is listed, the URLs of a    *)
(* recording are stored before its record goes, and callers that wait for  *)
(* their answers get one playback of a job and deletions that are          *)
(* complete.                                                               *)
(*                                                                         *)
(* A signal may reach a process it was not meant for, but no step makes a  *)
(* process run except the spawn of its owner, which comes once. What an    *)
(* owner has done (Recording, Player) is thus only strengthened by the     *)
(* steps of the others: a record is deleted after its process has ended.   *)
(* For the playbacks of a job, the invariant follows the one call that is  *)
(* under way (OneCall): what runs beside it is what it has still to kill   *)
(* (JobSettled).                                                           *)
(***************************************************************************)
EXTENDS Agent, FiniteSetTheorems, TLAPS

(* What is known of a recording and its recorder.                          *)
Recording(r) ==
    /\ rpc[r] \in {"idle", "creds"} => pid[r] = 0
    /\ timer[r] # "none" \/ watch[r] # "none" => rpc[r] = "accepted"
    /\ Running(r) => /\ timer[r] \notin {"delete", "fired"}
                     /\ watch[r] \notin {"delete", "done"}
                     /\ rpc[r] # "rejected"
    /\ rpc[r] \in {"stored", "accepted"} /\ Running(r) => r \in record
    /\ watch[r] = "delete" => log[r] \subseteq lines[r] \cup urls[r] \cup missed[r]
    /\ watch[r] = "done" => log[r] \subseteq urls[r] \cup missed[r]

(* What is known of a playback and its player.                             *)
Player(r) ==
    /\ ppc[r] \in {"idle", "playlist"} => pid[r] = 0
    /\ ppc[r] \in {"list", "replace", "put", "stored", "accepted"} => pid[r] # 0
    /\ timer[r] # "none" \/ watch[r] # "none" => ppc[r] = "accepted"
    /\ Running(r) => /\ timer[r] \notin {"delete", "fired"}
                     /\ watch[r] \notin {"delete", "done"}
                     /\ ppc[r] # "rejected"
    /\ ppc[r] \in {"stored", "accepted"} /\ Running(r) => r \in records
    /\ ppc[r] = "lost" => restarts # 0

(* A caller that waits has one call of a job under way.                    *)
OneCall ==
    /\ \A r, q \in Posts :
         Play!PostBusy(r) /\ Play!PostBusy(q) /\ job[r] = job[q] => r = q
    /\ \A r \in Posts, s \in Stops :
         Play!PostBusy(r) /\ Play!StopBusy(s) => job[r] # sjob[s]

(* Nothing runs for a job twice while no POST of it is under way, or has   *)
(* spawned; then, what runs beside its player is what it has to replace,   *)
(* and what runs during a DELETE is what that has to stop.                 *)
AtMostOne(j) == \A q1, q2 \in Play!RunningOf(j) : q1 = q2

JobSettled ==
    /\ \A j \in Jobs : Play!Idle(j) => AtMostOne(j)
    /\ \A r \in Posts :
         /\ ppc[r] = "playlist" => AtMostOne(job[r])
         /\ ppc[r] = "replace" => Play!RunningOf(job[r]) \subseteq todo[r] \cup {r}
         /\ ppc[r] \in {"put", "stored"} => Play!RunningOf(job[r]) \subseteq {r}
    /\ \A s \in Stops :
         spc[s] = "remove" => Play!RunningOf(sjob[s]) \subseteq stodo[s]

IInv ==
    /\ TypeOK
    /\ \A r \in Requests : Recording(r)
    /\ \A r \in Posts : Player(r)
    /\ serial => OneCall
    /\ Play!Undisturbed => JobSettled

-----------------------------------------------------------------------------
(* The processes.                                                          *)

(* One definition in three modules.                                        *)
LEMMA SameRunning ==
    ASSUME NEW r
    PROVE  /\ Rec!Running(r) = Running(r) /\ Play!Running(r) = Running(r)
           /\ Rec!Running(r)' = Running(r)' /\ Play!Running(r)' = Running(r)'
  BY DEF Running, Rec!Running, Play!Running

(* A signal makes nothing run, and its owner's process does not survive.   *)
LEMMA Killed ==
    ASSUME JobsTypeOK, NEW o \in Owners, Kill(o), pid' = pid
    PROVE  /\ holder' \in [1..MaxPid -> Owners \cup {NoOne}]
           /\ \A q \in Owners : Running(q)' => Running(q)
           /\ ~Running(o)'
  <1> USE JobsAssumption DEF JobsTypeOK, Kill
  <1>1. holder' \in [1..MaxPid -> Owners \cup {NoOne}]
    OBVIOUS
  <1>2. \A q \in Owners : Running(q)' => Running(q)
    BY DEF Running
  <1>3. ~Running(o)'
    BY DEF Running
  <1>4. QED BY <1>1, <1>2, <1>3

(* The spawn of an owner makes no other process run.                       *)
LEMMA Spawned ==
    ASSUME JobsTypeOK, NEW o \in Owners, SpawnProcess(o)
    PROVE  /\ child' = child \cup {o}
           /\ pid' \in [Owners -> 0..MaxPid] /\ pid'[o] # 0
           /\ holder' \in [1..MaxPid -> Owners \cup {NoOne}]
           /\ lastPid' \in 0..MaxPid
           /\ \A q \in Owners \ {o} : pid'[q] = pid[q] /\ (Running(q)' => Running(q))
  <1> USE JobsAssumption DEF JobsTypeOK
  <1>1. PICK p \in 1..MaxPid :
          /\ pid' = [pid EXCEPT ![o] = p]
          /\ holder' = [holder EXCEPT ![p] = o]
          /\ lastPid' = IF p > lastPid THEN p ELSE lastPid
          /\ child' = child \cup {o}
    BY DEF SpawnProcess, FreePids
  <1>2. \A q \in Owners \ {o} : pid'[q] = pid[q] /\ (Running(q)' => Running(q))
    BY <1>1 DEF Running
  <1>3. QED BY <1>1, <1>2

(* A step of owner o leaves what belongs to the others alone, except that  *)
(* it may end their processes.                                             *)
LeavesOthers(o) ==
    /\ JobsTypeOK' /\ restarts' = restarts
    /\ \A q \in Owners \ {o} :
         /\ pid'[q] = pid[q] /\ watch'[q] = watch[q] /\ timer'[q] = timer[q]
         /\ Running(q)' => Running(q)
         /\ q \in child' => q \in child

-----------------------------------------------------------------------------
(* The steps of a recording.                                               *)

LEMMA RecordLeaves ==
    ASSUME TypeOK, NEW r \in Requests, Record(r)
    PROVE  LeavesOthers(r)
  <1>0. r \in Owners /\ JobsTypeOK
    BY AgentAssumption DEF TypeOK
  <1> USE <1>0 DEF LeavesOthers
  <1>1. CASE UNCHANGED jobVars
    BY <1>1 DEF jobVars, processVars, JobsTypeOK, Running
  <1>2. CASE Rec!Spawn(r)
    <2>1. CASE SpawnProcess(r)
      <3>1. UNCHANGED <<watch, timer, restarts>>
        BY <1>2 DEF Rec!Spawn
      <3>2. JobsTypeOK'
        BY <2>1, <3>1, Spawned DEF JobsTypeOK
      <3>3. QED BY <2>1, <3>1, <3>2, Spawned
    <2>2. CASE UNCHANGED jobVars
      BY <1>1, <2>2
    <2>3. QED BY <1>2, <2>1, <2>2
      DEF Rec!Spawn, Rec!SpawnProcess, Rec!FreePids, SpawnProcess, FreePids,
          jobVars, processVars, Rec!processVars
  <1>3. CASE Rec!PutAnswered(r)
    BY <1>3 DEF Rec!PutAnswered, Rec!Armed, Rec!processVars, JobsTypeOK, Running
  <1>4. CASE Rec!PutFailed(r)
    <2>1. Kill(r) /\ UNCHANGED <<pid, lastPid, child, watch, timer, restarts>>
      BY <1>4 DEF Rec!PutFailed, Rec!Kill, Kill
    <2>2. QED BY <2>1, Killed DEF JobsTypeOK
  <1>5. CASE Rec!TimerFire(r)
    <2>1. /\ Kill(r) /\ timer' = [timer EXCEPT ![r] = "delete"]
          /\ UNCHANGED <<pid, lastPid, child, watch, restarts>>
      BY <1>5 DEF Rec!TimerFire, Rec!TimerFires, Rec!Kill, Kill
    <2>2. QED BY <2>1, Killed DEF JobsTypeOK
  <1>6. CASE Rec!TimerDelete(r)
    BY <1>6 DEF Rec!TimerDelete, Rec!processVars, JobsTypeOK, Running
  <1>7. CASE Rec!CloseEvent(r)
    BY <1>7 DEF Rec!CloseEvent, JobsTypeOK, Running
  <1>8. CASE Rec!ForgetEnded(r)
    BY <1>8 DEF Rec!ForgetEnded, Rec!processVars, JobsTypeOK, Running
  <1>9. CASE Rec!RecorderExits(r)
    <2>1. Kill(r) /\ UNCHANGED <<pid, lastPid, child, watch, timer, restarts>>
      BY <1>9 DEF Rec!RecorderExits, Rec!Exit, Kill
    <2>2. QED BY <2>1, Killed DEF JobsTypeOK
  <1>10. CASE Rec!Post(r) \/ Rec!PutLands(r) \/ Rec!StoreUrl(r)
              \/ \E h \in Hours : Rec!PublishHour(r, h)
    BY <1>1, <1>10 DEF Rec!Post, Rec!PutLands, Rec!StoreUrl, Rec!PublishHour,
                       Rec!jobVars, Rec!processVars, jobVars, processVars
  <1>11. QED
    BY <1>2, <1>3, <1>4, <1>5, <1>6, <1>7, <1>8, <1>9, <1>10
    DEF Record, Rec!Handle

(* What belongs to a recording is touched by its own steps only.           *)
LEMMA RecordFrame ==
    ASSUME TypeOK, NEW r \in Requests, Record(r)
    PROVE  \A q \in Requests \ {r} :
             /\ rpc'[q] = rpc[q] /\ lines'[q] = lines[q] /\ log'[q] = log[q]
             /\ urls'[q] = urls[q] /\ missed'[q] = missed[q]
             /\ q \in record <=> q \in record'
  <1> USE DEF TypeOK, Rec!TypeOK, Rec!s3Vars, Rec!recVars
  <1>1. CASE Rec!Post(r)
    BY <1>1 DEF Rec!Post
  <1>2. CASE Rec!Spawn(r)
    BY <1>2 DEF Rec!Spawn
  <1>3. CASE Rec!PutAnswered(r)
    BY <1>3 DEF Rec!PutAnswered
  <1>4. CASE Rec!PutFailed(r)
    BY <1>4 DEF Rec!PutFailed
  <1>5. CASE Rec!TimerFire(r) \/ Rec!RecorderExits(r)
    BY <1>5 DEF Rec!TimerFire, Rec!RecorderExits
  <1>6. CASE Rec!TimerDelete(r)
    BY <1>6 DEF Rec!TimerDelete, Rec!DeleteRecord
  <1>7. CASE Rec!CloseEvent(r)
    BY <1>7 DEF Rec!CloseEvent, Rec!ReadLog
  <1>8. CASE Rec!ForgetEnded(r)
    BY <1>8 DEF Rec!ForgetEnded, Rec!DeleteRecord
  <1>9. CASE Rec!StoreUrl(r)
    BY <1>9 DEF Rec!StoreUrl
  <1>10. CASE Rec!PutLands(r)
    BY <1>10 DEF Rec!PutLands
  <1>11. CASE \E h \in Hours : Rec!PublishHour(r, h)
    BY <1>11 DEF Rec!PublishHour
  <1>12. QED
    BY <1>1, <1>2, <1>3, <1>4, <1>5, <1>6, <1>7, <1>8, <1>9, <1>10, <1>11
    DEF Record, Rec!Handle

LEMMA RecordTypes ==
    ASSUME TypeOK, NEW r \in Requests, Record(r), Recording(r)
    PROVE  Rec!TypeOK'
  <1>0. r \in Owners /\ JobsTypeOK
    BY AgentAssumption DEF TypeOK
  <1> USE DEF TypeOK, Rec!TypeOK, Rec!s3Vars, Rec!recVars, Rec!jobVars, Rec!processVars
  <1>1. CASE Rec!Post(r)
    BY <1>1 DEF Rec!Post
  <1>2. CASE Rec!Spawn(r)
    <2>1. CASE SpawnProcess(r)
      <3>1. UNCHANGED <<lines, record, urls, missed, log>>
            /\ rpc' = [rpc EXCEPT ![r] = "put"]
        BY <1>2, <2>1, <1>0, Spawned DEF Rec!Spawn, Recording
      <3>2. /\ child' = child \cup {r} /\ pid'[r] # 0
            /\ \A q \in Requests \ {r} : pid'[q] = pid[q]
        BY <1>0, <2>1, Spawned, AgentAssumption
      <3>3. QED BY <3>1, <3>2
    <2>2. CASE UNCHANGED <<pid, child>>
      BY <1>2, <2>2 DEF Rec!Spawn
    <2>3. QED BY <1>2, <2>1, <2>2
      DEF Rec!Spawn, Rec!SpawnProcess, Rec!FreePids, SpawnProcess, FreePids
  <1>3. CASE Rec!PutAnswered(r)
    BY <1>3 DEF Rec!PutAnswered
  <1>4. CASE Rec!PutFailed(r)
    BY <1>4 DEF Rec!PutFailed
  <1>5. CASE Rec!TimerFire(r) \/ Rec!RecorderExits(r)
    BY <1>5 DEF Rec!TimerFire, Rec!TimerFires, Rec!RecorderExits, Rec!Exit
  <1>6. CASE Rec!TimerDelete(r)
    BY <1>6 DEF Rec!TimerDelete, Rec!DeleteRecord
  <1>7. CASE Rec!CloseEvent(r)
    BY <1>7 DEF Rec!CloseEvent, Rec!ReadLog
  <1>8. CASE Rec!ForgetEnded(r)
    BY <1>8 DEF Rec!ForgetEnded, Rec!DeleteRecord
  <1>9. CASE Rec!StoreUrl(r)
    BY <1>9 DEF Rec!StoreUrl
  <1>10. CASE Rec!PutLands(r)
    BY <1>10 DEF Rec!PutLands
  <1>11. CASE \E h \in Hours : Rec!PublishHour(r, h)
    BY <1>11 DEF Rec!PublishHour
  <1>12. QED
    BY <1>1, <1>2, <1>3, <1>4, <1>5, <1>6, <1>7, <1>8, <1>9, <1>10, <1>11
    DEF Record, Rec!Handle

LEMMA RecordOwn ==
    ASSUME TypeOK, NEW r \in Requests, Record(r), Recording(r)
    PROVE  Recording(r)'
  <1>0. r \in Owners /\ JobsTypeOK
    BY AgentAssumption DEF TypeOK
  <1> USE <1>0 DEF TypeOK, Rec!TypeOK, Rec!s3Vars, Rec!recVars, Rec!jobVars,
                   Rec!processVars, Recording
  <1>1. CASE Rec!Post(r)
    BY <1>1 DEF Rec!Post, Running
  <1>2. CASE Rec!Spawn(r)
    <2>1. CASE SpawnProcess(r)
      <3>1. rpc'[r] = "put" /\ UNCHANGED <<timer, watch>>
        BY <1>2, <2>1, Spawned DEF Rec!Spawn
      <3>2. timer[r] = "none" /\ watch[r] = "none"
        BY <1>2 DEF Rec!Spawn, JobsTypeOK
      <3>3. QED BY <3>1, <3>2
    <2>2. CASE UNCHANGED processVars
      BY <1>2, <2>2 DEF Rec!Spawn, processVars, Running, JobsTypeOK
    <2>3. QED BY <1>2, <2>1, <2>2
      DEF Rec!Spawn, Rec!SpawnProcess, Rec!FreePids, SpawnProcess, FreePids, processVars
  <1>3. CASE Rec!PutAnswered(r)
    BY <1>3 DEF Rec!PutAnswered, Rec!Armed, Running, JobsTypeOK
  <1>4. CASE Rec!PutFailed(r)
    <2>1. Kill(r) /\ UNCHANGED <<pid, lastPid, child, watch, timer, restarts>>
      BY <1>4 DEF Rec!PutFailed, Rec!Kill, Kill
    <2>2. QED BY <1>4, <2>1, Killed DEF Rec!PutFailed
  <1>5. CASE Rec!TimerFire(r)
    <2>1. /\ Kill(r) /\ timer' = [timer EXCEPT ![r] = "delete"] /\ timer[r] = "armed"
          /\ UNCHANGED <<pid, lastPid, child, watch, restarts>>
      BY <1>5 DEF Rec!TimerFire, Rec!TimerFires, Rec!Kill, Kill
    <2>2. QED BY <1>5, <2>1, Killed DEF Rec!TimerFire, JobsTypeOK
  <1>6. CASE Rec!TimerDelete(r)
    <2>1. Running(r)' => Running(r)
      BY <1>6 DEF Rec!TimerDelete, Running
    <2>2. /\ timer[r] = "delete" /\ timer'[r] = "fired"
          /\ UNCHANGED <<pid, watch, rpc, lines, urls, missed, log>>
      BY <1>6 DEF Rec!TimerDelete, JobsTypeOK
    <2>3. QED BY <2>1, <2>2
  <1>7. CASE Rec!CloseEvent(r)
    BY <1>7 DEF Rec!CloseEvent, Rec!ReadLog, Running, Rec!Running, JobsTypeOK
  <1>8. CASE Rec!ForgetEnded(r)
    <2>1. Running(r)' => Running(r)
      BY <1>8 DEF Rec!ForgetEnded, Running
    <2>2. /\ watch[r] = "delete" /\ watch'[r] = "done" /\ lines[r] = {}
          /\ UNCHANGED <<pid, timer, rpc, lines, urls, missed, log>>
      BY <1>8 DEF Rec!ForgetEnded, Rec!UrlsDone, JobsTypeOK
    <2>3. QED BY <2>1, <2>2
  <1>9. CASE Rec!StoreUrl(r)
    BY <1>9 DEF Rec!StoreUrl, Running
  <1>10. CASE Rec!PutLands(r)
    BY <1>10 DEF Rec!PutLands, Running
  <1>11. CASE \E h \in Hours : Rec!PublishHour(r, h)
    <2>1. Running(r)
      BY <1>11 DEF Rec!PublishHour, Running, Rec!Running
    <2>2. UNCHANGED <<pid, timer, watch, rpc, record>>
      BY <1>11 DEF Rec!PublishHour
    <2>3. ~(watch[r] = "delete") /\ ~(watch[r] = "done")
      BY <2>1
    <2>4. QED BY <2>1, <2>2, <2>3
  <1>12. CASE Rec!RecorderExits(r)
    <2>1. Kill(r) /\ UNCHANGED <<pid, lastPid, child, watch, timer, restarts>>
      BY <1>12 DEF Rec!RecorderExits, Rec!Exit, Kill
    <2>2. QED BY <1>12, <2>1, Killed DEF Rec!RecorderExits
  <1>13. QED
    BY <1>1, <1>2, <1>3, <1>4, <1>5, <1>6, <1>7, <1>8, <1>9, <1>10, <1>11, <1>12
    DEF Record, Rec!Handle

(* Nothing that others do weakens what is known of a recording.            *)
LEMMA RecordingKept ==
    ASSUME NEW q \in Requests, Recording(q),
           pid'[q] = pid[q], watch'[q] = watch[q], timer'[q] = timer[q],
           Running(q)' => Running(q),
           rpc'[q] = rpc[q], lines'[q] = lines[q], log'[q] = log[q],
           urls'[q] = urls[q], missed'[q] = missed[q],
           q \in record => q \in record'
    PROVE  Recording(q)'
  BY DEF Recording

-----------------------------------------------------------------------------
(* The steps of a playback.                                                *)

LEMMA PlaybackLeaves ==
    ASSUME TypeOK, NEW r \in Posts, Playback(r)
    PROVE  LeavesOthers(r)
  <1>0. r \in Owners /\ Posts \subseteq Owners /\ JobsTypeOK
    BY AgentAssumption DEF TypeOK
  <1> USE <1>0 DEF LeavesOthers
  <1>1. CASE UNCHANGED jobVars
    BY <1>1 DEF jobVars, processVars, JobsTypeOK, Running
  <1>2. CASE Play!Spawn(r)
    <2>1. CASE SpawnProcess(r)
      <3>1. UNCHANGED <<watch, timer, restarts>>
        BY <1>2 DEF Play!Spawn
      <3>2. JobsTypeOK'
        BY <2>1, <3>1, Spawned DEF JobsTypeOK
      <3>3. QED BY <2>1, <3>1, <3>2, Spawned
    <2>2. CASE UNCHANGED jobVars
      BY <1>1, <2>2
    <2>3. QED BY <1>2, <2>1, <2>2
      DEF Play!Spawn, Play!SpawnProcess, Play!FreePids, SpawnProcess, FreePids,
          jobVars, processVars, Play!processVars
  <1>3. CASE \E o \in Owners :
               Kill(o) /\ UNCHANGED <<pid, lastPid, child, watch, timer, restarts>>
    BY <1>3, Killed DEF JobsTypeOK
  <1>4. CASE Play!KillExisting(r)
    <2>1. todo[r] \subseteq Owners
      BY DEF TypeOK, Play!TypeOK
    <2>2. QED BY <1>3, <1>4, <2>1 DEF Play!KillExisting, Play!Kill, Kill
  <1>5. CASE Play!PutFailed(r) \/ Play!PlayerExits(r)
    BY <1>3, <1>5 DEF Play!PutFailed, Play!PlayerExits, Play!Exit, Play!Kill, Kill
  <1>6. CASE Play!PutAnswered(r)
    BY <1>6 DEF Play!PutAnswered, Play!Armed, Play!processVars, JobsTypeOK, Running
  <1>7. CASE Play!TimerFire(r)
    <2>1. /\ Kill(r) /\ timer' = [timer EXCEPT ![r] = "delete"]
          /\ UNCHANGED <<pid, lastPid, child, watch, restarts>>
      BY <1>7 DEF Play!TimerFire, Play!TimerFires, Play!Kill, Kill
    <2>2. QED BY <2>1, Killed DEF JobsTypeOK
  <1>8. CASE Play!TimerDelete(r)
    BY <1>8 DEF Play!TimerDelete, Play!processVars, JobsTypeOK, Running
  <1>9. CASE Play!CloseEvent(r)
    <2>1. /\ child' = child \ {r} /\ UNCHANGED <<pid, lastPid, timer, restarts>>
          /\ \/ Kill(r) /\ watch' = [watch EXCEPT ![r] = "delete"]
             \/ UNCHANGED <<holder, watch>>
      BY <1>9 DEF Play!CloseEvent, Play!Kill, Kill
    <2>2. CASE Kill(r) /\ watch' = [watch EXCEPT ![r] = "delete"]
      BY <2>1, <2>2, Killed DEF JobsTypeOK
    <2>3. CASE UNCHANGED <<holder, watch>>
      BY <2>1, <2>3 DEF JobsTypeOK, Running
    <2>4. QED BY <2>1, <2>2, <2>3
  <1>10. CASE Play!CloseDelete(r)
    BY <1>10 DEF Play!CloseDelete, Play!processVars, JobsTypeOK, Running
  <1>11. CASE \/ Play!Post(r) \/ Play!ListExisting(r) \/ Play!DeleteExisting(r)
              \/ Play!SendPut(r) \/ Play!PutLands(r)
    BY <1>1, <1>11 DEF Play!Post, Play!ListExisting, Play!DeleteExisting, Play!SendPut,
                       Play!PutLands, Play!jobVars, Play!processVars, jobVars, processVars
  <1>12. QED
    BY <1>2, <1>4, <1>5, <1>6, <1>7, <1>8, <1>9, <1>10, <1>11
    DEF Playback, Play!Handle, Play!Events

LEMMA StopLeaves ==
    ASSUME TypeOK, NEW s \in Stops, StopPlayback(s)
    PROVE  LeavesOthers(NoOne)
  <1>0. Posts \subseteq Owners /\ JobsTypeOK /\ NoOne \notin Owners
    BY AgentAssumption, JobsAssumption DEF TypeOK
  <1> USE <1>0 DEF LeavesOthers
  <1>1. CASE UNCHANGED jobVars
    BY <1>1 DEF jobVars, processVars, JobsTypeOK, Running
  <1>2. CASE Play!KillToStop(s)
    <2>1. stodo[s] \subseteq Owners
      BY DEF TypeOK, Play!TypeOK
    <2>2. PICK o \in Owners : Kill(o)
      BY <1>2, <2>1 DEF Play!KillToStop, Play!Kill, Kill
    <2>3. UNCHANGED <<pid, lastPid, child, watch, timer, restarts>>
      BY <1>2 DEF Play!KillToStop
    <2>4. QED BY <2>2, <2>3, Killed DEF JobsTypeOK
  <1>3. CASE Play!Stop(s) \/ Play!ListToStop(s) \/ Play!DeleteToStop(s) \/ Play!AnswerStop(s)
    BY <1>1, <1>3 DEF Play!Stop, Play!ListToStop, Play!DeleteToStop, Play!AnswerStop,
                      Play!jobVars, Play!processVars, jobVars, processVars
  <1>4. QED BY <1>2, <1>3 DEF StopPlayback, Play!HandleStop

(* A record goes when its player has ended.                                *)
RecordsKept == \A q \in Posts : q \in records /\ Running(q) => q \in records'

(* A listing has records of the job; where nothing was passed over, all.   *)
LEMMA Listed ==
    ASSUME TypeOK, NEW j, NEW found, Play!Listing(j, found)
    PROVE  /\ found \subseteq Play!RecordsOf(j) /\ skipped' \in BOOLEAN
           /\ skipped' = skipped \/ skipped' = serial
           /\ ~skipped' /\ serial => found = Play!RecordsOf(j)
  <1>1. serial \in BOOLEAN /\ skipped \in BOOLEAN
    BY DEF TypeOK, Play!TypeOK
  <1>2. skipped' = (skipped \/ (serial /\ found # Play!RecordsOf(j)))
    BY DEF Play!Listing
  <1>3. found \subseteq Play!RecordsOf(j)
    BY DEF Play!Listing
  <1>4. skipped' \in BOOLEAN /\ (skipped' = skipped \/ skipped' = serial)
    BY <1>1, <1>2
  <1>5. ~skipped' /\ serial => found = Play!RecordsOf(j)
    BY <1>2
  <1> QED BY <1>3, <1>4, <1>5

LEMMA PlaybackFrame ==
    ASSUME TypeOK, NEW r \in Posts, Playback(r), Player(r)
    PROVE  /\ UNCHANGED <<serial, spc, sjob, stodo>> /\ RecordsKept
           /\ \A q \in Posts \ {r} :
                ppc'[q] = ppc[q] /\ job'[q] = job[q] /\ todo'[q] = todo[q]
           /\ records' \subseteq records \cup {r}
           /\ skipped' = skipped \/ skipped' = serial
  <1> USE DEF TypeOK, Play!TypeOK, Play!ghosts, Play!postVars, Play!stopVars,
              Play!playVars, RecordsKept
  <1>0. NoOne \notin Posts
    BY AgentAssumption, JobsAssumption
  <1>1. CASE Play!Post(r)
    BY <1>1 DEF Play!Post
  <1>2. CASE Play!Spawn(r)
    BY <1>2 DEF Play!Spawn
  <1>3. CASE Play!ListExisting(r)
    <2>1. skipped' = skipped \/ skipped' = serial
      BY <1>3, Listed DEF Play!ListExisting
    <2> QED BY <1>3, <2>1 DEF Play!ListExisting
  <1>4. CASE Play!KillExisting(r) \/ Play!TimerFire(r) \/ Play!PlayerExits(r)
    BY <1>4 DEF Play!KillExisting, Play!TimerFire, Play!PlayerExits
  <1>5. CASE Play!DeleteExisting(r)
    BY <1>0, <1>5 DEF Play!DeleteExisting, Play!Alive, Running
  <1>6. CASE Play!SendPut(r)
    BY <1>6 DEF Play!SendPut
  <1>7. CASE Play!PutLands(r)
    BY <1>7 DEF Play!PutLands
  <1>8. CASE Play!PutAnswered(r)
    BY <1>8 DEF Play!PutAnswered
  <1>9. CASE Play!PutFailed(r)
    BY <1>9 DEF Play!PutFailed
  <1>10. CASE Play!CloseEvent(r)
    BY <1>10 DEF Play!CloseEvent
  <1>11. CASE Play!TimerDelete(r)
    BY <1>11 DEF Play!TimerDelete, Play!DeleteRecord, Player
  <1>12. CASE Play!CloseDelete(r)
    BY <1>12 DEF Play!CloseDelete, Play!DeleteRecord, Player
  <1>13. QED
    BY <1>1, <1>2, <1>3, <1>4, <1>5, <1>6, <1>7, <1>8, <1>9, <1>10, <1>11, <1>12
    DEF Playback, Play!Handle, Play!Events

LEMMA StopFrame ==
    ASSUME TypeOK, NEW s \in Stops, StopPlayback(s)
    PROVE  /\ UNCHANGED <<serial, ppc, job, todo>> /\ RecordsKept
           /\ skipped' = skipped \/ skipped' = serial
           /\ records' \subseteq records
           /\ \A u \in Stops \ {s} :
                spc'[u] = spc[u] /\ sjob'[u] = sjob[u] /\ stodo'[u] = stodo[u]
  <1> USE DEF TypeOK, Play!TypeOK, Play!ghosts, Play!postVars, Play!playVars, RecordsKept
  <1>0. NoOne \notin Posts
    BY AgentAssumption, JobsAssumption
  <1>1. CASE Play!Stop(s)
    BY <1>1 DEF Play!Stop
  <1>2. CASE Play!ListToStop(s)
    <2>1. skipped' = skipped \/ skipped' = serial
      BY <1>2, Listed DEF Play!ListToStop
    <2> QED BY <1>2, <2>1 DEF Play!ListToStop
  <1>3. CASE Play!KillToStop(s)
    BY <1>3 DEF Play!KillToStop, Play!stopVars
  <1>4. CASE Play!DeleteToStop(s)
    BY <1>0, <1>4 DEF Play!DeleteToStop, Play!Alive, Running
  <1>5. CASE Play!AnswerStop(s)
    BY <1>5 DEF Play!AnswerStop
  <1>6. QED BY <1>1, <1>2, <1>3, <1>4, <1>5 DEF StopPlayback, Play!HandleStop

LEMMA PlaybackTypes ==
    ASSUME TypeOK, NEW r \in Posts, Playback(r), Player(r)
    PROVE  Play!TypeOK'
  <1>0. pid \in [Owners -> 0..MaxPid] /\ r \in Owners /\ Posts \subseteq Owners
    BY AgentAssumption DEF TypeOK, JobsTypeOK
  <1>1. /\ \A q \in Posts : q # r => pid'[q] = pid[q]
        /\ pid[r] # 0 => pid'[r] = pid[r]
    <2>1. \A q \in Posts : q # r => pid'[q] = pid[q]
      BY <1>0, PlaybackLeaves DEF LeavesOthers
    <2>2. pid' = pid \/ Play!Spawn(r)
      BY DEF Playback, Play!Handle, Play!Events, Play!Post, Play!ListExisting,
             Play!KillExisting, Play!DeleteExisting, Play!SendPut, Play!PutLands,
             Play!PutAnswered, Play!PutFailed, Play!TimerFire, Play!TimerFires,
             Play!TimerDelete, Play!CloseEvent, Play!CloseDelete, Play!PlayerExits,
             Play!Exit, Play!jobVars, Play!processVars
    <2>3. Play!Spawn(r) => pid[r] = 0
      BY DEF Play!Spawn, Player
    <2>4. QED BY <2>1, <2>2, <2>3
  <1>2. \A q \in records : pid'[q] # 0
    BY <1>1 DEF TypeOK, Play!TypeOK
  <1> USE DEF TypeOK, Play!TypeOK, Play!ghosts, Play!postVars, Play!stopVars,
              Play!playVars
  <1>3. /\ serial' \in BOOLEAN /\ skipped' \in BOOLEAN
        /\ spc' = spc /\ sjob' = sjob /\ stodo' = stodo
    BY PlaybackFrame
  <1>4. /\ ppc' \in [Posts -> {"idle", "playlist", "list", "replace", "put",
                               "stored", "accepted", "rejected", "lost"}]
        /\ job' \in [Posts -> Jobs \cup {NoJob}]
        /\ todo' \in [Posts -> SUBSET Posts]
        /\ records' \subseteq records \/ Play!PutLands(r)
    <2>1. CASE Play!Post(r)
      BY <2>1 DEF Play!Post
    <2>2. CASE Play!Spawn(r)
      BY <2>2 DEF Play!Spawn
    <2>3. CASE Play!ListExisting(r)
      BY <2>3 DEF Play!ListExisting, Play!RecordsOf
    <2>4. CASE Play!KillExisting(r) \/ Play!TimerFire(r) \/ Play!PlayerExits(r)
      BY <2>4 DEF Play!KillExisting, Play!TimerFire, Play!PlayerExits
    <2>5. CASE Play!DeleteExisting(r)
      BY <2>5 DEF Play!DeleteExisting
    <2>6. CASE Play!SendPut(r)
      BY <2>6 DEF Play!SendPut
    <2>7. CASE Play!PutLands(r)
      BY <2>7 DEF Play!PutLands
    <2>8. CASE Play!PutAnswered(r)
      BY <2>8 DEF Play!PutAnswered
    <2>9. CASE Play!PutFailed(r)
      BY <2>9 DEF Play!PutFailed
    <2>10. CASE Play!CloseEvent(r)
      BY <2>10 DEF Play!CloseEvent
    <2>11. CASE Play!TimerDelete(r) \/ Play!CloseDelete(r)
      BY <2>11 DEF Play!TimerDelete, Play!CloseDelete, Play!DeleteRecord
    <2>12. QED
      BY <2>1, <2>2, <2>3, <2>4, <2>5, <2>6, <2>7, <2>8, <2>9, <2>10, <2>11
      DEF Playback, Play!Handle, Play!Events
  <1>5. records' \subseteq Posts /\ \A q \in records' : pid'[q] # 0
    <2>1. CASE records' \subseteq records
      BY <1>2, <2>1
    <2>2. CASE Play!PutLands(r)
      BY <1>1, <1>2, <2>2 DEF Play!PutLands, Player
    <2>3. QED BY <1>4, <2>1, <2>2
  <1>6. QED BY <1>3, <1>4, <1>5

LEMMA StopTypes ==
    ASSUME TypeOK, NEW s \in Stops, StopPlayback(s)
    PROVE  Play!TypeOK'
  <1> USE DEF TypeOK, Play!TypeOK, Play!ghosts, Play!postVars, Play!playVars,
              Play!jobVars, Play!processVars
  <1>1. CASE Play!Stop(s)
    BY <1>1 DEF Play!Stop
  <1>2. CASE Play!ListToStop(s)
    <2>1. skipped' \in BOOLEAN
      BY <1>2, Listed DEF Play!ListToStop
    <2> QED BY <1>2, <2>1 DEF Play!ListToStop, Play!RecordsOf
  <1>3. CASE Play!KillToStop(s)
    BY <1>3 DEF Play!KillToStop, Play!stopVars
  <1>4. CASE Play!DeleteToStop(s)
    BY <1>4 DEF Play!DeleteToStop
  <1>5. CASE Play!AnswerStop(s)
    BY <1>5 DEF Play!AnswerStop
  <1>6. QED BY <1>1, <1>2, <1>3, <1>4, <1>5 DEF StopPlayback, Play!HandleStop

LEMMA PlaybackOwn ==
    ASSUME TypeOK, NEW r \in Posts, Playback(r), Player(r)
    PROVE  Player(r)'
  <1>0. r \in Owners /\ JobsTypeOK /\ restarts' = restarts
    BY AgentAssumption, PlaybackLeaves DEF TypeOK, LeavesOthers
  <1> USE <1>0 DEF TypeOK, Play!TypeOK, Play!playVars, Play!jobVars,
                   Play!processVars, Player
  <1>1. CASE Play!Post(r)
    BY <1>1 DEF Play!Post, Running
  <1>2. CASE Play!Spawn(r)
    <2>1. CASE SpawnProcess(r)
      <3>1. UNCHANGED <<timer, watch>> /\ ppc[r] = "playlist"
        BY <1>2 DEF Play!Spawn
      <3>2. pid'[r] # 0
        BY <2>1, Spawned
      <3>3. ppc'[r] = "list"
        BY <1>2, <2>1, <3>1, <3>2 DEF Play!Spawn
      <3>4. timer[r] = "none" /\ watch[r] = "none"
        BY <3>1
      <3>5. QED BY <3>1, <3>2, <3>3, <3>4
    <2>2. CASE UNCHANGED processVars /\ ppc'[r] = "rejected"
      BY <1>2, <2>2 DEF Play!Spawn, processVars, Running, JobsTypeOK
    <2>3. QED BY <1>2, <2>1, <2>2
      DEF Play!Spawn, Play!SpawnProcess, Play!FreePids, SpawnProcess, FreePids, processVars
  <1>3. CASE Play!PutAnswered(r)
    <2>1. Running(r)' => Running(r)
      BY <1>3 DEF Play!PutAnswered, Running
    <2>2. /\ ppc[r] = "stored" /\ ppc'[r] = "accepted" /\ UNCHANGED <<pid, records>>
          /\ timer[r] = "none" /\ watch[r] = "none"
      BY <1>3 DEF Play!PutAnswered
    <2>3. timer'[r] \in {"none", "armed"} /\ watch'[r] = "attached"
      BY <1>3, <2>2 DEF Play!PutAnswered, Play!Armed, JobsTypeOK
    <2>4. QED BY <2>1, <2>2, <2>3
  <1>4. CASE Play!PutFailed(r)
    <2>1. Kill(r) /\ UNCHANGED <<pid, lastPid, child, watch, timer, restarts>>
      BY <1>4 DEF Play!PutFailed, Play!Kill, Kill
    <2>2. QED BY <1>4, <2>1, Killed DEF Play!PutFailed
  <1>5. CASE Play!TimerFire(r)
    <2>1. /\ Kill(r) /\ timer' = [timer EXCEPT ![r] = "delete"] /\ timer[r] = "armed"
          /\ UNCHANGED <<pid, lastPid, child, watch, restarts>>
      BY <1>5 DEF Play!TimerFire, Play!TimerFires, Play!Kill, Kill
    <2>2. QED BY <1>5, <2>1, Killed DEF Play!TimerFire, Play!postVars, JobsTypeOK
  <1>6. CASE Play!TimerDelete(r)
    <2>1. Running(r)' => Running(r)
      BY <1>6 DEF Play!TimerDelete, Running
    <2>2. timer[r] = "delete" /\ timer'[r] = "fired" /\ UNCHANGED <<pid, watch, ppc>>
      BY <1>6 DEF Play!TimerDelete, JobsTypeOK, Play!postVars
    <2>3. QED BY <2>1, <2>2
  <1>7. CASE Play!CloseEvent(r)
    <2>1. UNCHANGED <<pid, timer, ppc, records, restarts>>
      BY <1>7 DEF Play!CloseEvent, Play!postVars
    <2>2. watch'[r] \in {watch[r], "delete"} /\ (watch'[r] # watch[r] => watch[r] = "attached")
      BY <1>7 DEF Play!CloseEvent, JobsTypeOK
    <2>3. ~Running(r)'
      <3>1. CASE Kill(r)
        BY <2>1, <3>1, Killed
      <3>2. CASE UNCHANGED holder
        BY <1>7, <2>1, <3>2 DEF Play!CloseEvent, Play!Running, Running
      <3>3. QED BY <1>7, <3>1, <3>2 DEF Play!CloseEvent, Play!Kill, Kill
    <2>4. QED BY <2>1, <2>2, <2>3
  <1>8. CASE Play!CloseDelete(r)
    <2>1. Running(r)' => Running(r)
      BY <1>8 DEF Play!CloseDelete, Running
    <2>2. watch[r] = "delete" /\ watch'[r] = "done" /\ UNCHANGED <<pid, timer, ppc>>
      BY <1>8 DEF Play!CloseDelete, JobsTypeOK, Play!postVars
    <2>3. QED BY <2>1, <2>2
  <1>9. CASE Play!ListExisting(r) \/ Play!SendPut(r)
    BY <1>9 DEF Play!ListExisting, Play!SendPut, Running
  <1>10. CASE Play!PutLands(r)
    BY <1>10 DEF Play!PutLands, Running
  <1>11. CASE Play!DeleteExisting(r)
    BY <1>11 DEF Play!DeleteExisting, Running
  <1>12. CASE Play!KillExisting(r)
    <2>1. UNCHANGED <<pid, timer, watch, ppc, records>>
      BY <1>12 DEF Play!KillExisting, Play!postVars
    <2>2. Running(r)' => Running(r)
      <3>1. PICK q \in Owners : Kill(q)
        BY <1>12, AgentAssumption DEF Play!KillExisting, Play!Kill, Kill
      <3>2. QED BY <2>1, <3>1, Killed
    <2>3. QED BY <2>1, <2>2
  <1>13. CASE Play!PlayerExits(r)
    <2>1. Kill(r) /\ UNCHANGED <<pid, lastPid, child, watch, timer, restarts>>
      BY <1>13 DEF Play!PlayerExits, Play!Exit, Kill
    <2>2. QED BY <1>13, <2>1, Killed DEF Play!PlayerExits, Play!postVars
  <1>14. QED
    BY <1>1, <1>2, <1>3, <1>4, <1>5, <1>6, <1>7, <1>8, <1>9, <1>10, <1>11, <1>12, <1>13
    DEF Playback, Play!Handle, Play!Events

(* Nothing that others do weakens what is known of a playback.             *)
LEMMA PlayerKept ==
    ASSUME NEW q \in Posts, Player(q), RecordsKept,
           pid'[q] = pid[q], watch'[q] = watch[q], timer'[q] = timer[q],
           Running(q)' => Running(q), ppc'[q] = ppc[q], restarts' = restarts
    PROVE  Player(q)'
  BY DEF Player, RecordsKept

-----------------------------------------------------------------------------
(* The calls of a job.                                                     *)

(* A call of a job begins when no other is under way.                      *)
LEMMA OneCallPost ==
    ASSUME TypeOK, serial, OneCall, NEW r \in Posts, Playback(r), Player(r)
    PROVE  OneCall'
  <1> USE DEF TypeOK, Play!TypeOK
  <1>1. UNCHANGED <<spc, sjob>> /\ \A q \in Posts \ {r} : ppc'[q] = ppc[q] /\ job'[q] = job[q]
    BY PlaybackFrame
  <1>2. CASE Play!Post(r)
    <2>1. PICK j \in Jobs : Play!MayCall(j) /\ job' = [job EXCEPT ![r] = j]
      BY <1>2 DEF Play!Post
    <2>2. /\ \A q \in Posts : Play!PostBusy(q) => job[q] # j
          /\ \A s \in Stops : Play!StopBusy(s) => sjob[s] # j
      BY <2>1 DEF Play!MayCall
    <2>3. /\ job'[r] = j
          /\ \A q \in Posts \ {r} : Play!PostBusy(q)' => Play!PostBusy(q)
          /\ \A s \in Stops : Play!StopBusy(s)' => Play!StopBusy(s)
      BY <1>1, <2>1 DEF Play!PostBusy, Play!StopBusy
    <2>4. QED BY <1>1, <2>2, <2>3 DEF OneCall
  <1>3. CASE ~Play!Post(r)
    <2>1. job' = job /\ (ppc'[r] = ppc[r] \/ Play!PostBusy(r) \/ ~Play!PostBusy(r)')
      BY <1>3 DEF Playback, Play!Handle, Play!Events, Play!Spawn, Play!ListExisting,
             Play!KillExisting, Play!DeleteExisting, Play!SendPut, Play!PutLands,
             Play!PutAnswered, Play!PutFailed, Play!TimerFire, Play!TimerDelete,
             Play!CloseEvent, Play!CloseDelete, Play!PlayerExits, Play!PostBusy,
             Play!postVars, Play!playVars
    <2>2. \A q \in Posts : Play!PostBusy(q)' => Play!PostBusy(q)
      BY <1>1, <2>1 DEF Play!PostBusy
    <2>3. \A s \in Stops : Play!StopBusy(s)' => Play!StopBusy(s)
      BY <1>1 DEF Play!StopBusy
    <2>4. QED BY <1>1, <2>1, <2>2, <2>3 DEF OneCall
  <1>4. QED BY <1>2, <1>3

LEMMA OneCallStop ==
    ASSUME TypeOK, serial, OneCall, NEW s \in Stops, StopPlayback(s)
    PROVE  OneCall'
  <1> USE DEF TypeOK, Play!TypeOK
  <1>1. /\ UNCHANGED <<ppc, job>>
        /\ \A u \in Stops \ {s} : spc'[u] = spc[u] /\ sjob'[u] = sjob[u]
    BY StopFrame
  <1>2. \A q \in Posts : Play!PostBusy(q)' => Play!PostBusy(q)
    BY <1>1 DEF Play!PostBusy
  <1>3. \A u \in Stops \ {s} : Play!StopBusy(u)' => Play!StopBusy(u)
    BY <1>1 DEF Play!StopBusy
  <1>4. CASE Play!Stop(s)
    <2>1. PICK j \in Jobs : Play!MayCall(j) /\ sjob' = [sjob EXCEPT ![s] = j]
      BY <1>4 DEF Play!Stop
    <2>2. sjob'[s] = j /\ \A q \in Posts : Play!PostBusy(q) => job[q] # j
      BY <2>1 DEF Play!MayCall
    <2>3. QED BY <1>1, <1>2, <1>3, <2>2 DEF OneCall
  <1>5. CASE ~Play!Stop(s)
    <2>1. sjob' = sjob /\ (spc'[s] = spc[s] \/ Play!StopBusy(s))
      BY <1>5 DEF StopPlayback, Play!HandleStop, Play!ListToStop, Play!KillToStop,
             Play!DeleteToStop, Play!AnswerStop, Play!StopBusy, Play!stopVars, Play!playVars
    <2>2. Play!StopBusy(s)' => Play!StopBusy(s)
      BY <2>1 DEF Play!StopBusy
    <2>3. QED BY <1>1, <1>2, <1>3, <2>1, <2>2 DEF OneCall
  <1>6. QED BY <1>4, <1>5

(* What runs for a job that no POST is working on has its record.          *)
LEMMA Found ==
    ASSUME Play!Undisturbed, NEW q \in Posts, Player(q), TypeOK,
           Running(q), ~Play!PostBusy(q)
    PROVE  q \in records
  BY DEF Play!Undisturbed, Player, TypeOK, Play!TypeOK, Running, Play!PostBusy

(* If no player starts, what is settled stays so as long as nobody goes on *)
(* or forgets a player that still runs.                                    *)
LEMMA Settled ==
    ASSUME JobSettled,
           \A q \in Posts : Running(q)' => Running(q) /\ job'[q] = job[q],
           \A r \in Posts : Play!PostBusy(r) => Play!PostBusy(r)' \/ AtMostOne(job[r]),
           \A r \in Posts : Play!PostBusy(r) => job'[r] = job[r],
           \A r \in Posts :
             /\ ppc'[r] = "playlist" => AtMostOne(job'[r])
             /\ ppc'[r] = "replace" =>
                  Play!RunningOf(job[r])' \subseteq todo'[r] \cup {r}
             /\ ppc'[r] \in {"put", "stored"} => Play!RunningOf(job[r])' \subseteq {r},
           \A s \in Stops : spc'[s] = "remove" =>
             Play!RunningOf(sjob[s])' \subseteq stodo'[s]
    PROVE  JobSettled'
  <1>1. \A j : Play!RunningOf(j)' \subseteq Play!RunningOf(j)
    BY SameRunning DEF Play!RunningOf
  <1>2. \A j : AtMostOne(j) => AtMostOne(j)'
    BY <1>1 DEF AtMostOne
  <1>3. \A j \in Jobs : Play!Idle(j)' => AtMostOne(j)'
    <2> SUFFICES ASSUME NEW j \in Jobs, Play!Idle(j)'
                 PROVE  AtMostOne(j)
      BY <1>2
    <2>1. CASE Play!Idle(j)
      BY <2>1 DEF JobSettled
    <2>2. CASE ~Play!Idle(j)
      <3>1. PICK r \in Posts : Play!PostBusy(r) /\ job[r] = j
        BY <2>2 DEF Play!Idle
      <3>2. ~Play!PostBusy(r)'
        BY <3>1 DEF Play!Idle
      <3>3. QED BY <3>1, <3>2
    <2>3. QED BY <2>1, <2>2
  <1>4. \A r \in Posts : ppc'[r] = "playlist" => AtMostOne(job[r])'
    BY <1>1 DEF AtMostOne
  <1>5. QED BY <1>3, <1>4 DEF JobSettled

(* The same, when the calls of the job go on without a change of what they *)
(* have to do.                                                             *)
LEMMA StillSettled ==
    ASSUME JobSettled, UNCHANGED <<ppc, job, spc, sjob>>,
           \A q \in Posts : Running(q)' => Running(q),
           \A r, q \in Posts : q \in todo[r] => q \in todo'[r] \/ ~Running(q),
           \A s \in Stops, q \in Posts : q \in stodo[s] => q \in stodo'[s] \/ ~Running(q)
    PROVE  JobSettled'
  <1>1. \A j : Play!RunningOf(j)' \subseteq Play!RunningOf(j)
    BY SameRunning DEF Play!RunningOf
  <1>2. \A r \in Posts : Play!PostBusy(r)' = Play!PostBusy(r)
    BY DEF Play!PostBusy
  <1>3. \A r \in Posts : ppc'[r] = "replace" =>
           Play!RunningOf(job[r])' \subseteq todo'[r] \cup {r}
    BY SameRunning DEF Play!RunningOf, JobSettled
  <1>4. \A r \in Posts : ppc'[r] \in {"put", "stored"} =>
           Play!RunningOf(job[r])' \subseteq {r}
    BY SameRunning DEF Play!RunningOf, JobSettled
  <1>5. \A s \in Stops : spc'[s] = "remove" => Play!RunningOf(sjob[s])' \subseteq stodo'[s]
    BY SameRunning DEF Play!RunningOf, JobSettled
  <1>6. \A r \in Posts : ppc'[r] = "playlist" => AtMostOne(job'[r])
    BY DEF JobSettled
  <1>7. QED BY <1>2, <1>3, <1>4, <1>5, <1>6, Settled

LEMMA SettledPost ==
    ASSUME IInv, NEW r \in Posts, Playback(r), Play!Undisturbed'
    PROVE  JobSettled'
  <1>1. TypeOK /\ Player(r) /\ r \in Owners /\ Posts \subseteq Owners /\ JobsTypeOK
    BY AgentAssumption DEF IInv, TypeOK
  <1>2. /\ UNCHANGED <<serial, spc, sjob, stodo>> /\ restarts' = restarts
        /\ \A q \in Posts \ {r} :
             /\ ppc'[q] = ppc[q] /\ job'[q] = job[q] /\ todo'[q] = todo[q]
             /\ Running(q)' => Running(q)
        /\ skipped' = skipped \/ skipped' = serial
    BY <1>1, PlaybackFrame, PlaybackLeaves DEF LeavesOthers
  <1>3. Play!Undisturbed /\ JobSettled /\ OneCall /\ skipped' = skipped
    BY <1>2 DEF Play!Undisturbed, IInv
  <1>4. ASSUME ~Play!Spawn(r) \/ ppc'[r] = "rejected", ~Play!Post(r)
        PROVE  job' = job /\ \A q \in Posts : Running(q)' => Running(q)
    <2>1. job' = job
      BY <1>4 DEF Playback, Play!Handle, Play!Events, Play!Spawn, Play!ListExisting,
             Play!KillExisting, Play!DeleteExisting, Play!SendPut, Play!PutLands,
             Play!PutAnswered, Play!PutFailed, Play!TimerFire, Play!TimerDelete,
             Play!CloseEvent, Play!CloseDelete, Play!PlayerExits, Play!postVars,
             Play!playVars
    <2>2. \/ UNCHANGED <<pid, holder>>
          \/ pid' = pid /\ \E o \in Owners : Kill(o)
      <3>1. CASE Play!Spawn(r)
        BY <1>1, <1>4, <3>1 DEF Play!Spawn, Play!processVars, TypeOK, Play!TypeOK
      <3>2. CASE Play!KillExisting(r)
        BY <1>1, <3>2 DEF Play!KillExisting, Play!Kill, Kill, TypeOK, Play!TypeOK
      <3>3. CASE Play!CloseEvent(r)
        BY <1>1, <3>3 DEF Play!CloseEvent, Play!Kill, Kill
      <3>4. CASE Play!TimerFire(r) \/ Play!PutFailed(r) \/ Play!PlayerExits(r)
        BY <1>1, <3>4 DEF Play!TimerFire, Play!TimerFires, Play!PutFailed,
                          Play!PlayerExits, Play!Exit, Play!Kill, Kill
      <3>5. CASE \/ Play!ListExisting(r) \/ Play!DeleteExisting(r) \/ Play!SendPut(r)
                 \/ Play!PutLands(r) \/ Play!PutAnswered(r) \/ Play!TimerDelete(r)
                 \/ Play!CloseDelete(r)
        BY <3>5 DEF Play!ListExisting, Play!DeleteExisting, Play!SendPut, Play!PutLands,
                    Play!PutAnswered, Play!TimerDelete, Play!CloseDelete, Play!jobVars,
                    Play!processVars
      <3>6. QED BY <1>4, <3>1, <3>2, <3>3, <3>4, <3>5 DEF Playback, Play!Handle, Play!Events
    <2>3. \A q \in Posts : Running(q)' => Running(q)
      BY <1>1, <2>2, Killed DEF Running
    <2>4. QED BY <2>1, <2>3
  <1>5. \A q \in Posts : q # r /\ Play!PostBusy(r) /\ job[q] = job[r] => ~Play!PostBusy(q)
    BY <1>3 DEF OneCall
  <1>6. \A s \in Stops : spc[s] = "remove" /\ Play!PostBusy(r) => job[r] # sjob[s]
    BY <1>3 DEF OneCall, Play!StopBusy
  (* The step of one handler, while no player starts.                      *)
  <1>7. ASSUME job' = job, \A q \in Posts : Running(q)' => Running(q),
               Play!PostBusy(r) => Play!PostBusy(r)' \/ AtMostOne(job[r]),
               ppc'[r] # "playlist",
               ppc'[r] = "replace" => Play!RunningOf(job[r])' \subseteq todo'[r] \cup {r},
               ppc'[r] \in {"put", "stored"} => Play!RunningOf(job[r])' \subseteq {r}
        PROVE  JobSettled'
    <2>1. \A j : Play!RunningOf(j)' \subseteq Play!RunningOf(j)
      BY <1>7, SameRunning DEF Play!RunningOf
    <2>2. \A q \in Posts : Play!PostBusy(q) => Play!PostBusy(q)' \/ AtMostOne(job[q])
      BY <1>2, <1>7 DEF Play!PostBusy
    <2>3. \A q \in Posts : ppc'[q] = "playlist" => AtMostOne(job'[q])
      BY <1>2, <1>3, <1>7 DEF JobSettled
    <2>4. \A q \in Posts : ppc'[q] = "replace" =>
            Play!RunningOf(job[q])' \subseteq todo'[q] \cup {q}
      BY <1>2, <1>3, <1>7, SameRunning DEF JobSettled, Play!RunningOf
    <2>5. \A q \in Posts : ppc'[q] \in {"put", "stored"} => Play!RunningOf(job[q])' \subseteq {q}
      BY <1>2, <1>3, <1>7, SameRunning DEF JobSettled, Play!RunningOf
    <2>6. \A s \in Stops : spc'[s] = "remove" => Play!RunningOf(sjob[s])' \subseteq stodo'[s]
      BY <1>2, <1>3, <1>7, SameRunning DEF JobSettled, Play!RunningOf
    <2>7. QED BY <1>3, <1>7, <2>2, <2>3, <2>4, <2>5, <2>6, Settled
  <1>8. CASE Play!Post(r)
    <2>1. PICK j \in Jobs : Play!MayCall(j) /\ job' = [job EXCEPT ![r] = j]
      BY <1>8 DEF Play!Post
    <2>2. job'[r] = j /\ Play!Idle(j)
      BY <1>1, <1>3, <2>1 DEF Play!MayCall, Play!Undisturbed, Play!Idle, TypeOK, Play!TypeOK
    <2>3. AtMostOne(j)
      BY <1>3, <2>2 DEF JobSettled
    <2>4. /\ ppc[r] = "idle" /\ ppc'[r] = "playlist" /\ ~Running(r)
          /\ UNCHANGED <<pid, holder, todo>>
      BY <1>1, <1>8 DEF Play!Post, Player, Running, TypeOK, Play!TypeOK, Play!jobVars,
                        Play!processVars
    <2>5. \A q \in Posts : Running(q)' => Running(q) /\ job'[q] = job[q]
      BY <1>2, <2>4 DEF Running
    <2>6. \A k : Play!RunningOf(k)' \subseteq Play!RunningOf(k)
      BY <2>5, SameRunning DEF Play!RunningOf
    <2>7. \A q \in Posts : Play!PostBusy(q) => Play!PostBusy(q)' /\ job'[q] = job[q]
      BY <1>2, <2>4 DEF Play!PostBusy
    <2>8. \A q \in Posts : ppc'[q] = "playlist" => AtMostOne(job'[q])
      BY <1>2, <1>3, <2>2, <2>3 DEF JobSettled
    <2>9. \A q \in Posts : ppc'[q] = "replace" =>
            Play!RunningOf(job[q])' \subseteq todo'[q] \cup {q}
      BY <1>2, <1>3, <2>4, <2>5, SameRunning DEF JobSettled, Play!RunningOf
    <2>10. \A q \in Posts : ppc'[q] \in {"put", "stored"} => Play!RunningOf(job[q])' \subseteq {q}
      BY <1>2, <1>3, <2>4, <2>5, SameRunning DEF JobSettled, Play!RunningOf
    <2>11. \A s \in Stops : spc'[s] = "remove" => Play!RunningOf(sjob[s])' \subseteq stodo'[s]
      BY <1>2, <1>3, <2>5, SameRunning DEF JobSettled, Play!RunningOf
    <2>12. QED BY <1>3, <2>5, <2>7, <2>8, <2>9, <2>10, <2>11, Settled
  <1>9. CASE Play!Spawn(r) /\ ppc'[r] # "rejected"
    <2>1. ppc[r] = "playlist" /\ ppc'[r] = "list" /\ job' = job /\ todo' = todo
      BY <1>1, <1>9 DEF Play!Spawn, TypeOK, Play!TypeOK
    <2>2. \A q \in Posts \ {r} : Running(q)' => Running(q)
      BY <1>2
    <2>3. \A k : k # job[r] => Play!RunningOf(k)' \subseteq Play!RunningOf(k)
      BY <2>1, <2>2, SameRunning DEF Play!RunningOf
    <2>4. \A q \in Posts \ {r} : Play!PostBusy(q)' = Play!PostBusy(q)
      BY <1>2 DEF Play!PostBusy
    <2>5. \A j \in Jobs : Play!Idle(j)' => AtMostOne(j)'
      <3> SUFFICES ASSUME NEW j \in Jobs, Play!Idle(j)'
                   PROVE  AtMostOne(j)'
        OBVIOUS
      <3>1. j # job[r] /\ Play!Idle(j)
        BY <2>1, <2>4 DEF Play!Idle, Play!PostBusy
      <3>2. AtMostOne(j)
        BY <1>3, <3>1 DEF JobSettled
      <3>3. QED BY <2>3, <3>1, <3>2 DEF AtMostOne
    <2>6. \A q \in Posts : q # r /\ Play!PostBusy(q) => job[q] # job[r]
      BY <1>5, <2>1 DEF Play!PostBusy
    <2>7. \A q \in Posts : ppc'[q] = "playlist" => AtMostOne(job[q])'
      <3> SUFFICES ASSUME NEW q \in Posts, ppc'[q] = "playlist"
                   PROVE  AtMostOne(job[q])'
        OBVIOUS
      <3>1. q # r /\ ppc[q] = "playlist" /\ job[q] # job[r]
        BY <1>2, <2>1, <2>6 DEF Play!PostBusy
      <3>2. AtMostOne(job[q])
        BY <1>3, <3>1 DEF JobSettled
      <3>3. QED BY <2>1, <2>3, <3>1, <3>2 DEF AtMostOne
    <2>8. \A q \in Posts : ppc'[q] = "replace" =>
            Play!RunningOf(job[q])' \subseteq todo'[q] \cup {q}
      <3> SUFFICES ASSUME NEW q \in Posts, ppc'[q] = "replace"
                   PROVE  Play!RunningOf(job[q])' \subseteq todo'[q] \cup {q}
        OBVIOUS
      <3>1. q # r /\ ppc[q] = "replace" /\ job[q] # job[r]
        BY <1>2, <2>1, <2>6 DEF Play!PostBusy
      <3>2. Play!RunningOf(job[q]) \subseteq todo[q] \cup {q}
        BY <1>3, <3>1 DEF JobSettled
      <3>3. QED BY <2>1, <2>2, <3>1, <3>2, SameRunning DEF Play!RunningOf
    <2>9. \A q \in Posts : ppc'[q] \in {"put", "stored"} => Play!RunningOf(job[q])' \subseteq {q}
      <3> SUFFICES ASSUME NEW q \in Posts, ppc'[q] \in {"put", "stored"}
                   PROVE  Play!RunningOf(job[q])' \subseteq {q}
        OBVIOUS
      <3>1. q # r /\ ppc[q] \in {"put", "stored"} /\ job[q] # job[r]
        BY <1>2, <2>1, <2>6 DEF Play!PostBusy
      <3>2. Play!RunningOf(job[q]) \subseteq {q}
        BY <1>3, <3>1 DEF JobSettled
      <3>3. QED BY <2>1, <2>2, <3>1, <3>2, SameRunning DEF Play!RunningOf
    <2>10. \A s \in Stops : spc'[s] = "remove" => Play!RunningOf(sjob[s])' \subseteq stodo'[s]
      <3> SUFFICES ASSUME NEW s \in Stops, spc'[s] = "remove"
                   PROVE  Play!RunningOf(sjob[s])' \subseteq stodo'[s]
        OBVIOUS
      <3>1. sjob[s] # job[r] /\ spc[s] = "remove"
        BY <1>2, <1>6, <2>1 DEF Play!PostBusy
      <3>2. Play!RunningOf(sjob[s]) \subseteq stodo[s]
        BY <1>3, <3>1 DEF JobSettled
      <3>3. QED BY <1>2, <2>1, <2>2, <3>1, <3>2, SameRunning DEF Play!RunningOf
    <2>11. QED BY <2>5, <2>7, <2>8, <2>9, <2>10 DEF JobSettled
  <1>10. CASE Play!Spawn(r) /\ ppc'[r] = "rejected"
    <2>1. ~Play!Post(r) /\ AtMostOne(job[r])
      BY <1>3, <1>10 DEF Play!Spawn, Play!Post, JobSettled
    <2>2. QED BY <1>4, <1>7, <1>10, <2>1
  <1>11. CASE Play!ListExisting(r)
    <2>1. /\ ppc[r] = "list" /\ ppc'[r] = "replace" /\ ~Play!Post(r) /\ ~Play!Spawn(r)
          /\ Play!PostBusy(r) /\ Play!PostBusy(r)'
      BY <1>1, <1>11 DEF Play!ListExisting, Play!Post, Play!Spawn, TypeOK, Play!TypeOK,
                         Play!PostBusy
    <2>2. job' = job /\ \A q \in Posts : Running(q)' => Running(q)
      BY <1>4, <2>1
    <2>3. todo'[r] = Play!RecordsOf(job[r])
      <3>1. ~skipped' /\ serial /\ skipped' # serial
        BY <1>2 DEF Play!Undisturbed
      <3>2. PICK found \in SUBSET records :
              Play!Listing(job[r], found) /\ todo' = [todo EXCEPT ![r] = found]
        BY <1>11, <3>1 DEF Play!ListExisting
      <3>3. found = Play!RecordsOf(job[r])
        BY <1>1, <3>1, <3>2, Listed
      <3> QED BY <1>1, <3>2, <3>3 DEF TypeOK, Play!TypeOK
    <2>4. ASSUME NEW q \in Posts, q # r, Running(q), job[q] = job[r]
          PROVE  q \in Play!RecordsOf(job[r])
      <3>1. ~Play!PostBusy(q)
        BY <1>5, <2>1, <2>4
      <3>2. Player(q)
        BY DEF IInv
      <3>3. q \in records
        BY <1>1, <1>3, <2>4, <3>1, <3>2, Found
      <3>4. QED BY <1>1, <2>4, <3>3 DEF Play!RecordsOf, TypeOK, Play!TypeOK
    <2>5. Play!RunningOf(job[r])' \subseteq todo'[r] \cup {r}
      BY <2>2, <2>3, <2>4, SameRunning DEF Play!RunningOf
    <2>6. QED BY <1>7, <2>1, <2>2, <2>5
  <1>12. ASSUME UNCHANGED ppc, ~Play!Spawn(r), ~Play!Post(r),
                \A q \in Posts : q \in todo[r] => q \in todo'[r] \/ ~Running(q)
         PROVE  JobSettled'
    <2>1. job' = job /\ \A q \in Posts : Running(q)' => Running(q)
      BY <1>4, <1>12
    <2>2. QED BY <1>2, <1>3, <1>12, <2>1, StillSettled
  <1>13. CASE Play!DeleteExisting(r)
    <2>1. UNCHANGED ppc /\ ~Play!Spawn(r) /\ ~Play!Post(r)
      BY <1>13 DEF Play!DeleteExisting, Play!Spawn, Play!Post
    <2>2. PICK q \in todo[r] : ~Play!Alive(q) /\ todo' = [todo EXCEPT ![r] = @ \ {q}]
      BY <1>1, <1>2, <1>3, <1>13 DEF Play!DeleteExisting, Play!Undisturbed, TypeOK, Play!TypeOK
    <2>3. q \in Posts => ~Running(q)
      BY <2>2, AgentAssumption, JobsAssumption DEF Play!Alive, Running
    <2>4. \A k \in Posts : k \in todo[r] => k \in todo'[r] \/ ~Running(k)
      BY <1>1, <2>2, <2>3 DEF TypeOK, Play!TypeOK
    <2>5. QED BY <1>12, <2>1, <2>4
  <1>14. CASE \/ Play!KillExisting(r) \/ Play!TimerFire(r) \/ Play!TimerDelete(r)
              \/ Play!CloseEvent(r) \/ Play!CloseDelete(r) \/ Play!PlayerExits(r)
    <2>1. UNCHANGED <<ppc, job, todo>>
      BY <1>14 DEF Play!KillExisting, Play!TimerFire, Play!TimerDelete, Play!CloseEvent,
                   Play!CloseDelete, Play!PlayerExits, Play!postVars, Play!playVars
    <2>2. CASE Play!Spawn(r)
      BY <1>1, <2>1, <2>2 DEF Play!Spawn, TypeOK, Play!TypeOK
    <2>3. CASE Play!Post(r)
      BY <1>1, <2>1, <2>3 DEF Play!Post, TypeOK, Play!TypeOK
    <2>4. QED BY <1>12, <2>1, <2>2, <2>3
  <1>15. CASE Play!SendPut(r) \/ Play!PutLands(r)
    <2>1. /\ UNCHANGED <<pid, holder>> /\ ~Play!Spawn(r) /\ ~Play!Post(r)
          /\ ppc[r] \in {"replace", "put"} /\ ppc'[r] \in {"put", "stored"}
          /\ ppc[r] = "replace" => todo[r] = {}
      BY <1>1, <1>15 DEF Play!SendPut, Play!PutLands, Play!Spawn, Play!Post, TypeOK,
                         Play!TypeOK, Play!jobVars, Play!processVars
    <2>2. job' = job /\ \A q \in Posts : Running(q)' => Running(q)
      BY <1>4, <2>1
    <2>3. Play!RunningOf(job[r])' \subseteq {r}
      BY <1>3, <2>1, <2>2, SameRunning DEF JobSettled, Play!RunningOf
    <2>4. Play!PostBusy(r)'
      BY <2>1 DEF Play!PostBusy
    <2>5. QED BY <1>7, <2>1, <2>2, <2>3, <2>4
  <1>16. CASE Play!PutAnswered(r) \/ Play!PutFailed(r)
    <2>1. /\ ~Play!Spawn(r) /\ ~Play!Post(r)
          /\ ppc[r] \in {"put", "stored"} /\ ppc'[r] \in {"accepted", "rejected"}
      BY <1>1, <1>16 DEF Play!PutAnswered, Play!PutFailed, Play!Spawn, Play!Post, TypeOK,
                         Play!TypeOK
    <2>2. AtMostOne(job[r])
      BY <1>3, <2>1 DEF JobSettled, AtMostOne
    <2>3. QED BY <1>4, <1>7, <2>1, <2>2
  <1>17. QED
    BY <1>8, <1>9, <1>10, <1>11, <1>13, <1>14, <1>15, <1>16
    DEF Playback, Play!Handle, Play!Events

LEMMA SettledStop ==
    ASSUME IInv, NEW s \in Stops, StopPlayback(s), Play!Undisturbed'
    PROVE  JobSettled'
  <1>1. TypeOK /\ Posts \subseteq Owners /\ NoOne \notin Owners
    BY AgentAssumption, JobsAssumption DEF IInv
  <1>2. /\ UNCHANGED <<serial, ppc, job, todo>> /\ restarts' = restarts
        /\ skipped' = skipped \/ skipped' = serial
        /\ \A u \in Stops \ {s} :
             spc'[u] = spc[u] /\ sjob'[u] = sjob[u] /\ stodo'[u] = stodo[u]
        /\ \A q \in Posts : Running(q)' => Running(q)
    BY <1>1, StopFrame, StopLeaves DEF LeavesOthers
  <1>3. Play!Undisturbed /\ JobSettled /\ OneCall
    BY <1>2 DEF Play!Undisturbed, IInv
  <1> USE DEF TypeOK, Play!TypeOK
  <1>4. ASSUME spc'[s] = "remove" => Play!RunningOf(sjob[s])' \subseteq stodo'[s]
        PROVE  JobSettled'
    <2>1. \A r \in Posts : Play!PostBusy(r)' = Play!PostBusy(r)
      BY <1>2 DEF Play!PostBusy
    <2>2. \A r \in Posts : ppc'[r] = "playlist" => AtMostOne(job'[r])
      BY <1>2, <1>3 DEF JobSettled
    <2>3. \A r \in Posts : ppc'[r] = "replace" =>
            Play!RunningOf(job[r])' \subseteq todo'[r] \cup {r}
      BY <1>2, <1>3, SameRunning DEF JobSettled, Play!RunningOf
    <2>4. \A r \in Posts : ppc'[r] \in {"put", "stored"} => Play!RunningOf(job[r])' \subseteq {r}
      BY <1>2, <1>3, SameRunning DEF JobSettled, Play!RunningOf
    <2>5. \A u \in Stops : spc'[u] = "remove" => Play!RunningOf(sjob[u])' \subseteq stodo'[u]
      BY <1>2, <1>3, <1>4, SameRunning DEF JobSettled, Play!RunningOf
    <2>6. QED BY <1>2, <1>3, <2>1, <2>2, <2>3, <2>4, <2>5, Settled
  <1>5. CASE spc'[s] # "remove"
    BY <1>4, <1>5
  <1>6. CASE Play!ListToStop(s) /\ spc'[s] = "remove"
    <2>1. sjob' = sjob /\ stodo'[s] = Play!RecordsOf(sjob[s]) /\ Play!StopBusy(s)
      <3>1. ~skipped' /\ serial
        BY <1>2 DEF Play!Undisturbed
      <3>2. PICK found \in SUBSET records :
              Play!Listing(sjob[s], found) /\ stodo' = [stodo EXCEPT ![s] = found]
        BY <1>1, <1>6 DEF Play!ListToStop
      <3>3. found = Play!RecordsOf(sjob[s])
        BY <1>1, <3>1, <3>2, Listed
      <3> QED BY <1>1, <1>6, <3>2, <3>3 DEF Play!ListToStop, Play!StopBusy
    <2>2. ASSUME NEW q \in Posts, Running(q), job[q] = sjob[s]
          PROVE  q \in stodo'[s]
      <3>1. ~Play!PostBusy(q) /\ Player(q)
        BY <1>3, <2>1, <2>2 DEF OneCall, IInv
      <3>2. q \in records
        BY <1>1, <1>3, <2>2, <3>1, Found
      <3>3. QED BY <2>1, <2>2, <3>2 DEF Play!RecordsOf
    <2>3. QED BY <1>2, <1>4, <2>1, <2>2, SameRunning DEF Play!RunningOf
  <1>7. ASSUME spc[s] = "remove", sjob' = sjob,
               \A q \in Posts : q \in stodo[s] => q \in stodo'[s] \/ ~Running(q)
        PROVE  JobSettled'
    BY <1>2, <1>3, <1>4, <1>7, SameRunning DEF JobSettled, Play!RunningOf
  <1>8. CASE Play!KillToStop(s)
    BY <1>7, <1>8 DEF Play!KillToStop, Play!playVars, Play!stopVars
  <1>9. CASE Play!DeleteToStop(s)
    BY <1>1, <1>7, <1>9 DEF Play!DeleteToStop, Play!Alive, Running
  <1>10. CASE Play!Stop(s) \/ Play!AnswerStop(s)
    BY <1>1, <1>5, <1>10 DEF Play!Stop, Play!AnswerStop
  <1>11. QED BY <1>5, <1>6, <1>8, <1>9, <1>10 DEF StopPlayback, Play!HandleStop

-----------------------------------------------------------------------------
(* The steps of the agent.                                                 *)

LEMMA InitIInv == Init => IInv
  <1> SUFFICES ASSUME Init
               PROVE  IInv
    OBVIOUS
  <1> USE AgentAssumption, JobsAssumption
  <1>1. TypeOK
    <2>1. load \in Loads /\ JobsTypeOK
      BY DEF Init, JobsInit, JobsTypeOK
    <2>2. Rec!TypeOK
      BY DEF Init, JobsInit, Rec!Init, Rec!TypeOK
    <2>3. Play!TypeOK
      BY DEF Init, Play!Init, Play!TypeOK
    <2>4. QED BY <2>1, <2>2, <2>3 DEF TypeOK
  <1>2. \A r \in Owners : ~Running(r) /\ timer[r] = "none" /\ watch[r] = "none" /\ pid[r] = 0
    BY DEF Init, JobsInit, Running
  <1>3. \A r \in Requests : Recording(r)
    BY <1>2 DEF Init, Rec!Init, Recording
  <1>4. \A r \in Posts : Player(r)
    BY <1>2 DEF Init, Play!Init, Player
  <1>5. OneCall
    BY DEF Init, Play!Init, OneCall, Play!PostBusy
  <1>6. JobSettled
    <2>1. \A j : Play!RunningOf(j) = {}
      BY <1>2, SameRunning DEF Play!RunningOf
    <2>2. QED BY <2>1 DEF Init, Play!Init, JobSettled, AtMostOne
  <1>7. QED BY <1>1, <1>3, <1>4, <1>5, <1>6 DEF IInv

LEMMA RecordStep ==
    ASSUME IInv, NEW r \in Requests, Record(r), UNCHANGED <<load, playVars>>
    PROVE  IInv'
  <1>1. /\ TypeOK /\ Recording(r) /\ r \notin Posts /\ r \in Owners
        /\ Posts \subseteq Owners /\ Requests \subseteq Owners
    BY AgentAssumption DEF IInv
  <1>2. /\ JobsTypeOK' /\ restarts' = restarts
        /\ \A q \in Owners \ {r} :
             /\ pid'[q] = pid[q] /\ watch'[q] = watch[q] /\ timer'[q] = timer[q]
             /\ Running(q)' => Running(q)
    BY <1>1, RecordLeaves DEF LeavesOthers
  <1>3. Rec!TypeOK'
    BY <1>1, RecordTypes
  <1>4. Play!TypeOK'
    BY <1>1, <1>2 DEF TypeOK, Play!TypeOK, playVars
  <1>5. TypeOK'
    BY <1>1, <1>2, <1>3, <1>4 DEF TypeOK
  <1>6. \A q \in Requests : Recording(q)'
    <2> SUFFICES ASSUME NEW q \in Requests
                 PROVE  Recording(q)'
      OBVIOUS
    <2>1. CASE q = r
      BY <1>1, <2>1, RecordOwn
    <2>2. CASE q # r
      <3>1. Recording(q)
        BY DEF IInv
      <3>2. /\ rpc'[q] = rpc[q] /\ lines'[q] = lines[q] /\ log'[q] = log[q]
            /\ urls'[q] = urls[q] /\ missed'[q] = missed[q]
            /\ q \in record => q \in record'
        BY <1>1, <2>2, RecordFrame
      <3>3. QED BY <1>1, <1>2, <2>2, <3>1, <3>2, RecordingKept
    <2>3. QED BY <2>1, <2>2
  <1>7. \A q \in Posts : Player(q)'
    BY <1>1, <1>2, PlayerKept DEF IInv, RecordsKept, playVars
  <1>8. serial' => OneCall'
    BY DEF IInv, OneCall, playVars, Play!PostBusy, Play!StopBusy
  <1>9. Play!Undisturbed' => JobSettled'
    <2>1. Play!Undisturbed' => Play!Undisturbed
      BY <1>2 DEF Play!Undisturbed, playVars
    <2>2. JobSettled => JobSettled'
      BY <1>1, <1>2, StillSettled DEF playVars
    <2>3. QED BY <2>1, <2>2 DEF IInv
  <1>10. QED BY <1>5, <1>6, <1>7, <1>8, <1>9 DEF IInv

LEMMA PlaybackStep ==
    ASSUME IInv, NEW r \in Posts, Playback(r), UNCHANGED <<load, recVars>>
    PROVE  IInv'
  <1>1. /\ TypeOK /\ Player(r) /\ r \notin Requests /\ r \in Owners
        /\ Posts \subseteq Owners /\ Requests \subseteq Owners
    BY AgentAssumption DEF IInv
  <1>2. /\ JobsTypeOK' /\ restarts' = restarts
        /\ \A q \in Owners \ {r} :
             /\ pid'[q] = pid[q] /\ watch'[q] = watch[q] /\ timer'[q] = timer[q]
             /\ Running(q)' => Running(q)
             /\ q \in child' => q \in child
    BY <1>1, PlaybackLeaves DEF LeavesOthers
  <1>3. Rec!TypeOK'
    BY <1>1, <1>2 DEF TypeOK, Rec!TypeOK, recVars
  <1>4. TypeOK'
    BY <1>1, <1>2, <1>3, PlaybackTypes DEF TypeOK
  <1>5. \A q \in Requests : Recording(q)'
    BY <1>1, <1>2, RecordingKept DEF IInv, recVars
  <1>6. /\ serial' = serial /\ RecordsKept
        /\ \A q \in Posts \ {r} : ppc'[q] = ppc[q]
    BY <1>1, PlaybackFrame
  <1>7. \A q \in Posts : Player(q)'
    <2> SUFFICES ASSUME NEW q \in Posts
                 PROVE  Player(q)'
      OBVIOUS
    <2>1. CASE q = r
      BY <1>1, <2>1, PlaybackOwn
    <2>2. CASE q # r
      BY <1>1, <1>2, <1>6, <2>2, PlayerKept DEF IInv
    <2>3. QED BY <2>1, <2>2
  <1>8. serial' => OneCall'
    BY <1>1, <1>6, OneCallPost DEF IInv
  <1>9. Play!Undisturbed' => JobSettled'
    BY SettledPost
  <1>10. QED BY <1>4, <1>5, <1>7, <1>8, <1>9 DEF IInv

LEMMA StopStep ==
    ASSUME IInv, NEW s \in Stops, StopPlayback(s), UNCHANGED <<load, recVars>>
    PROVE  IInv'
  <1>1. /\ TypeOK /\ NoOne \notin Owners
        /\ Posts \subseteq Owners /\ Requests \subseteq Owners
    BY AgentAssumption, JobsAssumption DEF IInv
  <1>2. /\ JobsTypeOK' /\ restarts' = restarts
        /\ \A q \in Owners :
             /\ pid'[q] = pid[q] /\ watch'[q] = watch[q] /\ timer'[q] = timer[q]
             /\ Running(q)' => Running(q)
             /\ q \in child' => q \in child
    BY <1>1, StopLeaves DEF LeavesOthers
  <1>3. Rec!TypeOK'
    BY <1>1, <1>2 DEF TypeOK, Rec!TypeOK, recVars
  <1>4. TypeOK'
    BY <1>1, <1>2, <1>3, StopTypes DEF TypeOK
  <1>5. \A q \in Requests : Recording(q)'
    BY <1>1, <1>2, RecordingKept DEF IInv, recVars
  <1>6. serial' = serial /\ RecordsKept /\ ppc' = ppc
    BY <1>1, StopFrame
  <1>7. \A q \in Posts : Player(q)'
    BY <1>1, <1>2, <1>6, PlayerKept DEF IInv
  <1>8. serial' => OneCall'
    BY <1>1, <1>6, OneCallStop DEF IInv
  <1>9. Play!Undisturbed' => JobSettled'
    BY SettledStop
  <1>10. QED BY <1>4, <1>5, <1>7, <1>8, <1>9 DEF IInv

(* A restart ends every call; only the processes may go on.                *)
LEMMA RestartStep ==
    ASSUME IInv, Restart
    PROVE  IInv'
  <1> USE AgentAssumption, JobsAssumption DEF IInv, Restart
  <1>1. TypeOK'
    <2>1. JobsTypeOK'
      BY DEF TypeOK, JobsTypeOK, JobsRestart
    <2>2. Rec!TypeOK'
      BY DEF TypeOK, Rec!TypeOK, JobsRestart, Rec!RequestsLost, Rec!s3Vars
    <2>3. Play!TypeOK'
      BY DEF TypeOK, Play!TypeOK, JobsRestart, Play!RequestsLost, Play!ghosts, Play!PostBusy
    <2>4. QED BY <2>1, <2>2, <2>3 DEF TypeOK
  <1>2. \A q \in Owners :
          /\ Running(q)' => Running(q)
          /\ pid'[q] = pid[q] /\ watch'[q] = "none"
          /\ timer'[q] # "none" => timer'[q] = timer[q]
    BY DEF JobsRestart, Running, TypeOK, JobsTypeOK
  <1>3. \A r \in Requests : Recording(r)'
    BY <1>2 DEF Rec!RequestsLost, Rec!s3Vars, Recording
  <1>4. restarts' # 0
    BY DEF JobsRestart, TypeOK, JobsTypeOK
  <1>5. \A r \in Posts : Player(r)'
    BY <1>2, <1>4 DEF Play!RequestsLost, Play!PostBusy, Player
  <1>6. \A r \in Posts : ~Play!PostBusy(r)'
    BY DEF Play!RequestsLost, Play!PostBusy
  <1>7. OneCall'
    BY <1>6 DEF OneCall
  <1>8. ~Play!Undisturbed'
    BY <1>4 DEF Play!Undisturbed
  <1>9. QED BY <1>1, <1>3, <1>5, <1>7, <1>8

LEMMA NextIInv == IInv /\ [Next]_vars => IInv'
  <1> SUFFICES ASSUME IInv, [Next]_vars
               PROVE  IInv'
    OBVIOUS
  <1>1. ASSUME NEW r \in Requests, Record(r), UNCHANGED <<load, playVars>>
        PROVE  IInv'
    BY <1>1, RecordStep
  <1>2. ASSUME NEW r \in Posts, Playback(r), UNCHANGED <<load, recVars>>
        PROVE  IInv'
    BY <1>2, PlaybackStep
  <1>3. ASSUME NEW s \in Stops, StopPlayback(s), UNCHANGED <<load, recVars>>
        PROVE  IInv'
    BY <1>3, StopStep
  <1>4. CASE Restart
    BY <1>4, RestartStep
  <1>5. CASE UNCHANGED vars
    <2>1. UNCHANGED <<load, pid, holder, lastPid, child, watch, timer, restarts>>
          /\ UNCHANGED <<recVars, playVars>>
      BY <1>5 DEF vars, jobVars, processVars
    <2>2. TypeOK'
      BY <2>1 DEF IInv, TypeOK, JobsTypeOK, Rec!TypeOK, Play!TypeOK, recVars, playVars
    <2>3. \A q : Running(q)' = Running(q)
      BY <2>1 DEF Running
    <2>4. \A q \in Requests : Recording(q)'
      BY <2>1, <2>3 DEF IInv, Recording, recVars
    <2>5. \A q \in Posts : Player(q)'
      BY <2>1, <2>3 DEF IInv, Player, playVars
    <2>6. serial' => OneCall'
      BY <2>1 DEF IInv, OneCall, playVars, Play!PostBusy, Play!StopBusy
    <2>7. Play!Undisturbed' => JobSettled'
      <3>1. Play!Undisturbed' => JobSettled
        BY <2>1 DEF IInv, Play!Undisturbed, playVars
      <3>2. JobSettled => JobSettled'
        BY <2>1, <2>3, StillSettled DEF playVars
      <3>3. QED BY <3>1, <3>2
    <2>8. QED BY <2>2, <2>4, <2>5, <2>6, <2>7 DEF IInv
  <1>6. QED BY <1>1, <1>2, <1>3, <1>4, <1>5 DEF Next

LEMMA SpecIInv == Spec => []IInv
  BY InitIInv, NextIInv, PTL DEF Spec

-----------------------------------------------------------------------------
(* The theorems.                                                           *)

(* The type of every variable, whatever fails and whenever the agent or    *)
(* its container starts anew.                                              *)
THEOREM TypeCorrect == Spec => []TypeOK
  <1>1. IInv => TypeOK
    BY DEF IInv
  <1>2. QED BY <1>1, SpecIInv, PTL

(* An accepted recorder that runs is in the list of the agent, and a       *)
(* refused request leaves none behind (agent.js, POST /jobs/recordings).   *)
THEOREM RecordersAreListed == Spec => []RecorderIsListed
  <1>1. IInv => RecorderIsListed
    BY SameRunning DEF IInv, Recording, RecorderIsListed, Rec!RunningIsListed
  <1>2. QED BY <1>1, SpecIInv, PTL

(* The record of a recording goes when every hour its recorder named has   *)
(* its URL in S3, but for those whose put has failed and for a log that    *)
(* could not be read (agent.js, the close handler and storeRecordingUrls). *)
THEOREM UrlsAreStoredFirst == Spec => []UrlsBeforeForget
  <1>1. IInv => UrlsBeforeForget
    BY AgentAssumption DEF IInv, Recording, UrlsBeforeForget, Rec!UrlsBeforeForget
  <1>2. QED BY <1>1, SpecIInv, PTL

(* An accepted player that runs has its record: none of the paths that     *)
(* delete it comes before the kill (agent.js, POST /jobs/playbacks).       *)
THEOREM PlayersAreListed == Spec => []PlayerIsListed
  <1>1. IInv => PlayerIsListed
    BY SameRunning DEF IInv, Player, PlayerIsListed, Play!RunningIsListed
  <1>2. QED BY <1>1, SpecIInv, PTL

(* With callers that wait, a job that no POST is working on plays at most  *)
(* once, if no listing has failed or passed over a record, no deletion has *)
(* failed and the agent has not restarted (agent.js, POST /jobs/playbacks, *)
(* S3Database.getS3DataWithKey).                                           *)
THEOREM JobsPlayOnce == Spec => []PlaysOnce
  <1>1. ASSUME IInv, Play!Undisturbed, NEW j \in Jobs, Play!Idle(j)
        PROVE  Cardinality(Play!RunningOf(j)) <= 1
    <2>1. AtMostOne(j)
      BY <1>1 DEF IInv, JobSettled
    <2>2. CASE Play!RunningOf(j) = {}
      BY <2>2, FS_EmptySet
    <2>3. CASE Play!RunningOf(j) # {}
      <3>1. PICK q : q \in Play!RunningOf(j)
        BY <2>3
      <3>2. Play!RunningOf(j) = {q}
        BY <2>1, <3>1 DEF AtMostOne
      <3>3. Cardinality({q}) = 1
        BY FS_Singleton
      <3>4. QED BY <3>2, <3>3
    <2>4. QED BY <2>2, <2>3
  <1>2. IInv => PlaysOnce
    <2> SUFFICES ASSUME IInv, Play!Undisturbed, NEW j \in Jobs, Play!Idle(j)
                 PROVE  Play!Cardinality(Play!RunningOf(j)) <= 1
      BY DEF PlaysOnce, Play!PlaysOnce
    <2>1. Play!Cardinality(Play!RunningOf(j)) = Cardinality(Play!RunningOf(j))
      BY DEF Cardinality, Play!Cardinality
    <2>2. QED BY <1>1, <2>1
  <1>3. QED BY <1>2, SpecIInv, PTL

(* A DELETE that is answered with 204 or 404 leaves no player of its job,  *)
(* under the same conditions, which hold for its own listing too           *)
(* (agent.js, DELETE /playbacks/:jobId, S3Database.getS3DataWithKey).      *)
THEOREM StopsAreComplete == Spec => StopIsComplete
  <1>1. IInv /\ [Next]_vars => Play!StopLeavesNone
    <2> SUFFICES ASSUME IInv, [Next]_vars, Play!Undisturbed', NEW s \in Stops, spc[s] # spc'[s],
                        spc'[s] \in {"stopped", "not_found"},
                        NEW r \in Posts, job[r] = sjob[s]
                 PROVE  ~Running(r)'
      BY SameRunning DEF Play!StopLeavesNone
    <2> USE DEF IInv, TypeOK, Play!TypeOK
    <2>1. Play!ListToStop(s) \/ Play!AnswerStop(s)
      <3>1. CASE \E q \in Requests : Record(q) /\ UNCHANGED <<load, playVars>>
        BY <3>1 DEF playVars
      <3>2. CASE \E q \in Posts : Playback(q) /\ UNCHANGED <<load, recVars>>
        BY <3>2, PlaybackFrame
      <3>3. CASE \E u \in Stops : StopPlayback(u) /\ UNCHANGED <<load, recVars>>
        <4>1. StopPlayback(s)
          BY <3>3, StopFrame
        <4>2. QED BY <4>1 DEF StopPlayback, Play!HandleStop, Play!Stop, Play!KillToStop,
                             Play!DeleteToStop, Play!playVars, Play!stopVars
      <3>4. CASE Restart
        BY <3>4 DEF Restart, Play!RequestsLost
      <3>5. CASE UNCHANGED vars
        BY <3>5 DEF vars, playVars
      <3>6. QED BY <3>1, <3>2, <3>3, <3>4, <3>5 DEF Next
    <2>2. UNCHANGED <<pid, holder, restarts, serial>>
      BY <2>1 DEF Play!ListToStop, Play!AnswerStop, Play!jobVars, Play!processVars,
                  Play!ghosts
    <2>3. Play!Undisturbed /\ JobSettled /\ OneCall /\ Player(r)
      <3>1. StopPlayback(s)
        BY <2>1 DEF StopPlayback, Play!HandleStop
      <3>2. skipped' = skipped \/ skipped' = serial
        BY <3>1, StopFrame
      <3>3. Play!Undisturbed
        BY <2>2, <3>2 DEF Play!Undisturbed
      <3> QED BY <3>3 DEF Play!Undisturbed
    <2>4. ~Running(r)
      <3>1. CASE Play!ListToStop(s)
        <4>1. Play!RecordsOf(sjob[s]) = {} /\ Play!StopBusy(s)
          <5>1. ~skipped' /\ serial
            BY <2>2 DEF Play!Undisturbed
          <5>2. PICK found \in SUBSET records : Play!Listing(sjob[s], found) /\ found = {}
            BY <3>1 DEF Play!ListToStop
          <5>3. found = Play!RecordsOf(sjob[s])
            BY <5>1, <5>2, Listed
          <5> QED BY <3>1, <5>2, <5>3 DEF Play!ListToStop, Play!StopBusy
        <4>2. ~Play!PostBusy(r)
          BY <2>3, <4>1 DEF OneCall
        <4>3. r \notin records
          BY <4>1 DEF Play!RecordsOf
        <4>4. QED BY <2>3, <4>2, <4>3, Found
      <3>2. CASE Play!AnswerStop(s)
        BY <2>3, <3>2, SameRunning
        DEF Play!AnswerStop, Play!Stopped, JobSettled, Play!RunningOf
      <3>3. QED BY <2>1, <3>1, <3>2
    <2>5. QED BY <2>2, <2>4 DEF Running
  <1>2. QED BY <1>1, SpecIInv, PTL DEF Spec, StopIsComplete
=============================================================================
