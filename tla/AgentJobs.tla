----------------------------- MODULE AgentJobs -----------------------------
(***************************************************************************)
(* What the recordings and the playbacks of the agent                      *)
(* (src/recording-playback-api/agent.js) have in common: the processes     *)
(* they spawn, the process ids they remember and send signals to, the      *)
(* timers and close handlers of Node, and the restart that loses them.     *)
(*                                                                         *)
(* Node runs one callback at a time, so a step is what a callback does     *)
(* between two awaits. An owner is the POST of a job and stands for the    *)
(* process it spawns, too. The map activeTimers is left out: the code that *)
(* reads it comes after a call that always throws (StopRecording), or asks *)
(* it for an id no record has (DeleteToStop).                              *)
(***************************************************************************)
EXTENDS Integers, FiniteSets

CONSTANTS
    Owners,      \* the POSTs of recordings and of playbacks
    Timed,       \* the owners whose job has a duration
    MaxPid,      \* bound: the process ids are 1..MaxPid
    NoOne,
    PidReuse,    \* whether the pid of a dead process may be given out again
                 \* before the container starts anew
    Faults,      \* what may go wrong (a subset of Fault)
    MaxRestarts  \* bound: restarts of the agent

Fault == {"credentials", "put", "delete", "log", "url_put", "recorder",
          "playlist", "list", "item", "player"}

ASSUME JobsAssumption ==
    /\ NoOne \notin Owners /\ Timed \subseteq Owners
    /\ MaxPid \in Nat
    /\ PidReuse \in BOOLEAN /\ Faults \subseteq Fault /\ MaxRestarts \in Nat

VARIABLES
    pid,       \* the pid of the process of an owner, 0 before it is spawned
    holder,    \* the process table: the owner whose process runs under a pid
    lastPid,   \* the highest pid given out
    child,     \* the owners whose close event Node has still to dispatch
    watch,     \* their close handlers
    timer,     \* their timeouts
    restarts

processVars == <<pid, holder, lastPid, child>>
jobVars == <<processVars, watch, timer, restarts>>

JobsInit ==
    /\ pid = [r \in Owners |-> 0]
    /\ holder = [p \in 1..MaxPid |-> NoOne]
    /\ lastPid = 0
    /\ child = {}
    /\ watch = [r \in Owners |-> "none"]
    /\ timer = [r \in Owners |-> "none"]
    /\ restarts = 0

Running(r) == pid[r] # 0 /\ holder[pid[r]] = r

FreePids ==
    {p \in 1..MaxPid : /\ holder[p] = NoOne
                       /\ p = lastPid + 1 \/ (PidReuse /\ p <= lastPid)}

SpawnProcess(r) == \E p \in FreePids :
    /\ pid' = [pid EXCEPT ![r] = p]
    /\ holder' = [holder EXCEPT ![p] = r]
    /\ lastPid' = IF p > lastPid THEN p ELSE lastPid
    /\ child' = child \cup {r}

(* process.kill(pid, SIGTERM), with the pid that r remembers: it reaches   *)
(* whatever runs under it, and throws (caught) when nothing does. Neither  *)
(* program has a handler for SIGTERM.                                      *)
BugKill(r) == UNCHANGED holder
Kill(r) == holder' = [holder EXCEPT ![pid[r]] = NoOne]

(* A process ends by itself: a bad interface, an error, the end of the     *)
(* playlist.                                                               *)
Exit(r) ==
    /\ Running(r)
    /\ holder' = [holder EXCEPT ![pid[r]] = NoOne]
    /\ UNCHANGED <<pid, lastPid, child, watch, timer, restarts>>

(* The timeout is armed, at 1.2 times the duration.                        *)
BugArmed(r) == timer
Armed(r) == IF r \in Timed THEN [timer EXCEPT ![r] = "armed"] ELSE timer

(* It kills the process and sends the deletion of the record.              *)
TimerFires(r) ==
    /\ timer[r] = "armed"
    /\ Kill(r)
    /\ timer' = [timer EXCEPT ![r] = "delete"]
    /\ UNCHANGED <<pid, lastPid, child, watch, restarts>>

(* The agent restarts, for instance because a recorder cannot be spawned   *)
(* and nobody handles that error. Timers and handlers are gone. Processes  *)
(* survive and are nobody's children, or the container starts anew: it has *)
(* no processes and counts its pids from the start.                        *)
JobsRestart ==
    /\ restarts < MaxRestarts /\ restarts' = restarts + 1
    /\ child' = {}
    /\ watch' = [r \in Owners |-> "none"]
    /\ timer' = [r \in Owners |->
                   IF timer[r] \in {"armed", "delete"} THEN "none" ELSE timer[r]]
    /\ \/ UNCHANGED <<holder, lastPid>>
       \/ holder' = [p \in 1..MaxPid |-> NoOne] /\ lastPid' = 0
    /\ UNCHANGED pid

JobsTypeOK ==
    /\ child \subseteq Owners
    /\ pid \in [Owners -> 0..MaxPid]
    /\ holder \in [1..MaxPid -> Owners \cup {NoOne}] /\ lastPid \in 0..MaxPid
    /\ watch \in [Owners -> {"none", "attached", "delete", "done"}]
    /\ timer \in [Owners -> {"none", "armed", "delete", "fired"}]
    /\ restarts \in 0..MaxRestarts
=============================================================================
