------------------------------ MODULE Manager -------------------------------
(***************************************************************************)
(* The manager (recording-playback-api/manager.js): requests of clients,   *)
(* each a handler that waits for the database and for the agent, all in    *)
(* one process. A handler that throws rejects a promise nobody awaits:     *)
(* Express 4 does not see it, nothing handles unhandledRejection, and Node *)
(* ends the process, with every request that is under way. The container   *)
(* is restarted; the database is all it finds.                             *)
(*                                                                         *)
(* Objects have the identifier of the request that made them.              *)
(***************************************************************************)
EXTENDS Integers, FiniteSets

CONSTANTS
    Requests,    \* the requests of the clients
    Default,     \* the profile that needs no pool
    Kinds,       \* what the clients ask for
    Faults,      \* what may go wrong: "put", "agent", "refuse", "read", "kill"
    MaxCrashes   \* bound: ends of the process before it is killed again

(* A "keyless" request makes a pool whose credentials lack a key.          *)
AllKinds == {"pool", "keyless", "record", "play", "lookup", "cancel", "stats"}

ASSUME ManagerAssumption ==
    /\ Default \notin Requests /\ IsFiniteSet(Requests)
    /\ Kinds \subseteq AllKinds
    /\ Faults \subseteq {"put", "agent", "refuse", "read", "kill"}
    /\ MaxCrashes \in Nat

VARIABLES
    up,         \* the process runs
    crashes,    \* how often it has ended
    kind,       \* what a request asks for
    profile,    \* destinationProfile of a recording
    pc,         \* program point of the handler of a request
    answer,     \* the status the client has received
    pools, recordings, assets, playbacks,  \* the objects in the database
    job,        \* what the agent makes of a recording or a playback
    count       \* concurrentRecordings of a stats request

process == <<up, crashes>>
ask     == <<kind, profile>>
db      == <<pools, recordings, assets, playbacks>>
vars == <<process, ask, pc, answer, db, job, count>>

Init ==
    /\ up = TRUE /\ crashes = 0
    /\ kind = [r \in Requests |-> "none"]
    /\ profile = [r \in Requests |-> Default]
    /\ pc = [r \in Requests |-> "idle"]
    /\ answer = [r \in Requests |-> "none"]
    /\ pools = {} /\ recordings = {} /\ assets = {} /\ playbacks = {}
    /\ job = [r \in Requests |-> "none"]
    /\ count = [r \in Requests |-> 0]

-----------------------------------------------------------------------------

Goto(r, point) == pc' = [pc EXCEPT ![r] = point]

(* The answer goes to the client and the handler returns.                  *)
Answer(r, status) ==
    /\ answer' = [answer EXCEPT ![r] = status]
    /\ Goto(r, "done")

(* The process ends with all its handlers; their clients get no answer,    *)
(* apart from those that already have one.                                 *)
Underway == {"put", "profile", "agent", "asset", "get", "count", "report"}
ProcessEnds(done) ==
    /\ up' = FALSE /\ crashes' = crashes + 1
    /\ pc' = [r \in Requests |->
                CASE r \in done -> "done"
                  [] r \notin done /\ pc[r] \in Underway -> "lost"
                  [] OTHER -> pc[r]]

FirstPoint(r, k) ==
    CASE k \in {"pool", "keyless", "play"} -> "put"
      [] k = "record" -> IF profile'[r] = Default THEN "put" ELSE "profile"
      [] k \in {"lookup", "cancel"} -> "get"
      [] k = "stats" -> "count"

Request(r) ==
    /\ up /\ pc[r] = "idle"
    /\ \E k \in Kinds, p \in Requests \cup {Default} :
         /\ k # "record" => p = Default
         /\ kind' = [kind EXCEPT ![r] = k]
         /\ profile' = [profile EXCEPT ![r] = p]
         /\ Goto(r, FirstPoint(r, k))
    /\ UNCHANGED <<process, answer, db, job, count>>

(* getPoolCredentials answers null for a pool that is not there or lacks a *)
(* key, and whatever goes wrong.                                           *)
Known(r) == profile[r] \in pools /\ kind[profile[r]] # "keyless"
CheckProfile(r) ==
    /\ pc[r] = "profile"
    /\ \/ Known(r) /\ Goto(r, "put") /\ UNCHANGED answer
       \/ (~Known(r) \/ "read" \in Faults) /\ Answer(r, "400")
    /\ UNCHANGED <<process, ask, db, job, count>>

(* Where the object of a request is stored, whether or not the handler     *)
(* learns of it.                                                           *)
Store(r) ==
    /\ pools' = IF kind[r] \in {"pool", "keyless"} THEN pools \cup {r} ELSE pools
    /\ recordings' = IF kind[r] = "record" THEN recordings \cup {r} ELSE recordings
    /\ playbacks' = IF kind[r] = "play" THEN playbacks \cup {r} ELSE playbacks
    /\ UNCHANGED assets

(* A pool without credentials is refused.                                  *)
RefusePool(r) ==
    /\ pc[r] = "put" /\ kind[r] = "pool"
    /\ Answer(r, "400")
    /\ UNCHANGED <<process, ask, db, job, count>>

BugPutFails(r) ==
    /\ pc[r] = "put" /\ "put" \in Faults
    /\ Goto(r, "agent") /\ UNCHANGED <<process, ask, answer, db, job, count>>

Put(r) ==
    /\ pc[r] = "put" /\ Store(r)
    /\ IF kind[r] \in {"pool", "keyless"}
       THEN Answer(r, "201")
       ELSE Goto(r, "agent") /\ UNCHANGED answer
    /\ UNCHANGED <<process, ask, job, count>>

PutFails(r) ==
    /\ pc[r] = "put" /\ "put" \in Faults
    /\ Store(r) \/ UNCHANGED db
    /\ Answer(r, "500")
    /\ UNCHANGED <<process, ask, job, count>>

-----------------------------------------------------------------------------
(* The agent is asked to start the job. Only a call that fails is noticed: *)
(* the status of its answer is not looked at.                              *)

AgentAnswered(r) ==
    /\ IF kind[r] = "play" THEN Answer(r, "201")
                           ELSE Goto(r, "asset") /\ UNCHANGED answer
    /\ UNCHANGED <<process, ask, db, count>>

AgentStarts(r) ==
    /\ pc[r] = "agent" /\ job' = [job EXCEPT ![r] = "running"]
    /\ AgentAnswered(r)

AgentRefuses(r) ==
    /\ pc[r] = "agent" /\ "refuse" \in Faults
    /\ AgentAnswered(r) /\ UNCHANGED job

(* fetch throws: the agent has not been reached, or its answer has not.    *)
BugWarned == "201"
Warned == "201 with a warning"
AgentFails(r) ==
    /\ pc[r] = "agent" /\ "agent" \in Faults
    /\ job' = job \/ job' = [job EXCEPT ![r] = "running"]
    /\ Answer(r, Warned)
    /\ UNCHANGED <<process, ask, db, count>>

JobEnds(r) ==
    /\ job[r] = "running" /\ job' = [job EXCEPT ![r] = "ended"]
    /\ UNCHANGED <<process, ask, pc, answer, db, count>>

PutAsset(r) ==
    /\ pc[r] = "asset" /\ assets' = assets \cup {r}
    /\ Answer(r, "201")
    /\ UNCHANGED <<process, ask, pools, recordings, playbacks, job, count>>

(* The handler answers 500 and goes on to answer 201. That throws, as do   *)
(* the answers of the two handlers of errors around it.                    *)
PutAssetFails(r) ==
    /\ pc[r] = "asset" /\ "put" \in Faults
    /\ assets' = assets \/ assets' = assets \cup {r}
    /\ ProcessEnds({r})
    /\ answer' = [answer EXCEPT ![r] = "500"]
    /\ UNCHANGED <<ask, pools, recordings, playbacks, job, count>>

-----------------------------------------------------------------------------
(* S3Database.get names a variable that does not exist, and so does its    *)
(* handler of errors: it always throws. The routes that look at one object *)
(* answer 500, among them the cancelling of a playback and the deletion of *)
(* an asset; the cancelling of a recording throws again.                   *)

Lookup(r) ==
    /\ pc[r] = "get" /\ kind[r] = "lookup"
    /\ Answer(r, "500")
    /\ UNCHANGED <<process, ask, db, job, count>>

Cancel(r) ==
    /\ pc[r] = "get" /\ kind[r] = "cancel"
    /\ ProcessEnds({})
    /\ UNCHANGED <<ask, answer, db, job, count>>

(* The count of the recordings that are marked active: no one unmarks one. *)
(* An object that cannot be read is passed over.                           *)
CountRecordings(r) ==
    /\ pc[r] = "count"
    /\ \E seen \in SUBSET recordings :
         /\ "read" \in Faults \/ seen = recordings
         /\ count' = [count EXCEPT ![r] = Cardinality(seen)]
    /\ Goto(r, "report")
    /\ UNCHANGED <<process, ask, answer, db, job>>

Report(r) ==
    /\ pc[r] = "report" /\ Answer(r, "200")
    /\ UNCHANGED <<process, ask, db, job, count>>

(* One of the listings fails.                                              *)
StatsFail(r) ==
    /\ pc[r] \in {"count", "report"} /\ "read" \in Faults
    /\ Answer(r, "500")
    /\ UNCHANGED <<process, ask, db, job, count>>

-----------------------------------------------------------------------------

Kill ==
    /\ up /\ "kill" \in Faults /\ crashes < MaxCrashes /\ ProcessEnds({})
    /\ UNCHANGED <<ask, answer, db, job, count>>

Restart ==
    /\ ~up /\ up' = TRUE
    /\ UNCHANGED <<crashes, ask, pc, answer, db, job, count>>

Handle(r) ==
    \/ CheckProfile(r) \/ RefusePool(r) \/ Put(r) \/ PutFails(r)
    \/ AgentStarts(r) \/ AgentRefuses(r) \/ AgentFails(r)
    \/ PutAsset(r) \/ PutAssetFails(r)
    \/ Lookup(r) \/ Cancel(r) \/ CountRecordings(r) \/ Report(r)
    \/ StatsFail(r)

AllDone == \A r \in Requests : pc[r] \in {"done", "lost"}

Next ==
    \/ \E r \in Requests : Request(r) \/ Handle(r) \/ JobEnds(r)
    \/ Kill \/ Restart
    \/ AllDone /\ UNCHANGED vars

(* The event loop runs every handler whose call has returned, and a call   *)
(* to S3 or to the agent returns or throws.                                *)
Spec == Init /\ [][Next]_vars /\ \A r \in Requests : WF_vars(Handle(r))

-----------------------------------------------------------------------------
(* Every variable has its type, and a handler that has returned has        *)
(* answered.                                                               *)
TypeOK ==
    /\ up \in BOOLEAN /\ crashes \in Nat
    /\ kind \in [Requests -> AllKinds \cup {"none"}]
    /\ profile \in [Requests -> Requests \cup {Default}]
    /\ pc \in [Requests -> Underway \cup {"idle", "done", "lost"}]
    /\ answer \in [Requests -> {"none", "200", "201", Warned, "400", "500"}]
    /\ pools \cup recordings \cup assets \cup playbacks \subseteq Requests
    /\ job \in [Requests -> {"none", "running", "ended"}]
    /\ count \in [Requests -> 0..Cardinality(Requests)]
    /\ \A r \in Requests : pc[r] = "done" => answer[r] # "none"

(* Whatever fails and whenever the process ends, no job runs at the agent  *)
(* that the database does not know: it could not be found or stopped.      *)
JobsAreRecorded ==
    \A r \in Requests : job[r] # "none" => r \in recordings \cup playbacks

(* A recording that the client was told of without a warning is in the     *)
(* database, and so are its asset and the pool it records into, with its   *)
(* credentials. Assets are of recordings only.                             *)
PlainSuccessComplete ==
    /\ \A r \in Requests : answer[r] = "201" /\ kind[r] = "record" =>
          r \in recordings \cap assets /\ (profile[r] = Default \/ Known(r))
    /\ assets \subseteq recordings

(* Every request is answered (the routes document an answer for each).     *)
RequestsAnswered == \A r \in Requests : pc[r] # "idle" ~> answer[r] # "none"
=============================================================================
