--------------------------- MODULE ManagerProofs ----------------------------
(***************************************************************************)
(* For every number of requests, whatever fails and whenever the process   *)
(* ends: the jobs the agent was asked for are in the database, and a       *)
(* recording that the client was told of without a warning is complete.    *)
(*                                                                         *)
(* A handler has stored something by the time it comes to a point, and     *)
(* knows what it was asked for. The invariant says so point by point       *)
(* (AtPoint); objects are never deleted, so that what other handlers do in *)
(* between, and what a restart finds, cannot take it back.                 *)
(***************************************************************************)
EXTENDS Manager, FiniteSetTheorems, TLAPS

(* What a handler at a point has been asked for, and has done.             *)
AtPoint(r) ==
    /\ pc[r] = "profile" => kind[r] = "record"
    /\ pc[r] = "idle" => r \notin pools
    /\ pc[r] = "put" => kind[r] \in {"pool", "keyless", "record", "play"}
    /\ pc[r] = "agent" =>
          \/ kind[r] = "record" /\ r \in recordings
          \/ kind[r] = "play" /\ r \in playbacks
    /\ pc[r] = "asset" => kind[r] = "record" /\ r \in recordings
    /\ pc[r] \in {"put", "agent", "asset"} /\ kind[r] = "record" =>
          profile[r] = Default \/ Known(r)
    /\ pc[r] \notin {"done", "lost"} => answer[r] = "none"

IInv ==
    /\ TypeOK /\ JobsAreRecorded /\ PlainSuccessComplete
    /\ \A r \in Requests : AtPoint(r)

-----------------------------------------------------------------------------

(* What is counted is no more than there is.                               *)
LEMMA CountBound ==
    ASSUME TypeOK, NEW seen \in SUBSET recordings
    PROVE  Cardinality(seen) \in 0..Cardinality(Requests)
  <1>1. seen \subseteq Requests /\ IsFiniteSet(Requests)
    BY ManagerAssumption DEF TypeOK
  <1>2. IsFiniteSet(seen) /\ Cardinality(seen) <= Cardinality(Requests)
    BY <1>1, FS_Subset
  <1>3. Cardinality(seen) \in Nat /\ Cardinality(Requests) \in Nat
    BY <1>1, <1>2, FS_CardinalityType
  <1>4. QED BY <1>2, <1>3

LEMMA RequestStep ==
    ASSUME IInv, NEW r \in Requests, Request(r)
    PROVE  IInv'
  <1> USE ManagerAssumption DEF Request, Goto, process, db
  <1> PICK k \in Kinds, p \in Requests \cup {Default} :
         /\ kind' = [kind EXCEPT ![r] = k]
         /\ profile' = [profile EXCEPT ![r] = p]
         /\ pc' = [pc EXCEPT ![r] = FirstPoint(r, k)]
         /\ k # "record" => p = Default
    OBVIOUS
  <1>1. k \in AllKinds /\ pc[r] = "idle" /\ profile'[r] = p /\ kind'[r] = k
    BY DEF IInv, TypeOK
  <1>2. /\ FirstPoint(r, k) \in {"put", "profile", "get", "count"}
        /\ FirstPoint(r, k) = "profile" => k = "record"
        /\ FirstPoint(r, k) = "put" =>
              k \in {"pool", "keyless", "play"} \/ (k = "record" /\ p = Default)
    BY <1>1 DEF FirstPoint, AllKinds
  <1> HIDE DEF FirstPoint
  <1>3. TypeOK'
    BY <1>1, <1>2 DEF IInv, TypeOK, Underway
  <1>4. JobsAreRecorded'
    BY DEF IInv, JobsAreRecorded
  <1>5. \A q \in Requests \ {r} : Known(q) => Known(q)'
    <2>1. r \notin pools
      BY <1>1 DEF IInv, AtPoint
    <2> QED BY <2>1 DEF IInv, TypeOK, Known
  <1>6. PlainSuccessComplete'
    BY <1>1, <1>5 DEF IInv, TypeOK, PlainSuccessComplete, AtPoint
  <1>7. \A q \in Requests : AtPoint(q)'
    BY <1>1, <1>2, <1>5 DEF IInv, TypeOK, AtPoint
  <1>8. QED BY <1>3, <1>4, <1>6, <1>7 DEF IInv

(* What a handler may do without ending the process, and the agent.        *)
Step(r) ==
    \/ CheckProfile(r) \/ RefusePool(r) \/ Put(r) \/ PutFails(r)
    \/ AgentStarts(r) \/ AgentRefuses(r) \/ AgentFails(r) \/ JobEnds(r)
    \/ PutAsset(r) \/ Lookup(r) \/ CountRecordings(r) \/ Report(r)
    \/ StatsFail(r)

LEMMA StepTypes ==
    ASSUME TypeOK, NEW r \in Requests, Step(r)
    PROVE  TypeOK'
  <1> USE DEF TypeOK, Underway, Answer, Goto, process, ask, db, Warned
  <1>1. CASE CheckProfile(r)
    <2>1. CASE Goto(r, "put") /\ UNCHANGED answer
      BY <1>1, <2>1 DEF CheckProfile
    <2>2. CASE Answer(r, "400")
      BY <1>1, <2>2 DEF CheckProfile
    <2>3. QED BY <1>1, <2>1, <2>2 DEF CheckProfile
  <1>2. CASE RefusePool(r)
    BY <1>2 DEF RefusePool
  <1>3. CASE Put(r)
    BY <1>3 DEF Put, Store
  <1>4. CASE PutFails(r)
    BY <1>4 DEF PutFails, Store
  <1>5. CASE AgentStarts(r)
    BY <1>5 DEF AgentStarts, AgentAnswered
  <1>6. CASE AgentRefuses(r)
    BY <1>6 DEF AgentRefuses, AgentAnswered
  <1>7. CASE AgentFails(r)
    BY <1>7 DEF AgentFails, Warned
  <1>8. CASE JobEnds(r)
    BY <1>8 DEF JobEnds
  <1>9. CASE PutAsset(r)
    BY <1>9 DEF PutAsset
  <1>10. CASE Lookup(r)
    BY <1>10 DEF Lookup
  <1>11. CASE CountRecordings(r)
    <2>1. PICK n \in 0..Cardinality(Requests) : count' = [count EXCEPT ![r] = n]
      BY <1>11, CountBound DEF CountRecordings
    <2>2. QED BY <1>11, <2>1 DEF CountRecordings
  <1>12. CASE Report(r)
    BY <1>12 DEF Report
  <1>13. CASE StatsFail(r)
    BY <1>13 DEF StatsFail
  <1>14. QED
    BY <1>1, <1>2, <1>3, <1>4, <1>5, <1>6, <1>7, <1>8, <1>9, <1>10, <1>11, <1>12, <1>13
    DEF Step

(* Nobody but the handler of a request touches what is its own, and        *)
(* nothing leaves the database.                                            *)
LEMMA StepFrame ==
    ASSUME TypeOK, NEW r \in Requests, Step(r)
    PROVE  /\ UNCHANGED ask
           /\ \A q \in Requests \ {r} :
                 pc'[q] = pc[q] /\ answer'[q] = answer[q] /\ job'[q] = job[q]
           /\ pools \subseteq pools' /\ recordings \subseteq recordings'
           /\ assets \subseteq assets' /\ playbacks \subseteq playbacks'
           /\ assets' \subseteq assets \cup {r} /\ pools' \subseteq pools \cup {r}
  <1> USE DEF TypeOK, Answer, Goto, process, ask, db, Warned
  <1>1. CASE CheckProfile(r)
    BY <1>1 DEF CheckProfile, Known
  <1>2. CASE RefusePool(r)
    BY <1>2 DEF RefusePool
  <1>3. CASE Put(r)
    BY <1>3 DEF Put, Store
  <1>4. CASE PutFails(r)
    BY <1>4 DEF PutFails, Store
  <1>5. CASE AgentStarts(r)
    BY <1>5 DEF AgentStarts, AgentAnswered
  <1>6. CASE AgentRefuses(r)
    BY <1>6 DEF AgentRefuses, AgentAnswered
  <1>7. CASE AgentFails(r)
    BY <1>7 DEF AgentFails, Warned
  <1>8. CASE JobEnds(r)
    BY <1>8 DEF JobEnds
  <1>9. CASE PutAsset(r)
    BY <1>9 DEF PutAsset
  <1>10. CASE Lookup(r)
    BY <1>10 DEF Lookup
  <1>11. CASE CountRecordings(r)
    BY <1>11 DEF CountRecordings
  <1>12. CASE Report(r)
    BY <1>12 DEF Report
  <1>13. CASE StatsFail(r)
    BY <1>13 DEF StatsFail
  <1>14. QED
    BY <1>1, <1>2, <1>3, <1>4, <1>5, <1>6, <1>7, <1>8, <1>9, <1>10, <1>11, <1>12, <1>13
    DEF Step

(* The point the handler comes to, its job and its answer.                 *)
LEMMA StepOwn ==
    ASSUME TypeOK, JobsAreRecorded, NEW r \in Requests, AtPoint(r), Step(r)
    PROVE  /\ AtPoint(r)'
           /\ job'[r] # "none" => r \in recordings' \cup playbacks'
           /\ answer'[r] = "201" /\ kind[r] = "record" =>
                 \/ answer[r] = "201"
                 \/ r \in recordings' \cap assets' /\ (profile[r] = Default \/ Known(r)')
           /\ r \in assets' => r \in assets \/ r \in recordings'
  <1> USE DEF TypeOK, JobsAreRecorded, AtPoint, Answer, Goto, process, ask, db, Warned, Known
  <1>1. CASE CheckProfile(r)
    BY <1>1 DEF CheckProfile, Known
  <1>2. CASE RefusePool(r)
    BY <1>2 DEF RefusePool
  <1>3. CASE Put(r)
    BY <1>3 DEF Put, Store
  <1>4. CASE PutFails(r)
    BY <1>4 DEF PutFails, Store
  <1>5. CASE AgentStarts(r)
    BY <1>5 DEF AgentStarts, AgentAnswered
  <1>6. CASE AgentRefuses(r)
    BY <1>6 DEF AgentRefuses, AgentAnswered
  <1>7. CASE AgentFails(r)
    BY <1>7 DEF AgentFails, Warned
  <1>8. CASE JobEnds(r)
    BY <1>8 DEF JobEnds
  <1>9. CASE PutAsset(r)
    BY <1>9 DEF PutAsset
  <1>10. CASE Lookup(r)
    BY <1>10 DEF Lookup
  <1>11. CASE CountRecordings(r)
    BY <1>11 DEF CountRecordings
  <1>12. CASE Report(r)
    BY <1>12 DEF Report
  <1>13. CASE StatsFail(r)
    BY <1>13 DEF StatsFail
  <1>14. QED
    BY <1>1, <1>2, <1>3, <1>4, <1>5, <1>6, <1>7, <1>8, <1>9, <1>10, <1>11, <1>12, <1>13
    DEF Step

LEMMA HandlerStep ==
    ASSUME IInv, NEW r \in Requests, Step(r)
    PROVE  IInv'
  <1>1. TypeOK /\ JobsAreRecorded /\ PlainSuccessComplete /\ \A q \in Requests : AtPoint(q)
    BY DEF IInv
  <1>2. TypeOK'
    BY <1>1, StepTypes
  <1>3. JobsAreRecorded'
    BY <1>1, StepFrame, StepOwn DEF JobsAreRecorded
  <1>4. PlainSuccessComplete'
    BY <1>1, StepFrame, StepOwn DEF PlainSuccessComplete, Known, ask
  <1>5. ASSUME NEW q \in Requests, q # r PROVE AtPoint(q)'
    <2>1. q \in pools' => q \in pools
      BY <1>1, <1>5, StepFrame
    <2> QED BY <1>1, <1>5, <2>1, StepFrame DEF AtPoint, Known, ask
  <1>6. QED BY <1>1, <1>2, <1>3, <1>4, <1>5, StepOwn DEF IInv

(* The process ends, of itself or killed.                                  *)
LEMMA EndsFrame ==
    ASSUME TypeOK, NEW done \in SUBSET Requests, ProcessEnds(done),
           \A r \in done : pc[r] = "asset"
    PROVE  /\ up' \in BOOLEAN /\ crashes' \in Nat
           /\ pc' \in [Requests -> Underway \cup {"idle", "done", "lost"}]
           /\ \A q \in Requests :
                 \/ pc'[q] = pc[q] /\ pc[q] \in {"idle", "done", "lost"}
                 \/ pc'[q] = "lost" /\ q \notin done
                 \/ pc'[q] = "done" /\ q \in done
  <1>1. ASSUME NEW q \in Requests
        PROVE  /\ pc'[q] \in Underway \cup {"idle", "done", "lost"}
               /\ \/ pc'[q] = pc[q] /\ pc[q] \in {"idle", "done", "lost"}
                  \/ pc'[q] = "lost" /\ q \notin done
                  \/ pc'[q] = "done" /\ q \in done
    <2>1. pc'[q] = CASE q \in done -> "done"
                     [] q \notin done /\ pc[q] \in Underway -> "lost"
                     [] OTHER -> pc[q]
      BY DEF ProcessEnds
    <2>2. CASE q \in done
      BY <2>1, <2>2
    <2>3. CASE q \notin done /\ pc[q] \in Underway
      BY <2>1, <2>3
    <2>4. CASE q \notin done /\ pc[q] \notin Underway
      BY <2>1, <2>4 DEF TypeOK
    <2>5. QED BY <2>2, <2>3, <2>4
  <1>2. pc' \in [Requests -> Underway \cup {"idle", "done", "lost"}]
    BY <1>1 DEF ProcessEnds
  <1>3. up' \in BOOLEAN /\ crashes' \in Nat
    <2>1. up' = FALSE /\ crashes' = crashes + 1
      BY DEF ProcessEnds
    <2>2. up' \in BOOLEAN
      BY <2>1
    <2>3. crashes' \in Nat
      BY <2>1 DEF TypeOK
    <2>4. QED BY <2>2, <2>3
  <1>4. QED BY <1>1, <1>2, <1>3

(* None, or the one that has answered, is done; the others are lost.       *)
LEMMA EndStep ==
    ASSUME IInv,
           \/ Kill
           \/ \E r \in Requests : PutAssetFails(r) \/ Cancel(r)
    PROVE  IInv'
  <1>1. PICK done \in SUBSET Requests :
           /\ ProcessEnds(done) /\ \A r \in done : pc[r] = "asset"
           /\ UNCHANGED <<ask, pools, recordings, playbacks, job, count>>
           /\ answer' = [r \in Requests |-> IF r \in done THEN "500" ELSE answer[r]]
           /\ assets \subseteq assets' /\ \A r \in assets' \ assets : r \in done
    <2>1. ASSUME Kill \/ \E r \in Requests : Cancel(r)
          PROVE  /\ ProcessEnds({})
                 /\ UNCHANGED <<ask, pools, recordings, playbacks, job, count>>
                 /\ answer' = answer /\ assets' = assets
      BY <2>1 DEF Kill, Cancel, db
    <2>2. ASSUME NEW r \in Requests, PutAssetFails(r)
          PROVE  /\ ProcessEnds({r}) /\ pc[r] = "asset"
                 /\ UNCHANGED <<ask, pools, recordings, playbacks, job, count>>
                 /\ answer' = [answer EXCEPT ![r] = "500"]
                 /\ assets' = assets \/ assets' = assets \cup {r}
      BY <2>2 DEF PutAssetFails
    <2>3. CASE Kill \/ \E r \in Requests : Cancel(r)
      <3>1. {} \in SUBSET Requests /\ answer = [r \in Requests |-> answer[r]]
        BY DEF IInv, TypeOK
      <3>2. QED BY <2>1, <2>3, <3>1
    <2>4. CASE \E r \in Requests : PutAssetFails(r)
      <3>1. PICK r \in Requests : PutAssetFails(r)
        BY <2>4
      <3>2. answer' = [q \in Requests |-> IF q \in {r} THEN "500" ELSE answer[q]]
        BY <2>2, <3>1 DEF IInv, TypeOK
      <3>3. /\ ProcessEnds({r}) /\ \A q \in {r} : pc[q] = "asset"
            /\ UNCHANGED <<ask, pools, recordings, playbacks, job, count>>
            /\ assets \subseteq assets' /\ \A q \in assets' \ assets : q \in {r}
        BY <2>2, <3>1
      <3>4. WITNESS {r} \in SUBSET Requests
      <3>5. QED BY <3>2, <3>3
    <2>5. QED BY <2>3, <2>4
  <1>2. /\ up' \in BOOLEAN /\ crashes' \in Nat
        /\ pc' \in [Requests -> Underway \cup {"idle", "done", "lost"}]
        /\ \A q \in Requests :
              \/ pc'[q] = pc[q] /\ pc[q] \in {"idle", "done", "lost"}
              \/ pc'[q] = "lost" /\ q \notin done
              \/ pc'[q] = "done" /\ q \in done
    BY <1>1, EndsFrame DEF IInv
  <1>3. TypeOK'
    BY <1>1, <1>2 DEF IInv, TypeOK, ask, Warned
  <1>4. JobsAreRecorded'
    BY <1>1 DEF IInv, JobsAreRecorded
  <1>5. PlainSuccessComplete'
    BY <1>1 DEF IInv, PlainSuccessComplete, AtPoint, Known, ask
  <1>6. \A q \in Requests : AtPoint(q)'
    BY <1>1, <1>2 DEF IInv, AtPoint, Known, ask
  <1>7. QED BY <1>3, <1>4, <1>5, <1>6 DEF IInv

LEMMA Inductive == Spec => []IInv
  <1>1. Init => IInv
    <2>1. IsFiniteSet(Requests) => 0 \in 0..Cardinality(Requests)
      BY FS_CardinalityType
    <2>2. QED
      BY <2>1, ManagerAssumption
         DEF Init, IInv, TypeOK, AtPoint, JobsAreRecorded, PlainSuccessComplete
  <1>2. IInv /\ [Next]_vars => IInv'
    <2> SUFFICES ASSUME IInv, [Next]_vars PROVE IInv'
      OBVIOUS
    <2>1. CASE Restart \/ UNCHANGED vars
      <3>1. /\ up' \in BOOLEAN /\ UNCHANGED crashes
            /\ UNCHANGED <<kind, profile, pc, answer, job, count>>
            /\ UNCHANGED <<pools, recordings, assets, playbacks>>
        BY <2>1 DEF Restart, vars, process, ask, db, IInv, TypeOK
      <3>2. TypeOK'
        BY <3>1 DEF IInv, TypeOK
      <3>3. JobsAreRecorded' /\ PlainSuccessComplete'
        BY <3>1 DEF IInv, JobsAreRecorded, PlainSuccessComplete, Known
      <3>4. \A r \in Requests : AtPoint(r)'
        BY <3>1 DEF IInv, AtPoint, Known
      <3> QED BY <3>2, <3>3, <3>4 DEF IInv
    <2>2. QED BY <2>1, RequestStep, HandlerStep, EndStep DEF Next, Handle, Step
  <1>3. QED BY <1>1, <1>2, PTL DEF Spec

(* Every variable keeps its type; a handler that returned has answered.    *)
THEOREM TypeCorrect == Spec => []TypeOK
  <1>1. IInv => TypeOK
    BY DEF IInv
  <1>2. QED BY <1>1, Inductive, PTL

(* No job runs at the agent that the database does not know, for any       *)
(* number of requests, faults and ends of the process.                     *)
THEOREM JobsAlwaysRecorded == Spec => []JobsAreRecorded
  <1>1. IInv => JobsAreRecorded
    BY DEF IInv
  <1>2. QED BY <1>1, Inductive, PTL

(* Who is told 201 without a warning has the recording, its asset and its  *)
(* pool, with the credentials.                                             *)
THEOREM PlainSuccessAlwaysComplete == Spec => []PlainSuccessComplete
  <1>1. IInv => PlainSuccessComplete
    BY DEF IInv
  <1>2. QED BY <1>1, Inductive, PTL
=============================================================================
