----------------------------- MODULE PartsProofs ----------------------------
(***************************************************************************)
(* The six parts, for every value of the constants. Each has an invariant  *)
(* of its own that its properties follow from:                             *)
(*                                                                         *)
(* IInv (PidTracker). NoCompoundingErrors is not inductive: a fault is     *)
(* counted when it happens and reported when the next packet of the stream *)
(* is taken in. The invariant carries what is owed in between              *)
(* (ErrorsPaid), and that nothing but a fault makes a packet owe           *)
(* (LossKnown).                                                            *)
(*                                                                         *)
(* StartInv (RecorderStart). A program that finds the bucket made between  *)
(* its look and its attempt has another one to blame, that came past it:   *)
(* said of the program before it fails.                                    *)
(*                                                                         *)
(* LogInv (UrlsLog). What the copy of a writer about to rename lacks has   *)
(* come into the log since it was read.                                    *)
(*                                                                         *)
(* LoopInv (TsExtract). Order is kept because what is left over is behind  *)
(* what came out; packets pass because a legal one is left over whole; and *)
(* the gaps still left over are counted with the packets that broke        *)
(* already: a cut pays for one of them, once.                              *)
(*                                                                         *)
(* AgentInv (AgentVod). What is combined is the segments of the hours that *)
(* could be read, in the order they were recorded.                         *)
(*                                                                         *)
(* IndexInv (VodIndex). While the index is fetched, the segments merged    *)
(* are those of the hours before the next (Filling); then sorted, and each *)
(* step plays or drops the first (Playing): the played are before those    *)
(* still there, and those gone were played, failed or out of the range.    *)
(***************************************************************************)
EXTENDS Parts, DataTheorems

-----------------------------------------------------------------------------
(* The tracker of the continuity counters.                                 *)

(* What is on the wire is the newest packet of its source.                 *)
Wire ==
    /\ copies = 0 => packet = Quiet
    /\ Counted => /\ packet.pid \in Pids /\ packet.cc = cc[packet.pid]
                  /\ copies = 2 => missing[packet.pid] > 0

Coming(p) == Counted /\ packet.pid = p

(* A packet that is missing and not on the wire was lost.                  *)
LossKnown ==
    \A p \in Pids :
        /\ missing[p] > 0 /\ ~Coming(p) => broken[p]
        /\ missing[p] > 1 => broken[p]
        /\ jumped[p] => broken[p] \/ (Coming(p) /\ packet.restart)

(* The second delivery of a packet is still to come.                       *)
Repeats(p) == Coming(p) /\ (copies = 2 \/ missing[p] = 0)

ErrorsPaid ==
    \A p \in Pids :
        /\ errors[p] <= faults[p]
        /\ broken[p] \/ Repeats(p) => errors[p] + 1 <= faults[p]
        /\ broken[p] /\ Repeats(p) => errors[p] + 2 <= faults[p]

IInv == TypeOK /\ TrackerFollows /\ Wire /\ LossKnown /\ ErrorsPaid

-----------------------------------------------------------------------------

(* The quiet wire carries nothing that counts. *)
LEMMA QuietFacts == Quiet \in Packets /\ (packet = Quiet => ~Counted)
  BY DEF Quiet, Packets, Counters, Counted, Refused

(* A step of process_packet, one of the three ways. *)
LEMMA StepKinds ==
    ASSUME TypeOK, [Next]_vars
    PROVE  \/ ProcessPacket
           \/ \E p \in Pids, n \in 0..2, restart, sized, sane \in BOOLEAN :
                SendPayload(p, n, restart, sized, sane)
           \/ \E p \in Pids \cup {NullPid}, sized, sane \in BOOLEAN :
                SendBare(p, sized, sane)
           \/ UNCHANGED vars
  BY DEF Next

(* The four-bit arithmetic of the counters. *)
LEMMA CounterArithmetic ==
    ASSUME NEW c \in Counters, NEW m \in Nat
    PROVE  /\ (c + 0) % 16 = c
           /\ (c + 1) % 16 \in Counters
           /\ (c + (m + 1)) % 16 = (((c + m) % 16) + 1) % 16
           /\ (c + m) % 16 = (c + 1) % 16 <=> m % 16 = 1
  BY DEF Counters

LEMMA InitEstablishes == Init => IInv
<1> SUFFICES ASSUME Init PROVE IInv
  OBVIOUS
<1>1. TypeOK
  BY QuietFacts DEF Init, TypeOK, Counters
<1>2. TrackerFollows
  BY DEF Init, TrackerFollows
<1>3. Wire
  BY QuietFacts DEF Init, Wire
<1>4. LossKnown /\ ErrorsPaid
  BY QuietFacts DEF Init, LossKnown, ErrorsPaid, Repeats, Coming
<1> QED
  BY <1>1, <1>2, <1>3, <1>4 DEF IInv

-----------------------------------------------------------------------------

(* Every step keeps the types. *)
LEMMA TypePreserved == TypeOK /\ [Next]_vars => TypeOK'
<1> SUFFICES ASSUME TypeOK, [Next]_vars PROVE TypeOK'
  OBVIOUS
<1>1. CASE ProcessPacket
  <2>1. copies' \in 0..2 /\ packet' \in Packets
    BY <1>1, QuietFacts DEF ProcessPacket, TypeOK
  <2>2. CASE Refuse \/ Skip
    BY <1>1, <2>1, <2>2 DEF ProcessPacket, Refuse, Skip, TypeOK
  <2>3. CASE TakeIn
    <3>1. packet.pid \in Pids /\ packet.cc \in Counters
      BY <2>3 DEF TakeIn, Counted, TypeOK, Packets
    <3>2. /\ DOMAIN continuity' \subseteq Pids
          /\ \A p \in DOMAIN continuity' : continuity'[p] \in Counters
      BY <2>3, <3>1 DEF TakeIn, Noted, TypeOK
    <3>3. result' \in Pids \cup {Ok, Invalid} /\ errors' \in [Pids -> Nat]
      BY <2>3, <3>1 DEF TakeIn, TypeOK
    <3>4. /\ missing' \in [Pids -> Nat]
          /\ broken' \in [Pids -> BOOLEAN] /\ jumped' \in [Pids -> BOOLEAN]
      BY <2>3, <3>1 DEF TakeIn, TypeOK
    <3> QED
      BY <1>1, <2>1, <3>2, <3>3, <3>4 DEF ProcessPacket, TypeOK
  <2> QED
    BY <1>1, <2>2, <2>3 DEF ProcessPacket
<1>2. ASSUME NEW p \in Pids, NEW n \in 0..2, NEW restart \in BOOLEAN,
             NEW sized \in BOOLEAN, NEW sane \in BOOLEAN,
             SendPayload(p, n, restart, sized, sane)
      PROVE  TypeOK'
  <2>1. PICK c \in Counters :
          /\ cc' = [cc EXCEPT ![p] = c]
          /\ packet' = IF n = 0 THEN Quiet
                       ELSE [pid |-> p, cc |-> c, payload |-> TRUE,
                             restart |-> restart, sized |-> sized, sane |-> sane]
    BY <1>2 DEF SendPayload
  <2>2. packet' \in Packets /\ cc' \in [Pids -> Counters] /\ copies' \in 0..2
    BY <1>2, <2>1, QuietFacts DEF SendPayload, TypeOK, Packets
  <2>3. missing' \in [Pids -> Nat]
    BY <1>2 DEF SendPayload, TypeOK
  <2>4. broken' \in [Pids -> BOOLEAN] /\ jumped' \in [Pids -> BOOLEAN]
    BY <1>2 DEF SendPayload, TypeOK
  <2>5. faults' \in [Pids -> Nat]
    BY <1>2 DEF SendPayload, TypeOK
  <2> QED
    BY <1>2, <2>2, <2>3, <2>4, <2>5 DEF SendPayload, tracker, TypeOK
<1>3. ASSUME NEW p \in Pids \cup {NullPid}, NEW sized \in BOOLEAN,
             NEW sane \in BOOLEAN, SendBare(p, sized, sane)
      PROVE  TypeOK'
  BY <1>3 DEF SendBare, tracker, TypeOK, Packets, Counters
<1>4. CASE UNCHANGED vars
  BY <1>4 DEF vars, source, tracker, TypeOK
<1> QED
  BY <1>1, <1>2, <1>3, <1>4, StepKinds

(* Taking a packet in settles what its stream owed. *)
LEMMA TakeInPreserves ==
    ASSUME IInv, ProcessPacket, TakeIn
    PROVE  TrackerFollows' /\ Wire' /\ LossKnown' /\ ErrorsPaid'
<1> DEFINE q == packet.pid
<1>1. /\ q \in Pids /\ packet.cc \in Counters /\ packet.cc = cc[q]
      /\ copies \in 1..2 /\ copies' = copies - 1 /\ cc' = cc /\ faults' = faults
  BY DEF IInv, Wire, TakeIn, ProcessPacket, TypeOK, Packets, Counted
<1>2. /\ missing' = [missing EXCEPT ![q] = 0]
      /\ broken' = [broken EXCEPT ![q] = FALSE]
      /\ jumped' = [jumped EXCEPT ![q] = FALSE]
      /\ missing \in [Pids -> Nat] /\ broken \in [Pids -> BOOLEAN]
      /\ jumped \in [Pids -> BOOLEAN] /\ errors \in [Pids -> Nat]
      /\ faults \in [Pids -> Nat]
  BY DEF TakeIn, IInv, TypeOK
<1>3. /\ copies = 2 => packet' = packet /\ Counted'
      /\ copies = 1 => packet' = Quiet /\ ~Counted'
  BY <1>1, QuietFacts DEF ProcessPacket, TakeIn, Counted, Refused, Quiet
<1>4. TrackerFollows'
  <2>1. ASSUME NEW p \in DOMAIN continuity', ~jumped'[p]
        PROVE  (continuity'[p] + missing'[p]) % 16 = cc'[p]
    <3>1. CASE p = q
      <4>1. continuity'[p] = packet.cc /\ missing'[p] = 0 /\ cc'[p] = packet.cc
        BY <1>1, <1>2, <3>1 DEF TakeIn, Noted
      <4> QED
        BY <1>1, <4>1, CounterArithmetic
    <3>2. CASE p # q
      <4>1. p \in DOMAIN continuity /\ continuity'[p] = continuity[p] /\ p \in Pids
        BY <3>2 DEF TakeIn, Noted, IInv, TypeOK
      <4>2. missing'[p] = missing[p] /\ jumped'[p] = jumped[p] /\ cc'[p] = cc[p]
        BY <1>1, <1>2, <3>2, <4>1
      <4> QED
        BY <2>1, <4>1, <4>2 DEF IInv, TrackerFollows
    <3> QED
      BY <3>1, <3>2
  <2> QED
    BY <2>1 DEF TrackerFollows
<1>5. Wire'
  BY <1>1, <1>3 DEF Wire
<1>6. LossKnown'
  <2> SUFFICES ASSUME NEW p \in Pids
               PROVE  /\ missing'[p] > 0 /\ ~Coming(p)' => broken'[p]
                      /\ missing'[p] > 1 => broken'[p]
                      /\ jumped'[p] => broken'[p] \/ (Coming(p)' /\ packet'.restart)
    BY DEF LossKnown
  <2>1. CASE p = q
    BY <1>1, <1>2, <2>1
  <2>2. CASE p # q
    <3>1. ~Coming(p) /\ ~Coming(p)'
      BY <1>3, <2>2, <1>1 DEF Coming
    <3>2. missing'[p] = missing[p] /\ broken'[p] = broken[p] /\ jumped'[p] = jumped[p]
      BY <1>2, <2>2
    <3> QED
      BY <3>1, <3>2 DEF IInv, LossKnown
  <2> QED
    BY <2>1, <2>2
<1>7. Mismatch /\ missing[q] # 0 => broken[q]
  <2> SUFFICES ASSUME Mismatch, missing[q] # 0, ~broken[q] PROVE FALSE
    OBVIOUS
  <2>1. ~jumped[q] /\ missing[q] = 1
    BY <1>1, <1>2 DEF IInv, LossKnown, Mismatch
  <2>2. continuity[q] \in Counters /\ (continuity[q] + 1) % 16 = cc[q]
    BY <2>1 DEF Mismatch, IInv, TypeOK, TrackerFollows
  <2> QED
    BY <1>1, <2>2 DEF Mismatch, Expected
<1>8. ErrorsPaid'
  <2> SUFFICES ASSUME NEW p \in Pids
               PROVE  /\ errors'[p] <= faults'[p]
                      /\ broken'[p] \/ Repeats(p)' => errors'[p] + 1 <= faults'[p]
                      /\ broken'[p] /\ Repeats(p)' => errors'[p] + 2 <= faults'[p]
    BY DEF ErrorsPaid
  <2>1. CASE p = q
    <3>1. ~broken'[p] /\ missing'[p] = 0
      BY <1>1, <1>2, <2>1
    <3>2. Coming(p)
      BY <2>1 DEF Coming, TakeIn
    <3>3. errors'[p] = IF Mismatch THEN errors[p] + 1 ELSE errors[p]
      BY <1>1, <1>2, <2>1 DEF TakeIn
    <3>4. errors[p] \in Nat /\ faults[p] \in Nat
      BY <1>2
    <3>5. CASE copies = 2
      <4>1. Repeats(p) /\ missing[q] # 0
        BY <1>1, <1>2, <3>2, <3>5 DEF Repeats, IInv, Wire, TakeIn
      <4> QED
        BY <1>1, <1>7, <2>1, <3>1, <3>3, <3>4, <4>1 DEF IInv, ErrorsPaid
    <3>6. CASE copies = 1
      <4>1. ~Repeats(p)'
        BY <1>3, <3>6 DEF Repeats, Coming
      <4>2. CASE missing[q] = 0
        BY <1>1, <2>1, <3>1, <3>2, <3>3, <3>4, <4>1, <4>2 DEF IInv, ErrorsPaid, Repeats
      <4>3. CASE missing[q] # 0
        BY <1>1, <1>7, <2>1, <3>1, <3>3, <3>4, <4>1, <4>3 DEF IInv, ErrorsPaid
      <4> QED
        BY <4>2, <4>3
    <3> QED
      BY <1>1, <3>5, <3>6
  <2>2. CASE p # q
    <3>1. ~Repeats(p)'
      BY <1>1, <1>3, <2>2 DEF Repeats, Coming
    <3>2. errors'[p] = errors[p] /\ broken'[p] = broken[p] /\ faults'[p] = faults[p]
      BY <1>1, <1>2, <2>2 DEF TakeIn
    <3> QED
      BY <3>1, <3>2 DEF IInv, ErrorsPaid
  <2> QED
    BY <2>1, <2>2
<1> QED
  BY <1>4, <1>5, <1>6, <1>8

(* Sending a payload packet counts the fault it will be blamed for. *)
LEMMA SendPreserves ==
    ASSUME IInv, NEW p \in Pids, NEW n \in 0..2, NEW restart \in BOOLEAN,
           NEW sized \in BOOLEAN, NEW sane \in BOOLEAN,
           SendPayload(p, n, restart, sized, sane)
    PROVE  TrackerFollows' /\ Wire' /\ LossKnown' /\ ErrorsPaid'
<1> DEFINE reaches == n > 0 /\ sized /\ sane
           burst   == ~reaches /\ ~broken[p]
           again   == reaches /\ n = 2
<1>1. PICK c \in Counters :
        /\ restart \/ c = (cc[p] + 1) % 16
        /\ cc' = [cc EXCEPT ![p] = c]
        /\ packet' = IF n = 0 THEN Quiet
                     ELSE [pid |-> p, cc |-> c, payload |-> TRUE,
                           restart |-> restart, sized |-> sized, sane |-> sane]
  BY DEF SendPayload
<1>2. /\ missing' = [missing EXCEPT ![p] = @ + 1]
      /\ broken' = [broken EXCEPT ![p] = @ \/ ~reaches]
      /\ jumped' = [jumped EXCEPT ![p] = @ \/ restart]
      /\ faults' = [faults EXCEPT ![p] = IF burst \/ again THEN @ + 1 ELSE @]
      /\ copies = 0 /\ copies' = n
      /\ continuity' = continuity /\ errors' = errors
  BY DEF SendPayload, tracker
<1>3. /\ missing \in [Pids -> Nat] /\ broken \in [Pids -> BOOLEAN]
      /\ jumped \in [Pids -> BOOLEAN] /\ errors \in [Pids -> Nat]
      /\ faults \in [Pids -> Nat] /\ cc \in [Pids -> Counters]
      /\ DOMAIN continuity \subseteq Pids
      /\ \A s \in DOMAIN continuity : continuity[s] \in Counters
  BY DEF IInv, TypeOK
<1>4. ~Counted
  BY <1>2, QuietFacts DEF IInv, Wire
<1>5. Counted' <=> reaches
  <2>1. CASE n = 0
    BY <1>1, <2>1 DEF Counted, Refused, Quiet
  <2>2. CASE n # 0
    BY <1>1, <2>2, PidAssumption DEF Counted, Refused
  <2> QED
    BY <2>1, <2>2
<1>6. reaches => packet'.pid = p /\ packet'.cc = c /\ packet'.restart = restart
  BY <1>1
<1>7. TrackerFollows'
  <2>1. ASSUME NEW s \in DOMAIN continuity, ~jumped'[s]
        PROVE  (continuity[s] + missing'[s]) % 16 = cc'[s]
    <3>1. s \in Pids /\ continuity[s] \in Counters /\ missing[s] \in Nat
      BY <1>3
    <3>2. ~jumped[s]
      BY <1>2, <1>3, <2>1, <3>1
    <3>3. (continuity[s] + missing[s]) % 16 = cc[s]
      BY <3>2 DEF IInv, TrackerFollows
    <3>4. CASE s = p
      <4>1. missing'[s] = missing[s] + 1 /\ cc'[s] = (cc[s] + 1) % 16
        BY <1>1, <1>2, <1>3, <2>1, <3>1, <3>4
      <4>2. (continuity[s] + (missing[s] + 1)) % 16
              = (((continuity[s] + missing[s]) % 16) + 1) % 16
        BY <3>1, CounterArithmetic
      <4> QED
        BY <3>3, <4>1, <4>2
    <3>5. CASE s # p
      BY <1>1, <1>2, <1>3, <3>1, <3>3, <3>5
    <3> QED
      BY <3>4, <3>5
  <2> QED
    BY <1>2, <2>1 DEF TrackerFollows
<1>8. Wire'
  <2>1. copies' = 0 => packet' = Quiet
    BY <1>1, <1>2
  <2>2. reaches => cc'[p] = c /\ missing'[p] > 0
    BY <1>1, <1>2, <1>3
  <2> QED
    BY <1>5, <1>6, <2>1, <2>2 DEF Wire
<1>9. \A s \in Pids : Coming(s)' <=> (reaches /\ s = p)
  BY <1>5, <1>6 DEF Coming
<1>10. LossKnown'
  <2> SUFFICES ASSUME NEW s \in Pids
               PROVE  /\ missing'[s] > 0 /\ ~Coming(s)' => broken'[s]
                      /\ missing'[s] > 1 => broken'[s]
                      /\ jumped'[s] => broken'[s] \/ (Coming(s)' /\ packet'.restart)
    BY DEF LossKnown
  <2>1. /\ missing[s] > 0 => broken[s]
        /\ jumped[s] => broken[s]
    BY <1>4 DEF IInv, LossKnown, Coming
  <2>2. CASE s = p
    <3>1. /\ missing'[s] = missing[s] + 1
          /\ broken'[s] <=> (broken[s] \/ ~reaches)
          /\ jumped'[s] <=> (jumped[s] \/ restart)
      BY <1>2, <1>3, <2>2
    <3>2. reaches => Coming(s)' /\ packet'.restart = restart
      BY <1>6, <1>9, <2>2
    <3>3. missing[s] \in Nat
      BY <1>3
    <3> HIDE DEF reaches
    <3> QED
      BY <2>1, <3>1, <3>2, <3>3
  <2>3. CASE s # p
    BY <1>2, <1>3, <2>1, <2>3
  <2> QED
    BY <2>2, <2>3
<1>11. ErrorsPaid'
  <2> SUFFICES ASSUME NEW s \in Pids
               PROVE  /\ errors'[s] <= faults'[s]
                      /\ broken'[s] \/ Repeats(s)' => errors'[s] + 1 <= faults'[s]
                      /\ broken'[s] /\ Repeats(s)' => errors'[s] + 2 <= faults'[s]
    BY DEF ErrorsPaid
  <2>1. /\ errors[s] <= faults[s]
        /\ broken[s] => errors[s] + 1 <= faults[s]
        /\ errors[s] \in Nat /\ faults[s] \in Nat /\ missing[s] \in Nat
    BY <1>3 DEF IInv, ErrorsPaid
  <2>2. CASE s = p
    <3>1. missing'[s] # 0 /\ (Repeats(s)' => again)
      BY <1>2, <1>3, <1>9, <2>1, <2>2 DEF Repeats
    <3>2. broken'[s] <=> (broken[s] \/ ~reaches)
      BY <1>2, <1>3, <2>2
    <3>3. faults'[s] = IF burst \/ again THEN faults[s] + 1 ELSE faults[s]
      BY <1>2, <1>3, <2>2
    <3>4. errors'[s] = errors[s]
      BY <1>2
    <3> HIDE DEF reaches
    <3> QED
      BY <2>1, <2>2, <3>1, <3>2, <3>3, <3>4
  <2>3. CASE s # p
    <3>1. ~Repeats(s)'
      BY <1>9, <2>3 DEF Repeats
    <3>2. /\ errors'[s] = errors[s] /\ faults'[s] = faults[s]
          /\ broken'[s] = broken[s]
      BY <1>2, <1>3, <2>3
    <3> QED
      BY <2>1, <3>1, <3>2
  <2> QED
    BY <2>2, <2>3
<1> QED
  BY <1>7, <1>8, <1>10, <1>11

-----------------------------------------------------------------------------

LEMMA StepPreserves == IInv /\ [Next]_vars => IInv'
<1> SUFFICES ASSUME IInv, [Next]_vars PROVE IInv'
  OBVIOUS
<1>1. TypeOK /\ TypeOK'
  BY TypePreserved DEF IInv
<1>2. CASE ProcessPacket
  <2>1. CASE TakeIn
    BY <1>1, <1>2, <2>1, TakeInPreserves DEF IInv
  <2>2. CASE Refuse \/ Skip
    <3>1. ~Counted /\ UNCHANGED <<continuity, errors, missing, broken, jumped, cc, faults>>
      BY <1>2, <2>2 DEF Refuse, Skip, ProcessPacket, Counted
    <3>2. copies \in 0..2 /\ copies' = copies - 1
          /\ packet' = IF copies' = 0 THEN Quiet ELSE packet
      BY <1>1, <1>2 DEF ProcessPacket, TypeOK
    <3>3. ~Counted'
      BY <3>1, <3>2 DEF Counted, Refused, Quiet
    <3>4. TrackerFollows' /\ Wire'
      BY <3>1, <3>2, <3>3 DEF IInv, TrackerFollows, Wire
    <3>5. LossKnown'
      BY <3>1, <3>3 DEF IInv, LossKnown, Coming
    <3>6. ErrorsPaid'
      BY <3>1, <3>3 DEF IInv, ErrorsPaid, Repeats, Coming
    <3> QED
      BY <1>1, <3>4, <3>5, <3>6 DEF IInv
  <2> QED
    BY <1>2, <2>1, <2>2 DEF ProcessPacket
<1>3. ASSUME NEW p \in Pids, NEW n \in 0..2, NEW restart \in BOOLEAN,
             NEW sized \in BOOLEAN, NEW sane \in BOOLEAN,
             SendPayload(p, n, restart, sized, sane)
      PROVE  IInv'
  BY <1>1, <1>3, SendPreserves DEF IInv
<1>4. ASSUME NEW p \in Pids \cup {NullPid}, NEW sized \in BOOLEAN,
             NEW sane \in BOOLEAN, SendBare(p, sized, sane)
      PROVE  IInv'
  <2>1. /\ UNCHANGED <<continuity, errors, cc, missing, broken, jumped, faults>>
        /\ copies = 0 /\ copies' = 1
    BY <1>4 DEF SendBare, tracker
  <2>2. ~Counted
    BY <2>1, QuietFacts DEF IInv, Wire
  <2>3. ~Counted'
    BY <1>4 DEF SendBare, Counted
  <2>4. TrackerFollows' /\ Wire'
    BY <2>1, <2>3 DEF IInv, TrackerFollows, Wire
  <2>5. LossKnown'
    BY <2>1, <2>2, <2>3 DEF IInv, LossKnown, Coming
  <2>6. ErrorsPaid'
    BY <2>1, <2>2, <2>3 DEF IInv, ErrorsPaid, Repeats, Coming
  <2> QED
    BY <1>1, <2>4, <2>5, <2>6 DEF IInv
<1>5. CASE UNCHANGED vars
  <2>1. UNCHANGED <<packet, copies, cc, jumped, faults, continuity, errors, missing, broken>>
    BY <1>5 DEF vars, source, tracker
  <2>2. TrackerFollows' /\ Wire' /\ LossKnown'
    BY <2>1 DEF IInv, TrackerFollows, Wire, LossKnown, Coming, Counted, Refused
  <2>3. ErrorsPaid'
    BY <2>1 DEF IInv, ErrorsPaid, Repeats, Coming, Counted, Refused
  <2> QED
    BY <1>1, <2>2, <2>3 DEF IInv
<1> QED
  BY <1>1, <1>2, <1>3, <1>4, <1>5, StepKinds

(* The strengthened invariant holds in every reachable state. *)
LEMMA Inductive == Spec => []IInv
<1>1. Init => IInv
  BY InitEstablishes
<1>2. IInv /\ [Next]_vars => IInv'
  BY StepPreserves
<1> QED
  BY <1>1, <1>2, PTL DEF Spec

(* process_packet keeps its map well formed. *)
THEOREM TypeCorrect == Spec => []TypeOK
<1>1. IInv => TypeOK
  BY DEF IInv
<1> QED
  BY <1>1, Inductive, PTL

(* What is held of a stream lags its source by what is missing. *)
THEOREM FollowsAlways == Spec => []TrackerFollows
<1>1. IInv => TrackerFollows
  BY DEF IInv
<1> QED
  BY <1>1, Inductive, PTL

(* No stream has more errors reported than faults happened to it. *)
THEOREM ErrorsNeverCompound == Spec => []NoCompoundingErrors
<1>1. IInv => NoCompoundingErrors
  BY DEF IInv, ErrorsPaid, NoCompoundingErrors
<1> QED
  BY <1>1, Inductive, PTL

(* A gap is reported exactly when it is no whole turn of the counter. *)
THEOREM GapsAlwaysReported == Spec => GapsReported
<1> DEFINE Step == \A p \in DOMAIN continuity :
         (copies > copies' /\ Counted /\ packet.pid = p
            /\ ~packet.restart /\ ~jumped[p])
         => (result' = p <=> missing[p] % 16 # 1)
<1>1. IInv /\ [Next]_vars => [Step]_vars
  <2> SUFFICES ASSUME IInv, Next, NEW p \in DOMAIN continuity,
                      copies > copies', Counted, packet.pid = p,
                      ~packet.restart, ~jumped[p]
               PROVE  result' = p <=> missing[p] % 16 # 1
    OBVIOUS
  <2>1. ProcessPacket
    BY DEF Next, SendPayload, SendBare, IInv, TypeOK
  <2>2. TakeIn
    BY <2>1 DEF ProcessPacket, Refuse, Skip, Counted
  <2>3. /\ p \in Pids /\ continuity[p] \in Counters /\ missing[p] \in Nat
        /\ packet.cc = cc[p]
    BY DEF IInv, TypeOK, Wire
  <2>4. (continuity[p] + missing[p]) % 16 = cc[p]
    BY DEF IInv, TrackerFollows
  <2>5. result' = p <=> Mismatch
    BY <2>2, <2>3, PidAssumption DEF TakeIn
  <2>6. Mismatch <=> cc[p] # (continuity[p] + 1) % 16
    BY <2>3 DEF Mismatch, Expected
  <2>7. (continuity[p] + missing[p]) % 16 = (continuity[p] + 1) % 16
          <=> missing[p] % 16 = 1
    BY <2>3, CounterArithmetic
  <2> QED
    BY <2>4, <2>5, <2>6, <2>7
<1>2. Spec => [][Next]_vars
  BY DEF Spec
<1> QED
  BY <1>1, <1>2, Inductive, PTL DEF GapsReported

(* PidTracker among the parts is PidTracker: what the theorems above state *)
(* of Spec holds of PartsSpec, whichever part runs.                        *)
THEOREM TrackerOfParts == PartsSpec => Spec
<1>1. PartsInit => Init
  BY DEF PartsInit
<1>2. [PartsNext]_partsVars => [Next]_vars
  BY DEF PartsNext, partsVars, trackerVars
<1> QED
  BY <1>1, <1>2, PTL DEF PartsSpec, Spec

-----------------------------------------------------------------------------
(* The start of a recorder.                                                *)

StartPoints == {"arguments", "directory", "head", "create", "join", "capture",
                "captures", "over"}
BeforeBucket == {"arguments", "directory", "head", "create"}

StartTypes ==
    /\ step \in [Starters -> StartPoints]
    /\ status \in [Starters -> {"none", "error", "success", "panic"}]
    /\ DOMAIN trouble = {"count", "who"}
    /\ bucket \in BOOLEAN

(* Another program has come past the bucket, or to its end.                *)
AnotherPast(r) == \E q \in Starters \ {r} : step[q] \notin BeforeBucket

(* Who is past the bucket has one; who finds it made between its look and  *)
(* its attempt has somebody to blame.                                      *)
StartInv ==
    /\ StartTypes
    /\ \A r \in Starters : step[r] \in {"join", "capture", "captures"} => bucket
    /\ \A r \in Starters :
          step[r] = "create" /\ bucket /\ r \notin trouble.who => AnotherPast(r)
    /\ \A r \in Starters :
          step[r] = "over" /\ junk[r] \subseteq Start!Lenient /\ r \notin trouble.who =>
             bucket /\ status[r] = "error" /\ AnotherPast(r)

LEMMA StartInit == Start!Init => StartInv
  BY DEF Start!Init, StartInv, StartTypes, StartPoints

(* A program moves on, alone. Nobody comes back before the bucket.         *)
LEMMA StartMoves ==
    ASSUME StartInv, NEW r \in Starters, NEW next \in StartPoints,
           step' = [step EXCEPT ![r] = next],
           step[r] \notin BeforeBucket => next \notin BeforeBucket
    PROVE  \A q \in Starters : AnotherPast(q) => AnotherPast(q)'
  BY DEF StartInv, StartTypes, AnotherPast

(* Every step of a starting program keeps the invariant.                   *)
LEMMA StartStep == StartInv /\ [Start!Next]_(Start!vars) => StartInv'
  <1> SUFFICES ASSUME StartInv, [Start!Next]_(Start!vars)
               PROVE  StartInv'
    OBVIOUS
  <1> USE DEF StartPoints, BeforeBucket
  <1>1. ASSUME NEW r \in Starters, Start!ReadArguments(r)
        PROVE  StartInv'
    <2>1. /\ step[r] = "arguments" /\ UNCHANGED <<junk, bucket, trouble>>
          /\ \/ /\ ~(junk[r] \subseteq Start!Lenient)
                /\ step' = [step EXCEPT ![r] = "over"]
                /\ status' = [status EXCEPT ![r] = "error"]
             \/ step' = [step EXCEPT ![r] = "directory"] /\ UNCHANGED status
      BY <1>1 DEF Start!ReadArguments, Start!Exit, Start!To, Start!Calm, Start!Strict, Start!Lenient
    <2>2. \A q \in Starters : AnotherPast(q) => AnotherPast(q)'
      BY <2>1, StartMoves
    <2> QED
      BY <2>1, <2>2 DEF StartInv, StartTypes
  <1>2. ASSUME NEW r \in Starters, Start!MakeDirectory(r)
        PROVE  StartInv'
    <2>1. /\ step[r] = "directory" /\ UNCHANGED <<junk, bucket>>
          /\ \/ /\ step' = [step EXCEPT ![r] = "over"]
                /\ status' = [status EXCEPT ![r] = "error"]
                /\ trouble' = [count |-> trouble.count + 1, who |-> trouble.who \cup {r}]
             \/ step' = [step EXCEPT ![r] = "head"] /\ UNCHANGED <<status, trouble>>
      BY <1>2 DEF Start!MakeDirectory, Start!Exit, Start!To, Start!Calm, Start!Trouble
    <2>2. \A q \in Starters : AnotherPast(q) => AnotherPast(q)'
      BY <2>1, StartMoves
    <2> QED
      BY <2>1, <2>2 DEF StartInv, StartTypes
  <1>3. ASSUME NEW r \in Starters, Start!HeadBucket(r)
        PROVE  StartInv'
    <2>1. /\ step[r] = "head" /\ UNCHANGED <<junk, bucket, status>>
          /\ \/ bucket /\ step' = [step EXCEPT ![r] = "join"] /\ UNCHANGED trouble
             \/ ~bucket /\ step' = [step EXCEPT ![r] = "create"] /\ UNCHANGED trouble
             \/ /\ step' = [step EXCEPT ![r] = "create"]
                /\ trouble' = [count |-> trouble.count + 1, who |-> trouble.who \cup {r}]
      BY <1>3 DEF Start!HeadBucket, Start!To, Start!Calm, Start!Trouble
    <2>2. \A q \in Starters : AnotherPast(q) => AnotherPast(q)'
      BY <2>1, StartMoves
    <2> QED
      BY <2>1, <2>2 DEF StartInv, StartTypes
  <1>4. ASSUME NEW r \in Starters, Start!CreateBucket(r)
        PROVE  StartInv'
    <2>1. step[r] = "create" /\ UNCHANGED junk /\ (bucket => bucket')
      BY <1>4 DEF Start!CreateBucket, StartInv, StartTypes
    <2>2. CASE /\ bucket' /\ step' = [step EXCEPT ![r] = "join"]
               /\ UNCHANGED <<status, trouble>>
      <3>1. \A q \in Starters : AnotherPast(q) => AnotherPast(q)'
        BY <2>2, <2>1, StartMoves
      <3>2. \A q \in Starters \ {r} : AnotherPast(q)'
        BY <2>2 DEF AnotherPast, StartInv, StartTypes
      <3> QED
        BY <2>1, <2>2, <3>1, <3>2 DEF StartInv, StartTypes
    <2>3. CASE /\ step' = [step EXCEPT ![r] = "over"]
               /\ status' = [status EXCEPT ![r] = "error"]
               /\ bucket /\ UNCHANGED <<bucket, trouble>>
      <3>1. \A q \in Starters : AnotherPast(q) => AnotherPast(q)'
        BY <2>3, <2>1, StartMoves
      <3> QED
        BY <2>1, <2>3, <3>1 DEF StartInv, StartTypes
    <2>4. CASE /\ step' = [step EXCEPT ![r] = "over"]
               /\ status' = [status EXCEPT ![r] = "error"]
               /\ bucket' \in {bucket, TRUE}
               /\ trouble' = [count |-> trouble.count + 1, who |-> trouble.who \cup {r}]
      <3>1. \A q \in Starters : AnotherPast(q) => AnotherPast(q)'
        BY <2>4, <2>1, StartMoves
      <3>2. \A q \in Starters \ {r} : AnotherPast(q)'
        BY <2>4 DEF AnotherPast, StartInv, StartTypes
      <3> QED
        BY <2>1, <2>4, <3>1, <3>2 DEF StartInv, StartTypes
    <2> QED
      BY <1>4, <2>2, <2>3, <2>4
      DEF Start!CreateBucket, Start!To, Start!Exit, Start!Calm, Start!Trouble, StartInv, StartTypes
  <1>5. ASSUME NEW r \in Starters, Start!Join(r)
        PROVE  StartInv'
    <2>1. /\ step[r] = "join" /\ UNCHANGED <<junk, bucket>>
          /\ \/ /\ step' = [step EXCEPT ![r] = "over"]
                /\ status' = [status EXCEPT ![r] = "success"]
                /\ trouble' = [count |-> trouble.count + 1, who |-> trouble.who \cup {r}]
             \/ step' = [step EXCEPT ![r] = "capture"] /\ UNCHANGED <<status, trouble>>
      BY <1>5 DEF Start!Join, Start!Exit, Start!To, Start!Calm, Start!Trouble
    <2>2. \A q \in Starters : AnotherPast(q) => AnotherPast(q)'
      BY <2>1, StartMoves
    <2> QED
      BY <2>1, <2>2 DEF StartInv, StartTypes
  <1>6. ASSUME NEW r \in Starters, Start!OpenCapture(r)
        PROVE  StartInv'
    <2>1. /\ step[r] = "capture" /\ UNCHANGED <<junk, bucket>>
          /\ \/ step' = [step EXCEPT ![r] = "captures"] /\ UNCHANGED <<status, trouble>>
             \/ /\ ~(junk[r] \subseteq Start!Lenient)
                /\ step' = [step EXCEPT ![r] = "over"]
                /\ status' = [status EXCEPT ![r] = "panic"] /\ UNCHANGED trouble
             \/ /\ step' = [step EXCEPT ![r] = "over"]
                /\ status' = [status EXCEPT ![r] = "error"]
                /\ trouble' = [count |-> trouble.count + 1, who |-> trouble.who \cup {r}]
      BY <1>6 DEF Start!OpenCapture, Start!Exit, Start!To, Start!Calm, Start!Trouble,
                  Start!SnapLength, Start!Lenient
    <2>2. \A q \in Starters : AnotherPast(q) => AnotherPast(q)'
      BY <2>1, StartMoves
    <2> QED
      BY <2>1, <2>2 DEF StartInv, StartTypes
  <1>7. CASE UNCHANGED Start!vars
    BY <1>7 DEF Start!vars, StartInv, StartTypes, AnotherPast
  <1> QED
    BY <1>1, <1>2, <1>3, <1>4, <1>5, <1>6, <1>7 DEF Start!Next

(* The part that a behaviour is does not change, and makes its own steps.  *)
LEMMA StartPart ==
    part = "start" /\ [PartsNext]_partsVars => part' = part /\ [Start!Next]_(Start!vars)
  BY DEF PartsNext, partsVars, startVars, Start!vars

(* A recorder that is set up right stops only for a fault of its own or    *)
(* for a bucket another one makes at the same time.                        *)
THEOREM StartsUnlessRacedCorrect == PartsSpec => []StartsUnlessRaced
  <1> DEFINE Inv == part = "start" => StartInv
  <1>1. PartsInit => Inv
    BY StartInit DEF PartsInit
  <1>2. Inv /\ [PartsNext]_partsVars => Inv'
    <2>1. [PartsNext]_partsVars => part' = part
      BY DEF PartsNext, partsVars
    <2> QED
      BY <2>1, StartStep, StartPart
  <1>3. Inv => StartsUnlessRaced
    BY DEF StartInv, StartsUnlessRaced, Start!StartsUnlessRaced, AnotherPast, BeforeBucket
  <1> QED
    BY <1>1, <1>2, <1>3, PTL DEF PartsSpec

-----------------------------------------------------------------------------
(* The hourly urls log.                                                    *)

(* What a recorder is about to drop has come into the log since it read it.*)
LogInv ==
    /\ Log!TypeOK
    /\ \A q \in Recorders : pc[q] = "rename" =>
          \A p \in Recorders, h \in 0..MaxHour :
             Log!Listed(log, p, h) /\ ~Log!Listed(copy[q], p, h) => <<p, h>> \in since[q]

LEMMA LogInit == Log!LogAssumption /\ Log!Init => LogInv
  <1> SUFFICES ASSUME Log!LogAssumption, Log!Init
               PROVE  LogInv
    OBVIOUS
  <1>1. <<>> \in Seq(Log!Lines)
    BY EmptySeq
  <1> QED BY <1>1 DEF Log!Init, Log!LogAssumption, LogInv, Log!TypeOK

(* The recorder and the hour of a line are of a line that is contained.    *)
LEMMA ListedContains ==
    ASSUME NEW lines \in Seq(Log!Lines), NEW p, NEW h
    PROVE  Log!Listed(lines, p, h) <=>
             \E l : Contains(lines, l) /\ l.rec = p /\ l.hour = h
  <1>1. DOMAIN lines = 1..Len(lines)
    OBVIOUS
  <1> QED BY <1>1 DEF Log!Listed, Contains

(* What is left of the lines when one recorder replaces its own.           *)
LEMMA OthersListed ==
    ASSUME NEW p \in Recorders, NEW lines \in Seq(Log!Lines)
    PROVE  /\ Log!Others(p, lines) \in Seq(Log!Lines)
           /\ \A q, h : Log!Listed(Log!Others(p, lines), q, h) <=>
                           Log!Listed(lines, q, h) /\ ~(q = p /\ h = hour[p])
  <1> DEFINE L == Log!Lines
             own(i) == lines[i].rec = p /\ lines[i].hour = hour[p]
             D == {i \in DOMAIN lines : own(i)}
             rest == FlattenSeq(Without(lines, D))
  <1>1. DOMAIN lines = 1..Len(lines)
    BY LenProperties
  <1>2. Log!Others(p, lines) = rest
    <2>1. \A i \in DOMAIN lines : i \in D <=> own(i)
      OBVIOUS
    <2> HIDE DEF own, D
    <2> DEFINE f(i) == IF own(i) THEN <<>> ELSE <<lines[i]>>
               g(i) == IF i \in D THEN <<>> ELSE <<lines[i]>>
               I == DOMAIN lines
    <2>2. \A i \in I : f(i) = g(i)
      BY <2>1
    <2>3. Without(lines, D) = [i \in I |-> g(i)]
      BY DEF Without
    <2>4. Log!Others(p, lines) = FlattenSeq([i \in I |-> f(i)])
      BY DEF Log!Others, Log!FlattenSeq, FlattenSeq, own
    <2> HIDE DEF f, g, I
    <2>5. [i \in I |-> f(i)] = [i \in I |-> g(i)]
      BY <2>2
    <2> QED BY <2>3, <2>4, <2>5
  <1> HIDE DEF L, D
  <1>3. /\ rest \in Seq(L)
        /\ \A x : Contains(rest, x) <=> \E k \in 1..Len(lines) : k \notin D /\ lines[k] = x
    BY WithoutContains DEF L
  <1> HIDE DEF rest
  <1>4. ASSUME NEW q, NEW h
        PROVE  Log!Listed(rest, q, h) <=> Log!Listed(lines, q, h) /\ ~(q = p /\ h = hour[p])
    <2>1. Log!Listed(rest, q, h) <=> \E l : Contains(rest, l) /\ l.rec = q /\ l.hour = h
      BY <1>3, ListedContains DEF L
    <2>2. Log!Listed(rest, q, h) <=>
             \E k \in 1..Len(lines) : k \notin D /\ lines[k].rec = q /\ lines[k].hour = h
      BY <1>3, <2>1
    <2> QED BY <1>1, <2>2 DEF Log!Listed, D
  <1> QED BY <1>2, <1>3, <1>4 DEF L

(* What the log is replaced by: all that is listed, and the own line.      *)
LEMMA WithListed ==
    ASSUME Log!TypeOK, NEW p \in Recorders, writes[p] < MaxWrites, Log!LogAssumption,
           NEW lines \in Seq(Log!Lines)
    PROVE  /\ Log!With(p, Log!Others(p, lines)) \in Seq(Log!Lines)
           /\ \A q, h : Log!Listed(lines, q, h) =>
                           Log!Listed(Log!With(p, Log!Others(p, lines)), q, h)
  <1> DEFINE s == Log!Others(p, lines)
             l == Log!Line(p)
  <1>1. s \in Seq(Log!Lines)
    BY OthersListed
  <1>2. l \in Log!Lines /\ l.rec = p /\ l.hour = hour[p]
    BY DEF Log!Line, Log!Lines, Log!TypeOK, Log!LogAssumption
  <1> HIDE DEF s, l
  <1>3. /\ Append(s, l) \in Seq(Log!Lines) /\ Len(Append(s, l)) = Len(s) + 1
        /\ Append(s, l)[Len(s) + 1] = l /\ Len(s) \in Nat
        /\ \A i \in 1..Len(s) : Append(s, l)[i] = s[i]
    BY <1>1, <1>2, AppendProperties, LenProperties
  <1>4. ASSUME NEW q, NEW h, Log!Listed(s, q, h)
        PROVE  Log!Listed(Append(s, l), q, h)
    BY <1>1, <1>3, <1>4 DEF Log!Listed
  <1>5. Log!Listed(Append(s, l), p, hour[p])
    BY <1>2, <1>3 DEF Log!Listed
  <1>6. \A q, h : Log!Listed(lines, q, h) => Log!Listed(s, q, h) \/ (q = p /\ h = hour[p])
    BY OthersListed DEF s
  <1> QED BY <1>3, <1>4, <1>5, <1>6 DEF s, l, Log!With

(* Every step of a recorder on the log keeps the invariant.                *)
LEMMA LogStep ==
    ASSUME Log!LogAssumption, LogInv, [Log!Next]_(Log!vars)
    PROVE  LogInv'
  <1> USE DEF LogInv
  <1>1. ASSUME NEW p \in Recorders, Log!ReadLog(p)
        PROVE  LogInv'
    <2>1. /\ copy' = [copy EXCEPT ![p] = Log!With(p, Log!Others(p, log))]
          /\ pc' = [pc EXCEPT ![p] = "rename"]
          /\ writes' = [writes EXCEPT ![p] = @ + 1]
          /\ since' = [since EXCEPT ![p] = {}]
          /\ UNCHANGED <<log, hour>> /\ writes[p] < MaxWrites
      BY <1>1 DEF Log!ReadLog
    <2>2. Log!With(p, Log!Others(p, log)) \in Seq(Log!Lines)
      BY <2>1, WithListed DEF Log!TypeOK
    <2>3. writes[p] + 1 \in 0..MaxWrites
      BY <2>1 DEF Log!TypeOK, Log!LogAssumption
    <2>4. Log!TypeOK'
      <3>1. copy' \in [Recorders -> Seq(Log!Lines)] /\ log' \in Seq(Log!Lines)
        BY <2>1, <2>2 DEF Log!TypeOK, Log!Lines
      <3>2. writes' \in [Recorders -> 0..MaxWrites]
        BY <2>1, <2>3 DEF Log!TypeOK
      <3> QED BY <2>1, <3>1, <3>2 DEF Log!TypeOK, Log!Lines
    <2>5. \A q, h : Log!Listed(log, q, h) => Log!Listed(copy'[p], q, h)
      BY <2>1, WithListed DEF Log!TypeOK
    <2>6. \A q \in Recorders \ {p} : /\ copy'[q] = copy[q] /\ pc'[q] = pc[q]
                                     /\ since'[q] = since[q]
      BY <2>1 DEF Log!TypeOK
    <2>7. ASSUME NEW q \in Recorders, pc'[q] = "rename", NEW r \in Recorders,
                 NEW h \in 0..MaxHour, Log!Listed(log, r, h), ~Log!Listed(copy'[q], r, h)
          PROVE  <<r, h>> \in since'[q]
      BY <2>5, <2>6, <2>7
    <2> QED BY <2>1, <2>4, <2>7 DEF Log!Listed
  <1>2. ASSUME NEW p \in Recorders, Log!RenameLog(p)
        PROVE  LogInv'
    <2>1. /\ log' = copy[p] /\ pc' = [pc EXCEPT ![p] = "run"]
          /\ since' = [q \in Recorders |-> since[q] \cup Log!Brought(p)]
          /\ UNCHANGED <<hour, writes, copy>>
      BY <1>2 DEF Log!RenameLog
    <2>2. Log!Brought(p) \subseteq Recorders \X (0..MaxHour)
      BY DEF Log!Brought, Log!TypeOK
    <2>3. Log!TypeOK'
      <3>1. log' \in Seq(Log!Lines)
        BY <2>1 DEF Log!TypeOK
      <3>2. since' \in [Recorders -> SUBSET (Recorders \X (0..MaxHour))]
        BY <2>1, <2>2 DEF Log!TypeOK
      <3> QED BY <2>1, <3>1, <3>2 DEF Log!TypeOK, Log!Lines
    <2>4. ASSUME NEW q \in Recorders, pc'[q] = "rename",
                 NEW r \in Recorders, NEW h \in 0..MaxHour,
                 Log!Listed(copy[p], r, h), ~Log!Listed(copy[q], r, h)
          PROVE  <<r, h>> \in since[q] \cup Log!Brought(p)
      <3>1. pc[q] = "rename"
        BY <2>1, <2>4 DEF Log!TypeOK
      <3>2. CASE Log!Listed(log, r, h)
        BY <2>4, <3>1, <3>2
      <3>3. CASE ~Log!Listed(log, r, h)
        BY <2>4, <3>3 DEF Log!Brought
      <3> QED BY <3>2, <3>3
    <2> QED BY <2>1, <2>3, <2>4 DEF Log!Listed
  <1>3. ASSUME NEW p \in Recorders, Log!HourPasses(p)
        PROVE  LogInv'
    <2>1. hour[p] + 1 \in 0..MaxHour
      BY <1>3 DEF Log!HourPasses, Log!TypeOK, Log!LogAssumption
    <2>2. hour' \in [Recorders -> 0..MaxHour]
      BY <1>3, <2>1 DEF Log!HourPasses, Log!TypeOK
    <2> QED BY <1>3, <2>2 DEF Log!HourPasses, Log!TypeOK, Log!Lines, Log!Listed
  <1>4. ASSUME NEW p \in Recorders, Log!End(p)
        PROVE  LogInv'
    BY <1>4 DEF Log!End, Log!TypeOK, Log!Lines, Log!Listed
  <1>5. CASE UNCHANGED Log!vars
    BY <1>5 DEF Log!vars, Log!TypeOK, Log!Lines, Log!Listed
  <1> QED BY <1>1, <1>2, <1>3, <1>4, <1>5 DEF Log!Next, Log!Done

(* Only a rename takes lines away, and then the writer's copy lacks them.  *)
LEMMA LogLoses ==
    ASSUME LogInv, [Log!Next]_(Log!vars)
    PROVE  Log!LostByOverlap
  <1> SUFFICES ASSUME NEW p \in Recorders, NEW h \in 0..MaxHour,
                      Log!Listed(log, p, h), ~Log!Listed(log', p, h)
               PROVE  \E q \in Recorders :
                         pc[q] = "rename" /\ pc'[q] = "run" /\ <<p, h>> \in since[q]
    BY DEF Log!LostByOverlap
  <1>1. log' # log
    BY DEF Log!Listed
  <1>2. PICK q \in Recorders : Log!RenameLog(q)
    BY <1>1 DEF Log!Next, Log!vars, Log!Done, Log!ReadLog, Log!HourPasses, Log!End
  <1>3. log' = copy[q] /\ pc[q] = "rename" /\ pc'[q] = "run"
    BY <1>2 DEF Log!RenameLog, LogInv, Log!TypeOK
  <1> QED BY <1>3 DEF LogInv

(* A step of the parts is one of the log when the log runs.                *)
LEMMA LogPart ==
    part = "log" /\ [PartsNext]_partsVars => part' = part /\ [Log!Next]_(Log!vars)
  BY DEF PartsNext, partsVars, logVars, playerVars, Log!vars

(* However many recorders share the urls log, and whenever they are killed:*)
(* a line leaves it only by a writer that overlapped with another.         *)
THEOREM LossNeedsOverlapCorrect == PartsSpec => LossNeedsOverlap
  <1> DEFINE Inv == part = "log" => LogInv
             lost == part = "log" => Log!LostByOverlap
  <1>1. PartsInit => Inv
    BY LogInit, PartsAssumption DEF PartsInit
  <1>2. Inv /\ [PartsNext]_partsVars => Inv'
    <2>1. [PartsNext]_partsVars => part' = part
      BY DEF PartsNext, partsVars
    <2> QED BY <2>1, LogStep, LogPart, PartsAssumption
  <1>3. Inv /\ [PartsNext]_partsVars => [lost]_partsVars
    BY LogLoses, LogPart
  <1> HIDE DEF Inv, lost
  <1>4. PartsSpec => [][lost]_partsVars
    BY <1>1, <1>2, <1>3, PTL DEF PartsSpec
  <1> QED BY <1>4 DEF lost, LossNeedsOverlap

-----------------------------------------------------------------------------
(* The packet loop: order.                                                 *)

(* What has come out, f, what is left over, s, and what was handed to the  *)
(* loop, g, of a source that has sent n bytes.                             *)
InOrderOf(f, s, g, n) ==
    /\ Ascending(f) /\ Ascending(s) /\ Ascending(g) /\ Precedes(f, s)
    /\ \A x : Contains(f, x) \/ Contains(s, x) => Contains(g, x)
    /\ \A x : Contains(g, x) => x < n

(* What a sequence contains is of its kind.                                *)
LEMMA ContainsType ==
    ASSUME NEW S, NEW s \in Seq(S), NEW x, Contains(s, x)
    PROVE  x \in S
  BY ElementOfSeq DEF Contains

(* A datagram: the next k bytes of the source.                             *)
Bytes(n, k) == [i \in 1..k |-> n + i - 1]

(* The bytes of a datagram, in their order.                                *)
LEMMA BytesFacts ==
    ASSUME NEW n \in Nat, NEW k \in Nat
    PROVE  /\ Bytes(n, k) \in Seq(Nat) /\ Ascending(Bytes(n, k))
           /\ \A x : Contains(Bytes(n, k), x) <=> x \in n..(n + k - 1)
  <1> DEFINE b == Bytes(n, k)
  <1>1. b \in Seq(Nat) /\ Len(b) = k /\ \A i \in 1..k : b[i] = n + i - 1
    BY DEF Bytes
  <1> HIDE DEF b
  <1>2. Ascending(b)
    BY <1>1 DEF Ascending
  <1>3. ASSUME NEW x \in n..(n + k - 1)
        PROVE  Contains(b, x)
    <2>1. x - n + 1 \in 1..k /\ n + (x - n + 1) - 1 = x
      OBVIOUS
    <2>2. b[x - n + 1] = x
      BY <1>1, <2>1
    <2> QED BY <1>1, <2>1, <2>2 DEF Contains
  <1>4. ASSUME NEW x, Contains(b, x)
        PROVE  x \in n..(n + k - 1)
    BY <1>1, <1>4 DEF Contains
  <1> QED BY <1>1, <1>2, <1>3, <1>4 DEF b

(* The order is kept when bytes come in, ...                               *)
LEMMA OrderTakes ==
    ASSUME NEW f \in Seq(Nat), NEW s \in Seq(Nat), NEW g \in Seq(Nat), NEW n \in Nat,
           NEW k \in Nat, InOrderOf(f, s, g, n)
    PROVE  InOrderOf(f, s \o Bytes(n, k), g \o Bytes(n, k), n + k)
  <1> DEFINE b == Bytes(n, k)
  <1>1. b \in Seq(Nat) /\ Ascending(b) /\ \A x : Contains(b, x) <=> x \in n..(n + k - 1)
    BY BytesFacts
  <1> HIDE DEF b
  <1>2. /\ \A x : Contains(s \o b, x) <=> Contains(s, x) \/ Contains(b, x)
        /\ \A x : Contains(g \o b, x) <=> Contains(g, x) \/ Contains(b, x)
    BY <1>1, ConcatContains
  <1>3. \A x : Contains(f, x) \/ Contains(s, x) \/ Contains(g, x) => x \in Nat /\ x < n
    BY ContainsType DEF InOrderOf
  <1>4. Precedes(s, b) /\ Precedes(g, b) /\ Precedes(f, b)
    BY <1>1, <1>3 DEF Precedes
  <1>5. s \in Seq(Int) /\ g \in Seq(Int) /\ b \in Seq(Int)
    BY <1>1
  <1>6. Ascending(s \o b) /\ Ascending(g \o b)
    BY <1>1, <1>4, <1>5, ConcatAscending DEF InOrderOf
  <1>7. Precedes(f, s \o b)
    BY <1>2, <1>4 DEF Precedes, InOrderOf
  <1>8. ASSUME NEW x, Contains(g \o b, x)
        PROVE  x < n + k
    <2>1. Contains(g, x) \/ x \in n..(n + k - 1)
      BY <1>1, <1>2, <1>8
    <2>2. x \in Nat /\ (x < n \/ x \in n..(n + k - 1))
      BY <1>3, <2>1
    <2> QED BY <2>2
  <1> DEFINE sb == s \o b
             gb == g \o b
  <1> HIDE DEF sb, gb
  <1>9. InOrderOf(f, sb, gb, n + k)
    BY <1>2, <1>6, <1>7, <1>8 DEF InOrderOf, sb, gb
  <1> QED BY <1>9 DEF sb, gb, b

(* ... when bytes at the front of what is left over are dropped, ...       *)
LEMMA OrderDrops ==
    ASSUME NEW f \in Seq(Nat), NEW s \in Seq(Nat), NEW g \in Seq(Nat), NEW n \in Nat,
           InOrderOf(f, s, g, n), NEW m \in 1..(Len(s) + 1)
    PROVE  InOrderOf(f, SubSeq(s, m, Len(s)), g, n)
  <1> DEFINE t == SubSeq(s, m, Len(s))
  <1>1. \A x : Contains(t, x) => Contains(s, x)
    <2>1. \A x : Contains(t, x) <=> \E i \in m..Len(s) : s[i] = x
      BY SuffixContains
    <2>2. \A i \in m..Len(s) : i \in 1..Len(s)
      BY LenProperties
    <2> QED BY <2>1, <2>2 DEF Contains
  <1>2. s \in Seq(Int) /\ Ascending(s)
    BY DEF InOrderOf
  <1>3. Ascending(t)
    BY <1>2, SuffixAscending
  <1> HIDE DEF t
  <1>4. InOrderOf(f, t, g, n)
    BY <1>1, <1>3 DEF InOrderOf, Precedes
  <1> QED BY <1>4 DEF t

(* The first m elements, and the others.                                   *)
LEMMA PrefixFacts ==
    ASSUME NEW S, NEW s \in Seq(S), NEW m \in 0..Len(s)
    PROVE  /\ SubSeq(s, 1, m) \in Seq(S) /\ Len(SubSeq(s, 1, m)) = m
           /\ \A i \in 1..m : SubSeq(s, 1, m)[i] = s[i]
           /\ \A x : Contains(SubSeq(s, 1, m), x) <=> \E i \in 1..m : s[i] = x
  <1> DEFINE u == SubSeq(s, 1, m)
  <1>1. u \in Seq(S) /\ Len(u) = m /\ \A i \in 1..m : u[i] = s[i]
    BY SubSeqProperties, LenProperties
  <1> HIDE DEF u
  <1> QED BY <1>1 DEF Contains, u

(* ... and when they come out.                                             *)
LEMMA OrderMoves ==
    ASSUME NEW f \in Seq(Nat), NEW s \in Seq(Nat), NEW g \in Seq(Nat), NEW n \in Nat,
           InOrderOf(f, s, g, n), NEW m \in 0..Len(s)
    PROVE  InOrderOf(f \o SubSeq(s, 1, m), SubSeq(s, m + 1, Len(s)), g, n)
  <1> DEFINE p == SubSeq(s, 1, m)
             t == SubSeq(s, m + 1, Len(s))
  <1>1. /\ p \in Seq(Nat) /\ Len(p) = m /\ \A i \in 1..m : p[i] = s[i]
        /\ \A x : Contains(p, x) <=> \E i \in 1..m : s[i] = x
    BY PrefixFacts
  <1>2. m + 1 \in 1..(Len(s) + 1) /\ Len(s) \in Nat
    BY LenProperties
  <1>3. \A x : Contains(t, x) <=> \E i \in (m + 1)..Len(s) : s[i] = x
    BY <1>2, SuffixContains
  <1>4. InOrderOf(f, t, g, n)
    BY <1>2, OrderDrops
  <1> HIDE DEF p, t
  <1>5. Ascending(p)
    <2> SUFFICES ASSUME NEW i \in 1..m, NEW j \in 1..m, i < j
                 PROVE  s[i] < s[j]
      BY <1>1 DEF Ascending
    <2>1. i \in 1..Len(s) /\ j \in 1..Len(s)
      BY <1>2
    <2> QED BY <2>1 DEF Ascending, InOrderOf
  <1>6. Precedes(p, t)
    <2>1. ASSUME NEW i \in 1..m, NEW j \in (m + 1)..Len(s)
          PROVE  s[i] < s[j]
      <3>1. i \in 1..Len(s) /\ j \in 1..Len(s) /\ i < j
        BY <1>2
      <3> QED BY <3>1 DEF Ascending, InOrderOf
    <2>2. ASSUME NEW x, NEW y, Contains(p, x), Contains(t, y)
          PROVE  x < y
      <3>1. PICK i \in 1..m : s[i] = x
        BY <1>1, <2>2
      <3>2. PICK j \in (m + 1)..Len(s) : s[j] = y
        BY <1>3, <2>2
      <3> QED BY <2>1, <3>1, <3>2
    <2> QED BY <2>2 DEF Precedes
  <1>7. \A x : Contains(p, x) => Contains(s, x)
    <2>1. \A i \in 1..m : i \in 1..Len(s)
      BY <1>2
    <2> QED BY <1>1, <2>1 DEF Contains
  <1>8. Precedes(f, p)
    BY <1>7 DEF InOrderOf, Precedes
  <1>9. f \in Seq(Int) /\ p \in Seq(Int)
    BY <1>1
  <1>10. Ascending(f \o p)
    BY <1>5, <1>8, <1>9, ConcatAscending DEF InOrderOf
  <1>11. \A x : Contains(f \o p, x) <=> Contains(f, x) \/ Contains(p, x)
    BY <1>1, ConcatContains
  <1> DEFINE fp == f \o p
  <1> HIDE DEF fp
  <1>12. InOrderOf(fp, t, g, n)
    BY <1>4, <1>6, <1>7, <1>10, <1>11 DEF InOrderOf, Precedes, fp
  <1> QED BY <1>12 DEF fp, p, t

-----------------------------------------------------------------------------
(* The packet loop: whole packets.                                         *)

(* A byte lies in the packet that starts at or before it, whole.           *)
LEMMA PacketFacts ==
    ASSUME Ts!ExtractAssumption
    PROVE  /\ \A x \in Nat :
                /\ Ts!PacketOf(x) \in Nat /\ Ts!PacketOf(x) <= x /\ x < Ts!PacketOf(x) + Size
                /\ Ts!Starts(Ts!PacketOf(x)) /\ (Ts!Starts(x) <=> Ts!PacketOf(x) = x)
           /\ \A b \in Nat, j \in 0..(Size - 1) : Ts!Starts(b) => Ts!PacketOf(b + j) = b
           /\ \A b, x \in Nat : Ts!Starts(b) => /\ x < b => Ts!PacketOf(x) + Size <= b
                                                /\ b <= x => b <= Ts!PacketOf(x)
  <1>1. Size \in Nat \ {0}
    BY DEF Ts!ExtractAssumption
  <1>2. \A x : Ts!PacketOf(x) = Floor(Size, x)
    BY DEF Ts!PacketOf, Floor
  <1>3. \A x : Ts!Starts(x) <=> x % Size = 0
    BY DEF Ts!Starts
  <1>4. ASSUME NEW x \in Nat
        PROVE  /\ Floor(Size, x) \in Nat /\ Floor(Size, x) <= x /\ x < Floor(Size, x) + Size
               /\ Floor(Size, x) % Size = 0 /\ ((x % Size = 0) <=> (Floor(Size, x) = x))
    BY <1>1, FloorFacts
  <1>5. ASSUME NEW b \in Nat, NEW j \in 0..(Size - 1), b % Size = 0
        PROVE  Floor(Size, b + j) = b
    BY <1>1, <1>5, FloorUnique
  <1>6. ASSUME NEW b \in Nat, NEW x \in Nat, b % Size = 0
        PROVE  (x < b => Floor(Size, x) + Size <= b) /\ (b <= x => b <= Floor(Size, x))
    BY <1>1, <1>6, FloorBounds
  <1> QED BY <1>2, <1>3, <1>4, <1>5, <1>6

LegalByte(x, B) == Ts!PacketOf(x) \notin B

(* While all sent are whole packets: every legal byte handed to the loop   *)
(* has come out or is left over, nothing else has come out, and what is    *)
(* left over of a packet is its end, or all of it when it is legal.        *)
Shaped(f, s, g, n, B) ==
    /\ Ts!Starts(n)
    /\ \A x : Contains(g, x) /\ LegalByte(x, B) => Contains(f, x) \/ Contains(s, x)
    /\ \A x : Contains(f, x) => LegalByte(x, B)
    /\ \A x, y \in Nat :
          Contains(s, x) /\ Ts!PacketOf(x) = Ts!PacketOf(y) /\ (x <= y \/ LegalByte(x, B)) =>
             Contains(s, y)

(* Whole packets stay whole when a datagram of whole packets comes in.     *)
LEMMA ShapeTakes ==
    ASSUME Ts!ExtractAssumption, NEW f \in Seq(Nat), NEW s \in Seq(Nat), NEW g \in Seq(Nat),
           NEW n \in Nat, NEW k \in Nat, NEW B, Shaped(f, s, g, n, B), Ts!Starts(n + k)
    PROVE  Shaped(f, s \o Bytes(n, k), g \o Bytes(n, k), n + k, B)
  <1> DEFINE b == Bytes(n, k)
             sb == s \o b
             gb == g \o b
  <1>1. b \in Seq(Nat) /\ \A x : Contains(b, x) <=> x \in n..(n + k - 1)
    BY BytesFacts
  <1> HIDE DEF b
  <1>2. /\ \A x : Contains(sb, x) <=> Contains(s, x) \/ Contains(b, x)
        /\ \A x : Contains(gb, x) <=> Contains(g, x) \/ Contains(b, x)
    BY <1>1, ConcatContains
  <1> HIDE DEF sb, gb
  <1>3. ASSUME NEW x \in Nat, NEW y \in Nat, Contains(b, x), Ts!PacketOf(x) = Ts!PacketOf(y)
        PROVE  Contains(b, y)
    <2>1. x \in Nat /\ n <= x /\ x < n + k
      BY <1>1, <1>3
    <2>2. n <= Ts!PacketOf(y) /\ Ts!PacketOf(y) + Size <= n + k
      BY <1>3, <2>1, PacketFacts DEF Shaped
    <2>3. Ts!PacketOf(y) <= y /\ y < Ts!PacketOf(y) + Size /\ Ts!PacketOf(y) \in Nat
      BY PacketFacts
    <2>4. Size \in Nat
      BY DEF Ts!ExtractAssumption
    <2> DEFINE p == Ts!PacketOf(y)
    <2> HIDE DEF p
    <2>5. y \in n..(n + k - 1)
      BY <2>2, <2>3, <2>4 DEF p
    <2> QED BY <1>1, <2>5
  <1>4. ASSUME NEW x \in Nat, NEW y \in Nat, Contains(sb, x), Ts!PacketOf(x) = Ts!PacketOf(y),
               x <= y \/ LegalByte(x, B)
        PROVE  Contains(sb, y)
    <2>1. CASE Contains(s, x)
      BY <1>2, <1>4, <2>1 DEF Shaped
    <2>2. CASE Contains(b, x)
      BY <1>2, <1>3, <1>4, <2>2
    <2> QED BY <1>2, <1>4, <2>1, <2>2
  <1>5. Shaped(f, sb, gb, n + k, B)
    BY <1>2, <1>4 DEF Shaped
  <1> QED BY <1>5 DEF sb, gb, b

(* Bytes that are not legal are dropped from the front.                    *)
LEMMA ShapeDrops ==
    ASSUME Ts!ExtractAssumption, NEW f \in Seq(Nat), NEW s \in Seq(Nat), NEW g \in Seq(Nat),
           NEW n \in Nat, NEW B, Shaped(f, s, g, n, B), Ascending(s),
           NEW m \in 1..(Len(s) + 1), \A i \in 1..(m - 1) : ~LegalByte(s[i], B)
    PROVE  Shaped(f, SubSeq(s, m, Len(s)), g, n, B)
  <1> DEFINE t == SubSeq(s, m, Len(s))
  <1>1. s \in Seq(Int) /\ Len(s) \in Nat
    BY LenProperties
  <1>2. /\ \A i \in 1..Len(s) : Contains(t, s[i]) <=> m <= i
        /\ \A x, y : Contains(t, x) /\ Contains(s, y) /\ x <= y => Contains(t, y)
    BY <1>1, SuffixAscending
  <1>3. \A x : Contains(t, x) => Contains(s, x)
    <2>1. \A x : Contains(t, x) <=> \E i \in m..Len(s) : s[i] = x
      BY SuffixContains
    <2>2. \A i \in m..Len(s) : i \in 1..Len(s)
      BY LenProperties
    <2> QED BY <2>1, <2>2 DEF Contains
  <1> HIDE DEF t
  <1>4. \A x : Contains(s, x) /\ LegalByte(x, B) => Contains(t, x)
    <2> SUFFICES ASSUME NEW i \in 1..Len(s), LegalByte(s[i], B)
                 PROVE  Contains(t, s[i])
      BY DEF Contains
    <2>1. ~(i < m)
      BY <1>1
    <2> QED BY <1>1, <1>2, <2>1
  <1>5. ASSUME NEW x \in Nat, NEW y \in Nat, Contains(t, x), Ts!PacketOf(x) = Ts!PacketOf(y),
               x <= y \/ LegalByte(x, B)
        PROVE  Contains(t, y)
    <2>1. Contains(s, y)
      BY <1>3, <1>5 DEF Shaped
    <2>2. CASE x <= y
      BY <1>2, <1>5, <2>1, <2>2
    <2>3. CASE LegalByte(x, B)
      BY <1>4, <1>5, <2>1, <2>3 DEF LegalByte
    <2> QED BY <1>5, <2>2, <2>3
  <1>6. Shaped(f, t, g, n, B)
    BY <1>4, <1>5 DEF Shaped
  <1> QED BY <1>6 DEF t

(* A legal packet at the front moves out.                                  *)
LEMMA ShapeMoves ==
    ASSUME Ts!ExtractAssumption, NEW f \in Seq(Nat), NEW s \in Seq(Nat), NEW g \in Seq(Nat),
           NEW n \in Nat, NEW B, Shaped(f, s, g, n, B), Ascending(s),
           Size <= Len(s), Ts!Starts(s[1]), LegalByte(s[1], B),
           \A j \in 0..(Size - 1) : s[1 + j] = s[1] + j
    PROVE  Shaped(f \o SubSeq(s, 1, Size), SubSeq(s, Size + 1, Len(s)), g, n, B)
  <1> DEFINE p == SubSeq(s, 1, Size)
             t == SubSeq(s, Size + 1, Len(s))
             fp == f \o p
             a == s[1]
  <1>1. s \in Seq(Int) /\ Len(s) \in Nat /\ Size \in Nat \ {0} /\ 1 \in 1..Len(s) /\ a \in Nat
    BY LenProperties DEF Ts!ExtractAssumption
  <1>2. Size \in 0..Len(s) /\ Size + 1 \in 1..(Len(s) + 1)
    BY <1>1
  <1>3. p \in Seq(Nat) /\ \A x : Contains(p, x) <=> \E i \in 1..Size : s[i] = x
    BY <1>2, PrefixFacts
  <1>4. /\ \A i \in 1..Len(s) : Contains(t, s[i]) <=> Size + 1 <= i
        /\ \A x, y : Contains(t, x) /\ Contains(s, y) /\ x <= y => Contains(t, y)
    BY <1>1, <1>2, SuffixAscending
  <1>5. \A x : Contains(t, x) => Contains(s, x)
    <2>1. \A x : Contains(t, x) <=> \E i \in (Size + 1)..Len(s) : s[i] = x
      BY <1>2, SuffixContains
    <2>2. \A i \in (Size + 1)..Len(s) : i \in 1..Len(s)
      BY <1>1
    <2> QED BY <2>1, <2>2 DEF Contains
  <1> HIDE DEF p, t
  <1>6. \A x : Contains(fp, x) <=> Contains(f, x) \/ Contains(p, x)
    BY <1>3, ConcatContains
  <1> HIDE DEF fp
  <1>7. ASSUME NEW i \in 1..Size
        PROVE  Ts!PacketOf(s[i]) = a
    <2>1. i - 1 \in 0..(Size - 1) /\ 1 + (i - 1) = i
      BY <1>1
    <2>2. s[i] = a + (i - 1)
      BY <2>1
    <2>3. a \in Nat /\ Ts!Starts(a)
      BY <1>1
    <2> HIDE DEF a
    <2>4. Ts!PacketOf(a + (i - 1)) = a
      BY <2>1, <2>3, PacketFacts
    <2> QED BY <2>2, <2>4
  <1>8. ASSUME NEW i \in 1..Len(s), Ts!PacketOf(s[i]) = a
        PROVE  i <= Size
    <2> DEFINE x == s[i]
    <2>1. x \in Nat
      BY ElementOfSeq
    <2>2. a <= x /\ x < a + Size
      BY <1>8, <2>1, PacketFacts
    <2> HIDE DEF x, a
    <2>3. x - a \in 0..(Size - 1) /\ a + (x - a) = x /\ 1 + (x - a) \in 1..Size
      BY <1>1, <2>1, <2>2
    <2>4. s[1 + (x - a)] = x
      BY <2>3 DEF a
    <2>5. 1 + (x - a) \in 1..Len(s) /\ s[1 + (x - a)] = s[i]
      BY <1>1, <2>3, <2>4, SMTT(30) DEF x
    <2> DEFINE k == 1 + (x - a)
    <2>6. k \in 1..Size /\ k \in 1..Len(s) /\ s[k] = s[i]
      BY <2>3, <2>5
    <2> HIDE DEF k
    <2>7. s[i] \in Int /\ ~(k < i)
      BY <2>1, <2>6 DEF Ascending, x
    <2> QED BY <1>1, <2>6, <2>7
  <1>9. \A x : Contains(s, x) => Contains(p, x) \/ Contains(t, x)
    <2> SUFFICES ASSUME NEW i \in 1..Len(s)
                 PROVE  Contains(p, s[i]) \/ Contains(t, s[i])
      BY DEF Contains
    <2>1. i \in 1..Size \/ Size + 1 <= i
      BY <1>1
    <2> QED BY <1>3, <1>4, <2>1
  <1>10. \A x : Contains(t, x) => Ts!PacketOf(x) # a
    <2> SUFFICES ASSUME NEW i \in 1..Len(s), Contains(t, s[i])
                 PROVE  Ts!PacketOf(s[i]) # a
      BY <1>5 DEF Contains
    <2>1. Size + 1 <= i
      BY <1>4
    <2>2. ~(i <= Size)
      BY <1>1, <2>1
    <2> QED BY <1>8, <2>2
  <1>11. \A x : Contains(p, x) => Ts!PacketOf(x) = a
    BY <1>3, <1>7
  <1>12. Ts!PacketOf(a) = a
    BY <1>1, PacketFacts
  <1>13. \A x : Contains(p, x) => LegalByte(x, B)
    BY <1>11, <1>12 DEF LegalByte
  <1>14. ASSUME NEW x \in Nat, NEW y \in Nat, Contains(t, x), Ts!PacketOf(x) = Ts!PacketOf(y),
               x <= y \/ LegalByte(x, B)
         PROVE  Contains(t, y)
    <2>1. Contains(s, y)
      BY <1>5, <1>14 DEF Shaped
    <2> QED BY <1>9, <1>10, <1>11, <1>14, <2>1
  <1>15. Shaped(fp, t, g, n, B)
    BY <1>6, <1>9, <1>13, <1>14 DEF Shaped
  <1> QED BY <1>15 DEF fp, p, t

(* At a sync byte stands a whole packet.                                   *)
LEMMA PacketAtFront ==
    ASSUME Ts!ExtractAssumption, NEW f \in Seq(Nat), NEW s \in Seq(Nat), NEW g \in Seq(Nat),
           NEW n \in Nat, NEW B, Shaped(f, s, g, n, B), Ascending(s), s # <<>>, Ts!Starts(s[1])
    PROVE  \A j \in 0..(Size - 1) : 1 + j <= Len(s) /\ s[1 + j] = s[1] + j
  <1>1. s \in Seq(Int) /\ Len(s) \in Nat /\ Size \in Nat \ {0} /\ 1 \in 1..Len(s) /\ s[1] \in Nat
    BY LenProperties, EmptySeq, ElementOfSeq DEF Ts!ExtractAssumption
  <1>2. Contains(s, s[1]) /\ Ts!PacketOf(s[1]) = s[1]
    BY <1>1, PacketFacts DEF Contains
  <1>3. ASSUME NEW j \in 0..(Size - 1)
        PROVE  Contains(s, s[1] + j)
    <2>1. Ts!PacketOf(s[1] + j) = s[1]
      BY <1>1, PacketFacts
    <2>2. s[1] + j \in Nat /\ s[1] <= s[1] + j
      BY <1>1
    <2> QED BY <1>1, <1>2, <2>1, <2>2 DEF Shaped
  <1>4. ASSUME NEW j \in 0..(Size - 1)
        PROVE  1 + j <= Len(s) /\ s[1 + j] = s[1] + j
    <2>1. j \in Nat /\ \A i \in 0..j : i \in 0..(Size - 1)
      BY <1>1
    <2>2. \A i \in 0..j : Contains(s, s[1] + i)
      BY <1>3, <2>1
    <2> QED BY <1>1, <2>1, <2>2, RunTogether
  <1> QED BY <1>4

(* When a legal byte is left over, its packet is, in one piece.            *)
LEMMA LegalByteWhole ==
    ASSUME Ts!ExtractAssumption, NEW f \in Seq(Nat), NEW s \in Seq(Nat), NEW g \in Seq(Nat),
           NEW n \in Nat, NEW B, Shaped(f, s, g, n, B), Ascending(s),
           NEW x, Contains(s, x), LegalByte(x, B)
    PROVE  Size <= Len(s) /\ Contains(s, Ts!PacketOf(x))
  <1> DEFINE p == Ts!PacketOf(x)
  <1>1. x \in Nat
    BY ContainsType
  <1>2. p \in Nat /\ Ts!Starts(p)
    BY <1>1, PacketFacts
  <1>3. Size \in Nat \ {0} /\ Len(s) \in Nat /\ s \in Seq(Int)
    BY LenProperties DEF Ts!ExtractAssumption
  <1>4. ASSUME NEW j \in 0..(Size - 1)
        PROVE  Contains(s, p + j)
    <2> HIDE DEF p
    <2>1. Ts!PacketOf(p + j) = p
      BY <1>2, PacketFacts
    <2>2. p + j \in Nat
      BY <1>2, <1>3
    <2>3. Ts!PacketOf(x) = Ts!PacketOf(p + j)
      BY <2>1 DEF p
    <2> QED BY <1>1, <2>2, <2>3 DEF Shaped
  <1> HIDE DEF p
  <1>5. Contains(s, p)
    <2>1. 0 \in 0..(Size - 1) /\ p + 0 = p
      BY <1>2, <1>3
    <2> QED BY <1>4, <2>1
  <1>6. PICK i \in 1..Len(s) : s[i] = p
    BY <1>5 DEF Contains
  <1>7. Size - 1 \in Nat /\ \A j \in 0..(Size - 1) : Contains(s, s[i] + j)
    BY <1>3, <1>4, <1>6
  <1>8. i + (Size - 1) <= Len(s)
    BY <1>3, <1>7, RunTogether
  <1>9. Size <= Len(s)
    BY <1>3, <1>8
  <1> QED BY <1>5, <1>9 DEF p

-----------------------------------------------------------------------------
(* The packet loop: packets that are broken off.                           *)

(* The bytes left over behind which their packet breaks off, and the       *)
(* packets put together from pieces.                                       *)
GapsOf(s) == {x \in Nat : Contains(s, x) /\ ~Ts!Starts(x + 1) /\ ~Contains(s, x + 1)}
BrokenOf(o) == {i \in DOMAIN o : ~Ts!Whole(o[i])}

(* There are finitely many gaps: they are bytes of the source.             *)
LEMMA GapsFinite ==
    ASSUME NEW s \in Seq(Nat), NEW n \in Nat, \A x : Contains(s, x) => x < n
    PROVE  IsFiniteSet(GapsOf(s))
  <1>1. GapsOf(s) \subseteq 0..n
    BY DEF GapsOf
  <1>2. IsFiniteSet(0..n)
    BY FS_Interval
  <1> QED BY <1>1, <1>2, FS_Subset

(* And finitely many packets put together from pieces.                     *)
LEMMA BrokenFinite ==
    ASSUME NEW o \in Seq(Seq(Nat))
    PROVE  IsFiniteSet(BrokenOf(o))
  <1>1. DOMAIN o = 1..Len(o) /\ Len(o) \in Nat
    BY LenProperties
  <1>2. BrokenOf(o) \subseteq 1..Len(o)
    BY <1>1 DEF BrokenOf
  <1>3. IsFiniteSet(1..Len(o))
    BY <1>1, FS_Interval
  <1> QED BY <1>2, <1>3, FS_Subset

(* A datagram leaves at most one gap, when it breaks off in a packet.      *)
LEMMA GapsTake ==
    ASSUME NEW s \in Seq(Nat), NEW n \in Nat, NEW k \in Nat, \A x : Contains(s, x) => x < n
    PROVE  Cardinality(GapsOf(s \o Bytes(n, k))) <=
              Cardinality(GapsOf(s)) + (IF Ts!Starts(n + k) THEN 0 ELSE 1)
  <1> DEFINE b == Bytes(n, k)
             sb == s \o b
             G == GapsOf(s)
  <1>1. b \in Seq(Nat) /\ \A x : Contains(b, x) <=> x \in n..(n + k - 1)
    BY BytesFacts
  <1> HIDE DEF b
  <1>2. \A x : Contains(sb, x) <=> Contains(s, x) \/ Contains(b, x)
    BY <1>1, ConcatContains
  <1> HIDE DEF sb
  <1>3. IsFiniteSet(G) /\ Cardinality(G) \in Nat
    BY GapsFinite, FS_CardinalityType
  <1>4. ASSUME NEW x \in GapsOf(sb), x \notin G
        PROVE  x = n + k - 1 /\ ~Ts!Starts(n + k)
    <2>1. x \in Nat /\ ~Ts!Starts(x + 1) /\ Contains(b, x) /\ ~Contains(b, x + 1)
      BY <1>2, <1>4 DEF GapsOf
    <2>2. x \in n..(n + k - 1) /\ x + 1 \notin n..(n + k - 1)
      BY <1>1, <2>1
    <2>3. x = n + k - 1 /\ x + 1 = n + k
      BY <2>1, <2>2
    <2> QED BY <2>1, <2>3
  <1>5. CASE Ts!Starts(n + k)
    <2>1. GapsOf(sb) \in SUBSET G
      BY <1>4, <1>5
    <2>2. Cardinality(GapsOf(sb)) <= Cardinality(G)
      BY <1>3, <2>1, FS_Subset
    <2> QED BY <1>3, <1>5, <2>2 DEF sb, b
  <1>6. CASE ~Ts!Starts(n + k)
    <2> DEFINE H == G \cup {n + k - 1}
    <2>1. GapsOf(sb) \in SUBSET H
      BY <1>4
    <2>2. IsFiniteSet(H) /\ Cardinality(H) <= Cardinality(G) + 1
      <3>1. /\ IsFiniteSet(H)
            /\ Cardinality(H) = IF n + k - 1 \in G THEN Cardinality(G) ELSE Cardinality(G) + 1
        BY <1>3, FS_AddElement
      <3> QED BY <1>3, <3>1
    <2> HIDE DEF H
    <2>3. Cardinality(GapsOf(sb)) <= Cardinality(H)
      BY <2>1, <2>2, FS_Subset
    <2>4. Cardinality(GapsOf(sb)) \in Nat /\ Cardinality(H) \in Nat
      BY <2>1, <2>2, FS_Subset, FS_CardinalityType
    <2>5. Cardinality(GapsOf(sb)) <= Cardinality(G) + 1
      BY <1>3, <2>2, <2>3, <2>4
    <2> QED BY <1>6, <2>5 DEF sb, b
  <1> QED BY <1>5, <1>6

(* Dropping bytes from the front leaves no new one.                        *)
LEMMA GapsDrop ==
    ASSUME NEW s \in Seq(Nat), Ascending(s), NEW m \in 1..(Len(s) + 1)
    PROVE  /\ GapsOf(SubSeq(s, m, Len(s))) \subseteq GapsOf(s)
           /\ \A x \in GapsOf(SubSeq(s, m, Len(s))) : \E i \in m..Len(s) : s[i] = x
  <1> DEFINE t == SubSeq(s, m, Len(s))
  <1>1. s \in Seq(Int) /\ Len(s) \in Nat
    BY LenProperties
  <1>2. \A x, y : Contains(t, x) /\ Contains(s, y) /\ x <= y => Contains(t, y)
    BY <1>1, SuffixAscending
  <1>3. \A x : Contains(t, x) <=> \E i \in m..Len(s) : s[i] = x
    BY SuffixContains
  <1> HIDE DEF t
  <1>4. \A x : Contains(t, x) => Contains(s, x)
    <2>1. \A i \in m..Len(s) : i \in 1..Len(s)
      BY <1>1
    <2> QED BY <1>3, <2>1 DEF Contains
  <1>5. ASSUME NEW x \in GapsOf(t)
        PROVE  x \in GapsOf(s)
    <2>1. x \in Nat /\ x <= x + 1
      BY DEF GapsOf
    <2>2. ~Contains(s, x + 1)
      BY <1>2, <2>1 DEF GapsOf
    <2> QED BY <1>4, <2>2 DEF GapsOf
  <1>6. \A x \in GapsOf(t) : \E i \in m..Len(s) : s[i] = x
    BY <1>3 DEF GapsOf
  <1> QED BY <1>5, <1>6 DEF t

(* Dropping bytes at the front adds no gap.                                *)
LEMMA GapsDropCount ==
    ASSUME NEW s \in Seq(Nat), Ascending(s), NEW m \in 1..(Len(s) + 1), NEW n \in Nat,
           \A x : Contains(s, x) => x < n
    PROVE  Cardinality(GapsOf(SubSeq(s, m, Len(s)))) <= Cardinality(GapsOf(s))
  <1>1. IsFiniteSet(GapsOf(s))
    BY GapsFinite
  <1>2. GapsOf(SubSeq(s, m, Len(s))) \in SUBSET GapsOf(s)
    BY GapsDrop
  <1> QED BY <1>1, <1>2, FS_Subset

(* A packet that is not whole takes a gap with it.                         *)
LEMMA GapsMove ==
    ASSUME Ts!ExtractAssumption, NEW s \in Seq(Nat), Ascending(s), NEW n \in Nat,
           \A x : Contains(s, x) => x < n,
           Size <= Len(s), Ts!Starts(s[1]), ~Ts!Whole(SubSeq(s, 1, Size))
    PROVE  Cardinality(GapsOf(SubSeq(s, Size + 1, Len(s)))) + 1 <= Cardinality(GapsOf(s))
  <1> DEFINE t == SubSeq(s, Size + 1, Len(s))
             p == SubSeq(s, 1, Size)
             a == s[1]
             T == {j \in 0..(Size - 1) : ~Contains(s, a + j)}
  <1>1. /\ s \in Seq(Int) /\ Len(s) \in Nat /\ Size \in Nat \ {0, 1} /\ 1 \in 1..Len(s)
        /\ a \in Nat
    BY LenProperties, ElementOfSeq DEF Ts!ExtractAssumption
  <1>2. Size \in 0..Len(s) /\ 1 \in 1..Size /\ Size \in 1..Size /\ Size + 1 \in 1..(Len(s) + 1)
    BY <1>1
  <1>3. p[1] = a /\ p[Size] = s[Size]
    BY <1>2, PrefixFacts
  <1>4. T # {}
    <2> SUFFICES ASSUME T = {}
                 PROVE  FALSE
      OBVIOUS
    <2>1. Size - 1 \in Nat /\ \A j \in 0..(Size - 1) : Contains(s, s[1] + j)
      BY <1>1, SMTT(30)
    <2>2. s[1 + (Size - 1)] = s[1] + (Size - 1)
      BY <1>1, <2>1, RunTogether
    <2>3. 1 + (Size - 1) = Size /\ s[1] + (Size - 1) = s[1] + Size - 1
      BY <1>1
    <2> QED BY <1>3, <2>2, <2>3 DEF Ts!Whole
  <1>5. T \in SUBSET Nat
    BY <1>1
  <1>6. PICK j \in T : \A i \in T : j <= i
    BY <1>4, <1>5, LeastNumber
  <1>7. j \in 0..(Size - 1) /\ ~Contains(s, a + j)
    BY <1>6
  <1>8. \A i \in 0..(Size - 1) : i < j => Contains(s, a + i)
    BY <1>1, <1>6
  <1> HIDE DEF T, p, a
  <1>9. j # 0
    <2>1. Contains(s, a) /\ a + 0 = a
      BY <1>1 DEF Contains, a
    <2> QED BY <1>7, <2>1
  <1> DEFINE x == a + (j - 1)
  <1>10. x \in Nat /\ x + 1 = a + j /\ j - 1 \in 0..(Size - 1) /\ j - 1 < j /\ j - 1 \in Nat
    BY <1>1, <1>7, <1>9
  <1>11. ~Ts!Starts(a + j)
    <2>1. Ts!PacketOf(a + j) = a
      BY <1>1, <1>7, PacketFacts DEF a
    <2>2. a + j \in Nat /\ a + j # a
      BY <1>1, <1>7, <1>9
    <2> QED BY <2>1, <2>2, PacketFacts
  <1>12. x \in GapsOf(s)
    BY <1>7, <1>8, <1>10, <1>11 DEF GapsOf
  <1>13. s[j] = x
    <2>1. \A i \in 0..(j - 1) : i \in 0..(Size - 1) /\ i < j
      BY <1>1, <1>7
    <2>2. \A i \in 0..(j - 1) : Contains(s, s[1] + i)
      BY <1>8, <2>1 DEF a
    <2>3. s[1 + (j - 1)] = s[1] + (j - 1)
      BY <1>1, <1>10, <2>2, RunTogether
    <2>4. 1 + (j - 1) = j
      BY <1>7
    <2> QED BY <2>3, <2>4 DEF a
  <1> HIDE DEF x
  <1>14. x \notin GapsOf(t)
    <2> SUFFICES ASSUME x \in GapsOf(t)
                 PROVE  FALSE
      OBVIOUS
    <2>1. PICK i \in (Size + 1)..Len(s) : s[i] = x
      BY <1>2, GapsDrop
    <2>2. i \in 1..Len(s) /\ j \in 1..Len(s) /\ j < i
      BY <1>1, <1>7, <1>9
    <2>3. s[j] < s[i]
      BY <2>2 DEF Ascending
    <2> QED BY <1>10, <1>13, <2>1, <2>3
  <1>15. IsFiniteSet(GapsOf(s)) /\ GapsOf(t) \subseteq GapsOf(s)
    BY <1>2, GapsFinite, GapsDrop
  <1> HIDE DEF t
  <1> DEFINE H == GapsOf(s) \ {x}
  <1>16. IsFiniteSet(H) /\ Cardinality(H) = Cardinality(GapsOf(s)) - 1
    BY <1>12, <1>15, FS_RemoveElement
  <1>17. GapsOf(t) \in SUBSET H
    BY <1>14, <1>15
  <1> HIDE DEF H
  <1>18. Cardinality(GapsOf(t)) <= Cardinality(H) /\ IsFiniteSet(GapsOf(t))
    BY <1>16, <1>17, FS_Subset
  <1>19. Cardinality(GapsOf(t)) \in Nat /\ Cardinality(GapsOf(s)) \in Nat
    BY <1>15, <1>18, FS_CardinalityType
  <1>20. Cardinality(GapsOf(t)) + 1 <= Cardinality(GapsOf(s))
    BY <1>16, <1>18, <1>19
  <1> QED BY <1>20 DEF t

(* A packet that comes out adds one at most to those in pieces.            *)
LEMMA BrokenAppend ==
    ASSUME NEW o \in Seq(Seq(Nat)), NEW p \in Seq(Nat)
    PROVE  Cardinality(BrokenOf(Append(o, p))) <=
              Cardinality(BrokenOf(o)) + (IF Ts!Whole(p) THEN 0 ELSE 1)
  <1> DEFINE U == Seq(Nat)
             B == BrokenOf(o)
  <1>1. IsFiniteSet(B) /\ Cardinality(B) \in Nat
    BY BrokenFinite, FS_CardinalityType
  <1>2. o \in Seq(U) /\ p \in U
    OBVIOUS
  <1> HIDE DEF U
  <1>3. /\ DOMAIN Append(o, p) = 1..(Len(o) + 1) /\ DOMAIN o = 1..Len(o) /\ Len(o) \in Nat
        /\ Append(o, p)[Len(o) + 1] = p
        /\ \A i \in 1..Len(o) : Append(o, p)[i] = o[i]
    BY <1>2, AppendProperties, LenProperties
  <1> DEFINE q == Append(o, p)
  <1> HIDE DEF q
  <1>4. ASSUME NEW i \in BrokenOf(q), i \notin B
        PROVE  i = Len(o) + 1 /\ ~Ts!Whole(p)
    BY <1>3, <1>4 DEF BrokenOf, q
  <1>5. CASE Ts!Whole(p)
    <2>1. BrokenOf(q) \in SUBSET B
      BY <1>4, <1>5
    <2>2. Cardinality(BrokenOf(q)) <= Cardinality(B)
      BY <1>1, <2>1, FS_Subset
    <2> QED BY <1>1, <1>5, <2>2 DEF q
  <1>6. CASE ~Ts!Whole(p)
    <2> DEFINE H == B \cup {Len(o) + 1}
    <2>1. BrokenOf(q) \in SUBSET H
      BY <1>4
    <2>2. IsFiniteSet(H) /\ Cardinality(H) <= Cardinality(B) + 1
      <3>1. /\ IsFiniteSet(H)
            /\ Cardinality(H) = IF Len(o) + 1 \in B THEN Cardinality(B) ELSE Cardinality(B) + 1
        BY <1>1, FS_AddElement
      <3> QED BY <1>1, <3>1
    <2> HIDE DEF H
    <2>3. Cardinality(BrokenOf(q)) <= Cardinality(H)
      BY <2>1, <2>2, FS_Subset
    <2>4. Cardinality(BrokenOf(q)) \in Nat /\ Cardinality(H) \in Nat
      BY <2>1, <2>2, FS_Subset, FS_CardinalityType
    <2>5. Cardinality(BrokenOf(q)) <= Cardinality(B) + 1
      BY <1>1, <2>2, <2>3, <2>4
    <2> QED BY <1>6, <2>5 DEF q
  <1> QED BY <1>5, <1>6

-----------------------------------------------------------------------------
(* The packet loop: the invariant.                                         *)

Passed == FlattenSeq(out)

LEMMA SamePassed == \A s : Ts!FlattenSeq(s) = FlattenSeq(s)
  BY DEF Ts!FlattenSeq, FlattenSeq

LoopTypes ==
    /\ sent \in Nat /\ leftover \in Seq(Nat) /\ got \in Seq(Nat) /\ out \in Seq(Seq(Nat))
    /\ looping \in BOOLEAN /\ failed \in BOOLEAN /\ cuts \in Nat
    /\ alike \subseteq Nat /\ bad \subseteq Nat

WholeOnly == cuts = 0 /\ (alike = {} \/ bad = {})

LoopInv ==
    /\ LoopTypes
    /\ InOrderOf(Passed, leftover, got, sent)
    /\ WholeOnly => Shaped(Passed, leftover, got, sent, bad)
    /\ ~looping /\ ~failed => Len(leftover) < Size
    /\ alike = {} /\ bad = {} =>
          Cardinality(BrokenOf(out)) + Cardinality(GapsOf(leftover)) <= cuts

LEMMA LoopInit == Ts!ExtractAssumption /\ Ts!Init => LoopInv
  <1> SUFFICES ASSUME Ts!ExtractAssumption, Ts!Init
               PROVE  LoopInv
    OBVIOUS
  <1>1. /\ sent = 0 /\ leftover = <<>> /\ got = <<>> /\ out = <<>> /\ cuts = 0
        /\ looping = FALSE /\ failed = FALSE /\ alike \subseteq Nat /\ bad \subseteq Nat
    BY DEF Ts!Init, Ts!ExtractAssumption
  <1>2. <<>> \in Seq(Nat) /\ <<>> \in Seq(Seq(Nat)) /\ Len(<<>>) = 0
    BY EmptySeq
  <1>3. LoopTypes
    BY <1>1, <1>2 DEF LoopTypes
  <1>4. Passed = <<>>
    BY <1>1, FlattenEmpty DEF Passed
  <1>5. \A x : ~Contains(<<>>, x)
    BY DEF Contains
  <1>6. Ascending(<<>>)
    BY DEF Ascending
  <1>7. InOrderOf(Passed, leftover, got, sent)
    BY <1>1, <1>4, <1>5, <1>6 DEF InOrderOf, Precedes
  <1>8. Shaped(Passed, leftover, got, sent, bad)
    <2>1. Size \in Nat \ {0}
      BY DEF Ts!ExtractAssumption
    <2>2. 0 % Size = 0
      BY <2>1, Division
    <2> QED BY <1>1, <1>4, <1>5, <2>2 DEF Shaped, Ts!Starts
  <1>9. Len(leftover) < Size
    BY <1>1, <1>2 DEF Ts!ExtractAssumption
  <1>10. BrokenOf(out) = {} /\ GapsOf(leftover) = {}
    <2>1. DOMAIN <<>> = {}
      OBVIOUS
    <2> QED BY <1>1, <1>5, <2>1 DEF BrokenOf, GapsOf
  <1>11. Cardinality(BrokenOf(out)) + Cardinality(GapsOf(leftover)) <= cuts
    <2>1. Cardinality({}) = 0
      BY FS_EmptySet
    <2>2. Cardinality(BrokenOf(out)) = 0 /\ Cardinality(GapsOf(leftover)) = 0
      BY <1>10, <2>1
    <2> QED BY <1>1, <2>2
  <1> QED BY <1>3, <1>7, <1>8, <1>9, <1>11 DEF LoopInv

(* The loop cuts the bytes left over at a place behind the first.          *)
LEMMA RealignCuts ==
    ASSUME NEW s \in Seq(Nat), s # <<>>, ~Ts!Sync(s[1])
    PROVE  \E m \in 2..(Len(s) + 1) :
              /\ Ts!Realign(s) = SubSeq(s, m, Len(s))
              /\ \A i \in 1..(m - 1) : ~Ts!Sync(s[i])
  <1> DEFINE at == {i \in 1..Len(s) : Ts!Sync(s[i])}
  <1>1. Len(s) \in Nat /\ 1 \in 1..Len(s)
    BY EmptySeq, LenProperties
  <1>2. CASE at = {}
    <2>1. Ts!Realign(s) = <<>>
      BY <1>2 DEF Ts!Realign
    <2>2. SubSeq(s, Len(s) + 1, Len(s)) = <<>>
      BY <1>1
    <2>3. Len(s) + 1 \in 2..(Len(s) + 1) /\ (Len(s) + 1) - 1 = Len(s)
      BY <1>1
    <2> QED BY <1>2, <2>1, <2>2, <2>3
  <1>3. CASE at # {}
    <2>1. at \in SUBSET Nat
      BY <1>1
    <2>2. \E i \in at : \A j \in at : i <= j
      BY <1>3, <2>1, LeastNumber
    <2> DEFINE m == Ts!Min(at)
    <2>3. m \in at /\ \A j \in at : m <= j
      BY <2>2 DEF Ts!Min
    <2>4. Ts!Realign(s) = SubSeq(s, m, Len(s))
      BY <1>3 DEF Ts!Realign
    <2> HIDE DEF m
    <2>5. m \in 2..(Len(s) + 1) /\ m \in 1..Len(s)
      BY <1>1, <2>3
    <2>6. ASSUME NEW i \in 1..(m - 1)
          PROVE  ~Ts!Sync(s[i])
      <3>1. i \in 1..Len(s) /\ ~(m <= i)
        BY <1>1, <2>5
      <3> QED BY <2>3, <3>1
    <2> QED BY <2>4, <2>5, <2>6
  <1> QED BY <1>2, <1>3

(* The first bytes, while whole packets are sent: without a sync byte they *)
(* are of a packet given up, with one they are a packet.                   *)
LEMMA FrontBytes ==
    ASSUME Ts!ExtractAssumption, LoopInv, WholeOnly, Ts!Enough(leftover)
    PROVE  /\ Ts!Sync(leftover[1]) =>
                 /\ Ts!Starts(leftover[1])
                 /\ \A j \in 0..(Size - 1) : leftover[1 + j] = leftover[1] + j
           /\ \A i \in 1..Len(leftover) :
                 (\A j \in 1..i : ~Ts!Sync(leftover[j])) => ~LegalByte(leftover[i], bad)
  <1> DEFINE s == leftover
  <1>1. /\ s \in Seq(Nat) /\ Passed \in Seq(Nat) /\ got \in Seq(Nat) /\ sent \in Nat
        /\ Shaped(Passed, s, got, sent, bad) /\ Ascending(s)
    BY FlattenType DEF LoopInv, LoopTypes, InOrderOf, Passed
  <1>2. Len(s) \in Nat /\ Size \in Nat \ {0, 1} /\ Size <= Len(s) /\ s # <<>> /\ 1 \in 1..Len(s)
    BY <1>1, EmptySeq, LenProperties DEF Ts!Enough, Ts!ExtractAssumption
  <1>3. \A i \in 1..Len(s) : s[i] \in Nat
    BY <1>1, ElementOfSeq
  <1> HIDE DEF s
  <1>4. ASSUME NEW i \in 1..Len(s), LegalByte(s[i], bad)
        PROVE  \E j \in 1..i : Ts!Starts(s[j])
    <2> DEFINE p == Ts!PacketOf(s[i])
    <2>1. Contains(s, s[i])
      BY DEF Contains
    <2>2. Contains(s, p)
      BY <1>1, <1>4, <2>1, LegalByteWhole
    <2>3. p <= s[i] /\ Ts!Starts(p) /\ p \in Nat
      BY <1>3, PacketFacts
    <2>4. PICK j \in 1..Len(s) : s[j] = p
      BY <2>2 DEF Contains
    <2>5. ~(i < j)
      <3> SUFFICES ASSUME i < j
                   PROVE  FALSE
        OBVIOUS
      <3>1. s[i] < s[j]
        BY <1>1 DEF Ascending
      <3> HIDE DEF p
      <3> QED BY <1>3, <2>3, <2>4, <3>1
    <2>6. j \in 1..i
      BY <1>2, <2>5
    <2> QED BY <2>3, <2>4, <2>6
  <1>5. ASSUME Ts!Sync(s[1])
        PROVE  Ts!Starts(s[1])
    <2>1. CASE alike = {}
      BY <1>5, <2>1 DEF Ts!Sync
    <2>2. CASE bad = {}
      <3>1. LegalByte(s[1], bad)
        BY <2>2 DEF LegalByte
      <3>2. PICK j \in 1..1 : Ts!Starts(s[j])
        BY <1>2, <1>4, <3>1
      <3> QED BY <3>2
    <2> QED BY <2>1, <2>2 DEF WholeOnly
  <1>6. ASSUME Ts!Starts(s[1])
        PROVE  \A j \in 0..(Size - 1) : s[1 + j] = s[1] + j
    BY <1>1, <1>2, <1>6, PacketAtFront
  <1>7. ASSUME NEW i \in 1..Len(s), \A j \in 1..i : ~Ts!Sync(s[j])
        PROVE  ~LegalByte(s[i], bad)
    BY <1>4, <1>7 DEF Ts!Sync
  <1> QED BY <1>5, <1>6, <1>7 DEF s

(* A step that only drops bytes from the front, none of them legal while   *)
(* whole packets are sent.                                                 *)
LEMMA DropStep ==
    ASSUME Ts!ExtractAssumption, LoopInv, NEW m \in 1..(Len(leftover) + 1),
           WholeOnly => \A i \in 1..(m - 1) : ~LegalByte(leftover[i], bad),
           leftover' = SubSeq(leftover, m, Len(leftover)), looping,
           UNCHANGED <<sent, rtp, alike, bad, looping, batch, got, out, cuts, failed>>
    PROVE  LoopInv'
  <1> DEFINE s == leftover
             t == SubSeq(s, m, Len(s))
  <1>1. /\ s \in Seq(Nat) /\ Passed \in Seq(Nat) /\ got \in Seq(Nat) /\ sent \in Nat
        /\ InOrderOf(Passed, s, got, sent) /\ out \in Seq(Seq(Nat)) /\ cuts \in Nat
    BY FlattenType DEF LoopInv, LoopTypes, Passed
  <1>2. t \in Seq(Nat)
    BY <1>1, SuffixContains
  <1>3. InOrderOf(Passed, t, got, sent)
    BY <1>1, OrderDrops
  <1>4. ASSUME WholeOnly
        PROVE  Shaped(Passed, t, got, sent, bad)
    <2>1. Shaped(Passed, s, got, sent, bad) /\ Ascending(s)
      BY <1>1, <1>4 DEF LoopInv, InOrderOf
    <2>2. \A i \in 1..(m - 1) : ~LegalByte(s[i], bad)
      BY <1>4
    <2> QED BY <1>1, <2>1, <2>2, ShapeDrops
  <1>5. ASSUME alike = {}, bad = {}
        PROVE  Cardinality(BrokenOf(out)) + Cardinality(GapsOf(t)) <= cuts
    <2>1. Ascending(s) /\ \A x : Contains(s, x) => x < sent
      BY <1>1 DEF InOrderOf
    <2>2. Cardinality(GapsOf(t)) <= Cardinality(GapsOf(s))
      BY <1>1, <2>1, GapsDropCount
    <2>3. IsFiniteSet(BrokenOf(out)) /\ IsFiniteSet(GapsOf(s)) /\ IsFiniteSet(GapsOf(t))
      <3>1. \A x : Contains(t, x) => x < sent
        BY <1>3 DEF InOrderOf
      <3> QED BY <1>1, <1>2, <2>1, <3>1, BrokenFinite, GapsFinite
    <2>4. Cardinality(BrokenOf(out)) + Cardinality(GapsOf(s)) <= cuts
      BY <1>5 DEF LoopInv
    <2> DEFINE a == Cardinality(BrokenOf(out))
               b == Cardinality(GapsOf(s))
               c == Cardinality(GapsOf(t))
    <2>5. a \in Nat /\ b \in Nat /\ c \in Nat /\ c <= b /\ a + b <= cuts
      BY <2>2, <2>3, <2>4, FS_CardinalityType
    <2> HIDE DEF a, b, c
    <2>6. a + c <= cuts
      BY <1>1, <2>5
    <2> QED BY <2>6 DEF a, c
  <1> HIDE DEF t
  <1>6. leftover' = t /\ looping'
    BY DEF t
  <1>7. Passed' = Passed
    BY DEF Passed
  <1> QED BY <1>1, <1>2, <1>3, <1>4, <1>5, <1>6, <1>7 DEF LoopInv, LoopTypes, WholeOnly

-----------------------------------------------------------------------------
(* The packet loop: the steps.                                             *)

(* A datagram comes in, or is not taken.                                   *)
LEMMA DatagramStep ==
    ASSUME Ts!ExtractAssumption, LoopInv, NEW n \in DatagramSizes, Ts!Datagram(n)
    PROVE  LoopInv'
  <1> DEFINE s == leftover
             b == Bytes(sent, n)
             c == IF Ts!Starts(sent + n) THEN 0 ELSE 1
  <1>1. /\ s \in Seq(Nat) /\ Passed \in Seq(Nat) /\ got \in Seq(Nat) /\ sent \in Nat
        /\ InOrderOf(Passed, s, got, sent) /\ out \in Seq(Seq(Nat)) /\ cuts \in Nat
        /\ looping \in BOOLEAN /\ failed \in BOOLEAN
    BY FlattenType DEF LoopInv, LoopTypes, Passed
  <1>2. n \in Nat
    BY DEF Ts!ExtractAssumption
  <1>3. /\ sent' = sent + n /\ cuts' = cuts + c /\ out' = out /\ failed' = failed
        /\ alike' = alike /\ bad' = bad /\ Passed' = Passed /\ ~looping
        /\ \/ leftover' = s \o b /\ got' = got \o b /\ looping' = TRUE
           \/ leftover' = s /\ got' = got /\ looping' = looping
    BY DEF Ts!Datagram, Ts!fixed, Bytes, Passed
  <1>4. c \in {0, 1} /\ sent + n \in Nat /\ cuts + c \in Nat
    BY <1>1, <1>2
  <1>5. b \in Seq(Nat) /\ s \o b \in Seq(Nat) /\ got \o b \in Seq(Nat)
    <2>1. b \in Seq(Nat)
      BY <1>1, <1>2, BytesFacts
    <2> HIDE DEF b
    <2> QED BY <1>1, <2>1, ConcatProperties
  <1>6. InOrderOf(Passed, s \o b, got \o b, sent + n)
    BY <1>1, <1>2, OrderTakes
  <1>7. InOrderOf(Passed, s, got, sent + n)
    <2>1. \A x : Contains(got, x) => x \in Nat
      BY <1>1, ContainsType
    <2>2. \A x \in Nat : x < sent => x < sent + n
      BY <1>1, <1>2
    <2> QED BY <1>1, <2>1, <2>2 DEF InOrderOf
  <1>8. cuts + c = 0 => cuts = 0 /\ Ts!Starts(sent + n)
    BY <1>1
  <1>9. ASSUME WholeOnly, Ts!Starts(sent + n)
        PROVE  /\ Shaped(Passed, s \o b, got \o b, sent + n, bad)
               /\ Shaped(Passed, s, got, sent + n, bad)
    <2>1. Shaped(Passed, s, got, sent, bad)
      BY <1>9 DEF LoopInv
    <2>2. Shaped(Passed, s, got, sent + n, bad)
      BY <1>9, <2>1 DEF Shaped
    <2>3. Shaped(Passed, s \o b, got \o b, sent + n, bad)
      BY <1>1, <1>2, <1>9, <2>1, ShapeTakes
    <2> QED BY <2>2, <2>3
  <1>10. ASSUME alike = {}, bad = {}
         PROVE  /\ Cardinality(BrokenOf(out)) + Cardinality(GapsOf(s \o b)) <= cuts + c
                /\ Cardinality(BrokenOf(out)) + Cardinality(GapsOf(s)) <= cuts + c
    <2>1. (\A x : Contains(s, x) => x < sent) /\ \A x : Contains(s \o b, x) => x < sent + n
      BY <1>1, <1>6 DEF InOrderOf
    <2>2. Cardinality(GapsOf(s \o b)) <= Cardinality(GapsOf(s)) + c
      BY <1>1, <1>2, <2>1, GapsTake
    <2>3. IsFiniteSet(BrokenOf(out)) /\ IsFiniteSet(GapsOf(s)) /\ IsFiniteSet(GapsOf(s \o b))
      BY <1>1, <1>4, <1>5, <2>1, BrokenFinite, GapsFinite
    <2>4. Cardinality(BrokenOf(out)) + Cardinality(GapsOf(s)) <= cuts
      BY <1>10 DEF LoopInv
    <2> DEFINE x == Cardinality(BrokenOf(out))
               y == Cardinality(GapsOf(s))
               z == Cardinality(GapsOf(s \o b))
    <2>5. x \in Nat /\ y \in Nat /\ z \in Nat /\ z <= y + c /\ x + y <= cuts
      BY <2>2, <2>3, <2>4, FS_CardinalityType
    <2> HIDE DEF x, y, z, c
    <2>6. x + z <= cuts + c /\ x + y <= cuts + c
      BY <1>1, <1>4, <2>5
    <2> QED BY <2>6 DEF x, y, z
  <1>11. ~looping /\ ~failed => Len(s) < Size
    BY DEF LoopInv
  <1>12. alike \subseteq Nat /\ bad \subseteq Nat
    BY DEF LoopInv, LoopTypes
  <1> DEFINE sb == s \o b
             gb == got \o b
             n1 == sent + n
             c1 == cuts + c
  <1> HIDE DEF sb, gb, n1, c1, c
  <1>13. WholeOnly' => WholeOnly /\ Ts!Starts(n1)
    BY <1>3, <1>8 DEF WholeOnly, c1, n1
  <1>14. CASE leftover' = sb /\ got' = gb /\ looping' = TRUE
    BY <1>3, <1>4, <1>5, <1>6, <1>9, <1>10, <1>12, <1>13, <1>14, <1>1
       DEF LoopInv, LoopTypes, sb, gb, n1, c1
  <1>15. CASE leftover' = s /\ got' = got /\ looping' = looping
    BY <1>3, <1>4, <1>7, <1>9, <1>10, <1>11, <1>12, <1>13, <1>15, <1>1
       DEF LoopInv, LoopTypes, n1, c1
  <1> QED BY <1>3, <1>14, <1>15 DEF sb, gb

(* The loop goes on to the next byte that looks like a sync byte, or gives *)
(* up one byte of a packet that is refused.                                *)
LEMMA SkipStep ==
    ASSUME Ts!ExtractAssumption, LoopInv, Ts!SkipToSync
    PROVE  LoopInv'
  <1>1. /\ Ts!Enough(leftover) /\ looping /\ ~Ts!Sync(leftover[1])
        /\ leftover' = Ts!Realign(leftover)
        /\ UNCHANGED <<sent, rtp, alike, bad, looping, batch, got, out, cuts, failed>>
    BY DEF Ts!SkipToSync, Ts!Working, Ts!fixed
  <1>2. leftover \in Seq(Nat) /\ leftover # <<>>
    <2>1. leftover \in Seq(Nat) /\ Len(leftover) \in Nat
      BY LenProperties DEF LoopInv, LoopTypes
    <2>2. Len(leftover) # 0
      BY <1>1, <2>1 DEF Ts!Enough, Ts!ExtractAssumption
    <2> QED BY <2>1, <2>2, EmptySeq
  <1>3. PICK m \in 2..(Len(leftover) + 1) :
           /\ Ts!Realign(leftover) = SubSeq(leftover, m, Len(leftover))
           /\ \A i \in 1..(m - 1) : ~Ts!Sync(leftover[i])
    BY <1>1, <1>2, RealignCuts
  <1>4. Len(leftover) \in Nat
    BY <1>2, LenProperties
  <1>5. m \in 1..(Len(leftover) + 1) /\ \A i \in 1..(m - 1) : i \in 1..Len(leftover)
    BY <1>3, <1>4
  <1>6. ASSUME WholeOnly, NEW i \in 1..(m - 1)
        PROVE  ~LegalByte(leftover[i], bad)
    <2>1. \A j \in 1..i : j \in 1..(m - 1)
      BY <1>5
    <2> QED BY <1>1, <1>3, <1>5, <1>6, <2>1, FrontBytes
  <1> QED BY <1>1, <1>3, <1>5, <1>6, DropStep

(* A byte is dropped in search of the next packet.                         *)
LEMMA GiveUpStep ==
    ASSUME Ts!ExtractAssumption, LoopInv, Ts!DropByte
    PROVE  LoopInv'
  <1> DEFINE s == leftover
  <1>1. /\ Ts!Enough(s) /\ looping /\ Ts!Sync(s[1]) /\ Ts!MayRefuse
        /\ leftover' = Tail(s)
        /\ UNCHANGED <<sent, rtp, alike, bad, looping, batch, got, out, cuts, failed>>
    BY DEF Ts!DropByte, Ts!Working, Ts!fixed, Ts!GiveUp
  <1>2. s \in Seq(Nat) /\ Len(s) \in Nat /\ Size <= Len(s) /\ Size \in Nat \ {0, 1}
        /\ Header \in 1..Size
    BY <1>1, LenProperties DEF LoopInv, LoopTypes, Ts!Enough, Ts!ExtractAssumption
  <1>3. Tail(s) = SubSeq(s, 2, Len(s)) /\ 2 \in 1..(Len(s) + 1)
    <2>1. Len(s) # 0
      BY <1>2
    <2> HIDE DEF s
    <2> QED BY <1>2, <2>1
  <1>4. ASSUME WholeOnly, NEW i \in 1..(2 - 1)
        PROVE  ~LegalByte(s[i], bad)
    <2>1. i = 1
      OBVIOUS
    <2>2. Ts!Starts(s[1]) /\ \A j \in 0..(Size - 1) : s[1 + j] = s[1] + j
      BY <1>1, <1>4, FrontBytes
    <2>3. Size \in 0..Len(s) /\ 1 \in 1..Size
      BY <1>2
    <2>4. Ts!First[1] = s[1] /\ Ts!First[Header] = s[Header]
      BY <1>2, <2>3, PrefixFacts DEF Ts!First
    <2>5. s[1] \in Nat
      <3>1. 1 \in 1..Len(s)
        BY <1>2
      <3> QED BY <1>2, <3>1, ElementOfSeq
    <2>6. s[Header] = s[1] + Header - 1
      <3>1. Header - 1 \in 0..(Size - 1) /\ 1 + (Header - 1) = Header
        BY <1>2
      <3>2. s[1 + (Header - 1)] = s[1] + (Header - 1)
        BY <2>2, <3>1
      <3>3. s[1] + (Header - 1) = s[1] + Header - 1
        BY <1>2, <2>5
      <3> QED BY <3>1, <3>2, <3>3
    <2>7. Ts!HeaderWhole(Ts!First)
      BY <2>2, <2>4, <2>6 DEF Ts!HeaderWhole
    <2>8. s[1] \in bad
      BY <1>1, <2>4, <2>7 DEF Ts!MayRefuse
    <2>9. Ts!PacketOf(s[1]) = s[1]
      BY <2>2, <2>5, PacketFacts
    <2> QED BY <2>1, <2>8, <2>9 DEF LegalByte
  <1> HIDE DEF s
  <1>5. leftover' = SubSeq(leftover, 2, Len(leftover)) /\ 2 \in 1..(Len(leftover) + 1)
    BY <1>1, <1>3 DEF s
  <1>6. WholeOnly => \A i \in 1..(2 - 1) : ~LegalByte(leftover[i], bad)
    BY <1>4 DEF s
  <1> QED BY <1>1, <1>5, <1>6, DropStep

(* A packet comes out.                                                     *)
LEMMA ExtractStep ==
    ASSUME Ts!ExtractAssumption, LoopInv, Ts!Extract
    PROVE  LoopInv'
  <1> DEFINE s == leftover
             p == SubSeq(s, 1, Size)
             t == SubSeq(s, Size + 1, Len(s))
  <1>1. /\ Ts!Enough(s) /\ looping /\ Ts!Sync(s[1]) /\ Ts!MayPass
        /\ out' = Append(out, p) /\ leftover' = t
        /\ looping' \in BOOLEAN /\ failed' \in BOOLEAN /\ (looping' \/ failed')
        /\ UNCHANGED <<sent, alike, bad, got, cuts>>
    BY DEF Ts!Extract, Ts!Working, Ts!fixed, Ts!First, Ts!Rest, LoopInv, LoopTypes
  <1>2. /\ s \in Seq(Nat) /\ Passed \in Seq(Nat) /\ got \in Seq(Nat) /\ sent \in Nat
        /\ InOrderOf(Passed, s, got, sent) /\ out \in Seq(Seq(Nat)) /\ cuts \in Nat
        /\ alike \subseteq Nat /\ bad \subseteq Nat
    BY FlattenType DEF LoopInv, LoopTypes, Passed
  <1>3. /\ Len(s) \in Nat /\ Size <= Len(s) /\ Size \in Nat \ {0, 1} /\ Header \in 1..Size
        /\ Size \in 0..Len(s) /\ 1 \in 1..Size /\ 1 \in 1..Len(s)
        /\ Size + 1 \in 1..(Len(s) + 1)
    BY <1>1, <1>2, LenProperties DEF Ts!Enough, Ts!ExtractAssumption
  <1>4. p \in Seq(Nat) /\ p[1] = s[1] /\ \A i \in 1..Size : p[i] = s[i]
    BY <1>2, <1>3, PrefixFacts
  <1>5. t \in Seq(Nat)
    BY <1>2, <1>3, SuffixContains
  <1>6. FlattenSeq(Append(out, p)) = Passed \o p
    BY <1>2, <1>4, FlattenAppend DEF Passed
  <1>7. Append(out, p) \in Seq(Seq(Nat))
    <2> DEFINE U == Seq(Nat)
    <2>1. out \in Seq(U) /\ p \in U
      BY <1>2, <1>4
    <2> HIDE DEF U, p
    <2>2. Append(out, p) \in Seq(U)
      BY <2>1, AppendProperties
    <2> QED BY <2>2 DEF U
  <1>8. InOrderOf(Passed \o p, t, got, sent)
    BY <1>2, <1>3, OrderMoves
  <1>9. Ascending(s) /\ \A x : Contains(s, x) => x < sent
    BY <1>2 DEF InOrderOf
  <1>10. ASSUME WholeOnly
         PROVE  Shaped(Passed \o p, t, got, sent, bad)
    <2>1. Ts!Starts(s[1]) /\ \A j \in 0..(Size - 1) : s[1 + j] = s[1] + j
      BY <1>1, <1>10, FrontBytes
    <2>2. s[1] \in Nat
      BY <1>2, <1>3, ElementOfSeq
    <2>3. Ts!First[1] = s[1] /\ Ts!First[Header] = s[Header]
      BY <1>3, <1>4 DEF Ts!First
    <2>4. s[Header] = s[1] + Header - 1
      <3>1. Header - 1 \in 0..(Size - 1) /\ 1 + (Header - 1) = Header
        BY <1>3
      <3>2. s[1 + (Header - 1)] = s[1] + (Header - 1)
        BY <2>1, <3>1
      <3>3. s[1] + (Header - 1) = s[1] + Header - 1
        BY <1>3, <2>2
      <3> QED BY <3>1, <3>2, <3>3
    <2>5. Ts!HeaderWhole(Ts!First)
      BY <2>1, <2>3, <2>4 DEF Ts!HeaderWhole
    <2>6. s[1] \notin bad
      BY <1>1, <2>3, <2>5 DEF Ts!MayPass
    <2>7. Ts!PacketOf(s[1]) = s[1]
      BY <2>1, <2>2, PacketFacts
    <2>8. LegalByte(s[1], bad)
      BY <2>6, <2>7 DEF LegalByte
    <2>9. Shaped(Passed, s, got, sent, bad)
      BY <1>10 DEF LoopInv
    <2> QED BY <1>2, <1>3, <1>9, <2>1, <2>8, <2>9, ShapeMoves
  <1>11. ASSUME alike = {}, bad = {}
         PROVE  Cardinality(BrokenOf(Append(out, p))) + Cardinality(GapsOf(t)) <= cuts
    <2>1. Ts!Starts(s[1])
      BY <1>1, <1>11 DEF Ts!Sync
    <2> DEFINE w == IF Ts!Whole(p) THEN 0 ELSE 1
               x == Cardinality(BrokenOf(out))
               y == Cardinality(GapsOf(s))
               x1 == Cardinality(BrokenOf(Append(out, p)))
               y1 == Cardinality(GapsOf(t))
    <2>2. y1 <= y
      BY <1>2, <1>3, <1>9, GapsDropCount
    <2>3. ~Ts!Whole(p) => y1 + 1 <= y
      BY <1>2, <1>3, <1>9, <2>1, GapsMove
    <2>4. x1 <= x + w
      BY <1>2, <1>4, BrokenAppend
    <2>5. /\ IsFiniteSet(BrokenOf(out)) /\ IsFiniteSet(GapsOf(s)) /\ IsFiniteSet(GapsOf(t))
          /\ IsFiniteSet(BrokenOf(Append(out, p)))
      <3>1. \A z : Contains(t, z) => z < sent
        BY <1>8 DEF InOrderOf
      <3> QED BY <1>2, <1>5, <1>7, <1>9, <3>1, BrokenFinite, GapsFinite
    <2>6. x \in Nat /\ y \in Nat /\ x1 \in Nat /\ y1 \in Nat
      BY <2>5, FS_CardinalityType
    <2>7. x + y <= cuts
      BY <1>11 DEF LoopInv
    <2>8. w \in {0, 1} /\ (w = 1 => ~Ts!Whole(p))
      OBVIOUS
    <2> HIDE DEF w, x, y, x1, y1
    <2>9. y1 + w <= y
      BY <2>2, <2>3, <2>6, <2>8
    <2>10. x1 + y1 <= cuts
      BY <1>2, <2>4, <2>6, <2>7, <2>8, <2>9
    <2> QED BY <2>10 DEF x1, y1
  <1> DEFINE o1 == Append(out, p)
             f1 == Passed \o p
  <1>12. Passed' = f1
    BY <1>1, <1>6 DEF Passed
  <1> HIDE DEF o1, f1, t, p
  <1>13. out' = o1 /\ leftover' = t
    BY <1>1 DEF o1
  <1>14. WholeOnly' <=> WholeOnly
    BY <1>1 DEF WholeOnly
  <1>15. LoopTypes'
    BY <1>1, <1>2, <1>5, <1>7, <1>13 DEF LoopTypes, o1
  <1> QED BY <1>1, <1>8, <1>10, <1>11, <1>12, <1>13, <1>14, <1>15 DEF LoopInv, o1, f1

(* Every step of the packet loop keeps the invariant.                      *)
LEMMA LoopStep ==
    Ts!ExtractAssumption /\ LoopInv /\ [Ts!Next]_(Ts!vars) => LoopInv'
  <1> SUFFICES ASSUME Ts!ExtractAssumption, LoopInv, [Ts!Next]_(Ts!vars)
               PROVE  LoopInv'
    OBVIOUS
  <1>1. CASE UNCHANGED Ts!vars
    <2>1. UNCHANGED <<sent, leftover, got, out, looping, failed, cuts, alike, bad>>
      BY <1>1 DEF Ts!vars, Ts!fixed
    <2>2. Passed' = Passed /\ (WholeOnly' <=> WholeOnly)
      BY <2>1 DEF Passed, WholeOnly
    <2> QED BY <2>1, <2>2 DEF LoopInv, LoopTypes
  <1>2. CASE Ts!LoopEnds
    <2>1. UNCHANGED <<sent, leftover, got, out, failed, cuts, alike, bad>> /\ looping' = FALSE
      BY <1>2 DEF Ts!LoopEnds, Ts!fixed
    <2>2. Passed' = Passed /\ (WholeOnly' <=> WholeOnly)
      BY <2>1 DEF Passed, WholeOnly
    <2>3. Len(leftover) < Size
      <3>1. Len(leftover) \in Nat /\ Size \in Nat
        BY LenProperties DEF LoopInv, LoopTypes, Ts!ExtractAssumption
      <3> QED BY <1>2, <3>1 DEF Ts!LoopEnds, Ts!Enough
    <2> QED BY <2>1, <2>2, <2>3 DEF LoopInv, LoopTypes
  <1>3. CASE \E n \in DatagramSizes : Ts!Datagram(n)
    BY <1>3, DatagramStep
  <1> QED BY <1>1, <1>2, <1>3, SkipStep, GiveUpStep, ExtractStep DEF Ts!Next, Ts!Loop

(* A step of the parts is one of the loop when the loop runs.              *)
LEMMA LoopPart ==
    part = "loop" /\ [PartsNext]_partsVars => part' = part /\ [Ts!Next]_(Ts!vars)
  BY DEF PartsNext, partsVars, loopVars, history, Ts!vars, Ts!fixed

LoopAlways == part = "loop" => LoopInv

(* The invariant of the packet loop holds.                                 *)
LEMMA LoopHolds == PartsSpec => []LoopAlways
  <1>1. PartsInit => LoopAlways
    BY LoopInit, PartsAssumption DEF PartsInit, LoopAlways
  <1>2. LoopAlways /\ [PartsNext]_partsVars => LoopAlways'
    <2>1. [PartsNext]_partsVars => part' = part
      BY DEF PartsNext, partsVars
    <2> QED BY <2>1, LoopStep, LoopPart, PartsAssumption DEF LoopAlways
  <1> QED BY <1>1, <1>2, PTL DEF PartsSpec

(* Of any source, cut up by any loop of datagrams, the bytes come out in   *)
(* their order, and what is left over is behind them.                      *)
THEOREM BytesInOrderCorrect == PartsSpec => []BytesInOrder
  <1>1. LoopAlways => BytesInOrder
    <2> SUFFICES ASSUME LoopInv
                 PROVE  Ts!BytesInOrder
      BY DEF LoopAlways, BytesInOrder
    <2> DEFINE bytes == Passed \o leftover
    <2>1. /\ Passed \in Seq(Int) /\ leftover \in Seq(Int)
          /\ Ascending(Passed) /\ Ascending(leftover) /\ Precedes(Passed, leftover)
      <3>1. Passed \in Seq(Nat) /\ leftover \in Seq(Nat)
        BY FlattenType DEF LoopInv, LoopTypes, Passed
      <3> QED BY <3>1 DEF LoopInv, InOrderOf
    <2>2. bytes \in Seq(Int) /\ Ascending(bytes)
      BY <2>1, ConcatAscending, ConcatProperties
    <2>3. Ts!FlattenSeq(out) \o leftover = bytes
      BY SamePassed DEF Passed
    <2> HIDE DEF bytes
    <2>4. ASSUME NEW i \in 1..(Len(bytes) - 1)
          PROVE  bytes[i] < bytes[i + 1]
      <3>1. Len(bytes) \in Nat
        BY <2>2, LenProperties
      <3>2. i \in 1..Len(bytes) /\ i + 1 \in 1..Len(bytes) /\ i < i + 1
        BY <3>1
      <3> QED BY <2>2, <3>2 DEF Ascending
    <2> QED BY <2>3, <2>4 DEF Ts!BytesInOrder
  <1> QED BY <1>1, LoopHolds, PTL

(* What is left over when the loop has ended is of refused packets.        *)
LEMMA RestIsRefused ==
    ASSUME Ts!ExtractAssumption, LoopInv, WholeOnly, ~looping, ~failed
    PROVE  \A x : Contains(leftover, x) => Ts!PacketOf(x) \in bad
  <1>1. /\ leftover \in Seq(Nat) /\ Passed \in Seq(Nat) /\ got \in Seq(Nat) /\ sent \in Nat
        /\ Ascending(leftover) /\ Shaped(Passed, leftover, got, sent, bad)
        /\ Len(leftover) < Size
    BY FlattenType DEF LoopInv, LoopTypes, Passed, InOrderOf
  <1> SUFFICES ASSUME NEW x, Contains(leftover, x), LegalByte(x, bad)
               PROVE  FALSE
    BY DEF LegalByte
  <1>2. Size <= Len(leftover)
    BY <1>1, LegalByteWhole
  <1>3. Size \in Nat /\ Len(leftover) \in Nat
    BY <1>1, LenProperties DEF Ts!ExtractAssumption
  <1> QED BY <1>1, <1>2, <1>3

(* All that is legal has come out when the loop has ended.                 *)
LEMMA LegalPasses ==
    ASSUME Ts!ExtractAssumption, LoopInv, WholeOnly, ~looping, ~failed
    PROVE  Ts!FlattenSeq(out) = Ts!Legal(got)
  <1> DEFINE D == {i \in DOMAIN got : Ts!PacketOf(got[i]) \in bad}
             kept == FlattenSeq(Without(got, D))
  <1>1. /\ leftover \in Seq(Nat) /\ Passed \in Seq(Nat) /\ got \in Seq(Nat) /\ sent \in Nat
        /\ Ascending(Passed) /\ Ascending(got) /\ Shaped(Passed, leftover, got, sent, bad)
        /\ \A x : Contains(Passed, x) => Contains(got, x)
    BY FlattenType DEF LoopInv, LoopTypes, Passed, InOrderOf
  <1>2. DOMAIN got = 1..Len(got)
    BY <1>1, LenProperties
  <1>3. /\ kept \in Seq(Nat)
        /\ \A x : Contains(kept, x) <=> \E k \in 1..Len(got) : k \notin D /\ got[k] = x
    BY <1>1, WithoutContains
  <1>4. Ascending(kept)
    <2>1. got \in Seq(Int)
      BY <1>1
    <2> HIDE DEF D
    <2> QED BY <1>1, <2>1, WithoutAscending
  <1>5. [i \in DOMAIN got |-> IF Ts!PacketOf(got[i]) \in bad THEN <<>> ELSE <<got[i]>>]
          = Without(got, D)
    BY <1>2 DEF Without
  <1>6. Ts!Legal(got) = kept
    BY <1>5, SamePassed DEF Ts!Legal
  <1>7. \A x : (\E k \in 1..Len(got) : k \notin D /\ got[k] = x)
                  <=> Contains(got, x) /\ LegalByte(x, bad)
    BY <1>2 DEF Contains, LegalByte
  <1> HIDE DEF kept, D
  <1>8. \A x : Contains(Passed, x) <=> Contains(kept, x)
    BY <1>1, <1>3, <1>7, RestIsRefused DEF Shaped, LegalByte
  <1>9. Passed \in Seq(Int) /\ kept \in Seq(Int)
    BY <1>1, <1>3
  <1>10. Passed = kept
    BY <1>1, <1>4, <1>8, <1>9, AscendingSame
  <1> QED BY <1>6, <1>10, SamePassed DEF Passed

(* However the datagrams are cut, lost or refused: what is legal passes as *)
(* long as they hold whole packets, and one broken off breaks at most one  *)
(* packet.                                                                 *)
THEOREM PacketsPassCorrect == PartsSpec => []PacketsPass
  <1>1. LoopAlways => PacketsPass
    <2> SUFFICES ASSUME LoopInv
                 PROVE  Ts!PacketsPass
      BY DEF LoopAlways, PacketsPass
    <2>1. Ts!ExtractAssumption
      BY PartsAssumption
    <2>2. ASSUME ~looping, ~failed, cuts = 0, alike = {} \/ bad = {}
          PROVE  /\ \A i \in DOMAIN leftover : Ts!PacketOf(leftover[i]) \in bad
                 /\ Ts!FlattenSeq(out) = Ts!Legal(got)
      <3>1. WholeOnly
        BY <2>2 DEF WholeOnly
      <3>2. DOMAIN leftover = 1..Len(leftover)
        BY LenProperties DEF LoopInv, LoopTypes
      <3>3. \A i \in DOMAIN leftover : Contains(leftover, leftover[i])
        BY <3>2 DEF Contains
      <3> QED BY <2>1, <2>2, <3>1, <3>3, RestIsRefused, LegalPasses
    <2>3. ASSUME alike = {}, bad = {}
          PROVE  Cardinality(BrokenOf(out)) <= cuts
      <3>1. Cardinality(BrokenOf(out)) + Cardinality(GapsOf(leftover)) <= cuts
        BY <2>3 DEF LoopInv
      <3>2. /\ leftover \in Seq(Nat) /\ sent \in Nat /\ out \in Seq(Seq(Nat)) /\ cuts \in Nat
            /\ \A x : Contains(leftover, x) => x < sent
        BY DEF LoopInv, LoopTypes, InOrderOf
      <3>3. Cardinality(BrokenOf(out)) \in Nat /\ Cardinality(GapsOf(leftover)) \in Nat
        BY <3>2, BrokenFinite, GapsFinite, FS_CardinalityType
      <3> QED BY <3>1, <3>2, <3>3
    <2>4. Ts!Cardinality({i \in DOMAIN out : ~Ts!Whole(out[i])}) = Cardinality(BrokenOf(out))
      BY DEF Ts!Cardinality, Cardinality, BrokenOf
    <2> QED BY <2>2, <2>3, <2>4 DEF Ts!PacketsPass
  <1> QED BY <1>1, LoopHolds, PTL

-----------------------------------------------------------------------------
(* Recordings: what the players make of hours and segments.                *)

(* The segments of a recording, in their order, and their hours.           *)
LEMMA RecordingFacts ==
    ASSUME Agent!HourAssumption, NEW r, Agent!IsRecording(r)
    PROVE  /\ DOMAIN r = 1..Len(r) /\ Len(r) \in Nat
           /\ \A i \in 1..Len(r) : /\ r[i].start \in Nat /\ r[i].close \in Nat
                                   /\ r[i].start <= r[i].close
                                   /\ Agent!FiledIn(r, i) \in Nat
                                   /\ Agent!FiledIn(r, i) * HourLen <= r[i].close
           /\ \A i, j \in 1..Len(r) : i < j =>
                 /\ r[i].close <= r[j].start
                 /\ Agent!FiledIn(r, i) <= Agent!FiledIn(r, j)
  <1> DEFINE U == [start : Nat, close : Nat]
  <1>1. r \in Seq(U) /\ Len(r) \in Nat /\ DOMAIN r = 1..Len(r)
    <2>1. r \in Seq(U)
      BY DEF Agent!IsRecording
    <2> HIDE DEF U
    <2> QED BY <2>1, LenProperties
  <1>2. \A i \in 1..Len(r) : r[i] \in U
    <2> HIDE DEF U
    <2> QED BY <1>1, ElementOfSeq
  <1>3. \A i \in 1..Len(r) : r[i].start \in Nat /\ r[i].close \in Nat /\ r[i].start <= r[i].close
    BY <1>1, <1>2 DEF Agent!IsRecording
  <1>4. \A i \in 1..(Len(r) - 1) : r[i].close <= r[i + 1].start
    BY DEF Agent!IsRecording
  <1> HIDE DEF U
  <1>5. HourLen \in Nat \ {0}
    BY DEF Agent!HourAssumption
  <1>6. ASSUME NEW i \in 1..Len(r)
        PROVE  Agent!FiledIn(r, i) \in Nat /\ Agent!FiledIn(r, i) * HourLen <= r[i].close
    <2> DEFINE c == r[i].close
               q == c \div HourLen
               m == HourLen * q
               t == c % HourLen
    <2>1. c \in Nat
      BY <1>3
    <2>2. q \in Nat /\ t \in 0..(HourLen - 1) /\ c = m + t
      <3> HIDE DEF c
      <3> QED BY <1>5, <2>1, Division
    <2>3. Agent!FiledIn(r, i) = q
      BY DEF Agent!FiledIn, Agent!HourOf
    <2> HIDE DEF q, c, t
    <2>4. m \in Nat /\ q * HourLen = m
      BY <1>5, <2>2
    <2> HIDE DEF m
    <2>5. m <= c
      BY <1>5, <2>1, <2>2, <2>4
    <2> QED BY <2>2, <2>3, <2>4, <2>5 DEF c
  <1>7. ASSUME NEW i \in 1..Len(r)
        PROVE  \A j \in 1..Len(r) : i < j => r[i].close <= r[j].start
    <2> DEFINE T == {n \in Nat : i + n + 1 <= Len(r) => r[i].close <= r[i + n + 1].start}
    <2>1. 0 \in T
      <3>1. ASSUME i + 0 + 1 <= Len(r)
            PROVE  r[i].close <= r[i + 0 + 1].start
        <4>1. i \in 1..(Len(r) - 1) /\ i + 0 + 1 = i + 1
          BY <1>1, <3>1
        <4> QED BY <1>4, <4>1
      <3> QED BY <3>1
    <2>2. ASSUME NEW n \in Nat, n \in T
          PROVE  n + 1 \in T
      <3>1. ASSUME i + (n + 1) + 1 <= Len(r)
            PROVE  r[i].close <= r[i + (n + 1) + 1].start
        <4> DEFINE k == i + n + 1
        <4>1. k \in 1..(Len(r) - 1) /\ k \in 1..Len(r) /\ k <= Len(r) /\ i + (n + 1) + 1 = k + 1
              /\ k + 1 \in 1..Len(r)
          BY <1>1, <3>1
        <4>2. r[i].close <= r[k].start
          BY <2>2, <4>1
        <4> HIDE DEF k
        <4>3. r[k].close <= r[k + 1].start
          BY <1>4, <4>1
        <4>4. r[k].start <= r[k].close /\ r[k].start \in Nat /\ r[k].close \in Nat
              /\ r[i].close \in Nat /\ r[k + 1].start \in Nat
          BY <1>3, <4>1
        <4> DEFINE a == r[i].close
                   b == r[k].start
                   c == r[k].close
                   d == r[k + 1].start
        <4>5. a <= b /\ b <= c /\ c <= d /\ a \in Nat /\ b \in Nat /\ c \in Nat /\ d \in Nat
          BY <4>2, <4>3, <4>4
        <4> HIDE DEF a, b, c, d
        <4>6. a <= d
          BY <4>5
        <4> QED BY <4>1, <4>6 DEF a, d
      <3> QED BY <3>1
    <2>3. Nat \subseteq T
      <3> HIDE DEF T
      <3> QED BY <2>1, <2>2, SetInduction
    <2>4. ASSUME NEW j \in 1..Len(r), i < j
          PROVE  r[i].close <= r[j].start
      <3> DEFINE n == j - i - 1
      <3>1. n \in Nat /\ i + n + 1 = j /\ j <= Len(r)
        BY <1>1, <2>4
      <3> HIDE DEF n
      <3>2. n \in T
        BY <2>3, <3>1
      <3>3. i + n + 1 <= Len(r) => r[i].close <= r[i + n + 1].start
        BY <3>2
      <3> QED BY <3>1, <3>3
    <2> QED BY <2>4
  <1>8. ASSUME NEW i \in 1..Len(r), NEW j \in 1..Len(r), i < j
        PROVE  Agent!FiledIn(r, i) <= Agent!FiledIn(r, j)
    <2> DEFINE a == r[i].close
               b == r[j].close
    <2>1. a \in Nat /\ b \in Nat /\ a <= b
      <3> DEFINE c == r[j].start
      <3>1. a \in Nat /\ b \in Nat /\ c \in Nat /\ a <= c /\ c <= b
        BY <1>3, <1>7, <1>8
      <3> HIDE DEF a, b, c
      <3> QED BY <3>1
    <2> HIDE DEF a, b
    <2>2. a \div HourLen <= b \div HourLen
      BY <1>5, <2>1, DivisionGrows
    <2> QED BY <2>2 DEF a, b, Agent!FiledIn, Agent!HourOf
  <1> QED BY <1>1, <1>3, <1>6, <1>7, <1>8

(* A set of hours, in order, is each of them once.                         *)
LEMMA InOrderFacts ==
    ASSUME NEW S \in SUBSET Nat, IsFiniteSet(S)
    PROVE  /\ Agent!InOrder(S) \in Seq(S) /\ Len(Agent!InOrder(S)) = Cardinality(S)
           /\ \A x : Contains(Agent!InOrder(S), x) <=> x \in S
           /\ Ascending(Agent!InOrder(S))
  <1> DEFINE e == Agent!InOrder(S)
  <1>1. e = [k \in 1..Cardinality(S) |->
                CHOOSE n \in S : Cardinality({m \in S : m < n}) = k - 1]
    BY DEF Agent!InOrder, Agent!Cardinality, Cardinality
  <1> HIDE DEF e
  <1>2. /\ e \in Seq(S) /\ Len(e) = Cardinality(S)
        /\ \A x : Contains(e, x) <=> x \in S
        /\ Ascending(e)
    BY <1>1, NumbersInOrder
  <1> QED BY <1>2 DEF e

(* The index of an hour holds, in order, the segments filed in it.         *)
LEMMA HourIndexFacts ==
    ASSUME Agent!HourAssumption, NEW r, Agent!IsRecording(r), NEW h
    PROVE  /\ Agent!HourIndex(r, h) \in Seq(Nat) /\ Ascending(Agent!HourIndex(r, h))
           /\ \A x : Contains(Agent!HourIndex(r, h), x) <=>
                        x \in DOMAIN r /\ Agent!FiledIn(r, x) = h
  <1> DEFINE S == {i \in DOMAIN r : Agent!FiledIn(r, i) = h}
             e == Agent!InOrder(S)
  <1>1. DOMAIN r = 1..Len(r) /\ Len(r) \in Nat
    BY RecordingFacts
  <1>2. S \in SUBSET Nat /\ IsFiniteSet(S)
    <2>1. IsFiniteSet(1..Len(r)) /\ S \in SUBSET (1..Len(r))
      BY <1>1, FS_Interval
    <2>2. IsFiniteSet(S)
      BY <2>1, FS_Subset
    <2> QED BY <1>1, <2>2
  <1>3. Agent!HourIndex(r, h) = e
    BY DEF Agent!HourIndex
  <1>4. \A x : x \in S <=> x \in DOMAIN r /\ Agent!FiledIn(r, x) = h
    OBVIOUS
  <1> HIDE DEF S
  <1>5. e \in Seq(S) /\ Ascending(e) /\ \A x : Contains(e, x) <=> x \in S
    BY <1>2, InOrderFacts
  <1> HIDE DEF e
  <1>6. e \in Seq(Nat)
    BY <1>2, <1>5, SeqMonotonic
  <1> QED BY <1>3, <1>4, <1>5, <1>6

-----------------------------------------------------------------------------
(* The playlist of a playback.                                             *)

(* The hours s of a recording, in their order, one behind the other.       *)
LEMMA HoursJoined ==
    ASSUME Agent!HourAssumption, NEW r, Agent!IsRecording(r),
           NEW s, s \subseteq Agent!HoursFiled(r), NEW c,
           c = Agent!FlattenSeq([k \in 1..Agent!Cardinality(s) |->
                                   Agent!HourIndex(r, Agent!Listing(s)[k])])
    PROVE  /\ c \in Seq(Nat) /\ Ascending(c)
           /\ \A x : Contains(c, x) <=> x \in DOMAIN r /\ Agent!FiledIn(r, x) \in s
  <1> DEFINE e == Agent!InOrder(s)
             n == Cardinality(s)
             ss == [k \in 1..n |-> Agent!HourIndex(r, e[k])]
             Filed(x) == Agent!FiledIn(r, x)
  <1>1. DOMAIN r = 1..Len(r) /\ Len(r) \in Nat
    BY RecordingFacts
  <1>2. \A i \in DOMAIN r : Filed(i) \in Nat
    BY <1>1, RecordingFacts
  <1>3. s \in SUBSET Nat /\ IsFiniteSet(s)
    <2>1. s \in SUBSET Nat
      BY <1>2 DEF Agent!HoursFiled
    <2>2. IsFiniteSet(DOMAIN r)
      BY <1>1, FS_Interval
    <2>3. IsFiniteSet({Filed(i) : i \in DOMAIN r})
      <3> DEFINE D == DOMAIN r
                 T == {Filed(i) : i \in D}
                 f == [i \in D |-> Filed(i)]
      <3>1. f \in Surjection(D, T)
        BY DEF Surjection
      <3> HIDE DEF f, D, T
      <3>2. IsFiniteSet(T)
        BY <2>2, <3>1, FS_Surjection DEF D
      <3> QED BY <3>2 DEF T, D
    <2>4. IsFiniteSet(Agent!HoursFiled(r))
      BY <2>3 DEF Agent!HoursFiled
    <2> QED BY <2>1, <2>4, FS_Subset
  <1>4. /\ e \in Seq(s) /\ Len(e) = n /\ n \in Nat /\ Ascending(e)
        /\ \A x : Contains(e, x) <=> x \in s
    BY <1>3, InOrderFacts, FS_CardinalityType
  <1>5. c = FlattenSeq(ss)
    <2>1. Agent!Cardinality(s) = n
      BY DEF Agent!Cardinality, Cardinality
    <2>2. \A q : Agent!FlattenSeq(q) = FlattenSeq(q)
      BY DEF Agent!FlattenSeq, FlattenSeq
    <2>3. [k \in 1..Agent!Cardinality(s) |-> Agent!HourIndex(r, Agent!Listing(s)[k])] = ss
      BY <2>1 DEF Agent!Listing
    <2> HIDE DEF ss, n
    <2> QED BY <2>2, <2>3
  <1>6. \A k \in 1..n : e[k] \in s /\ e[k] \in Nat
    BY <1>3, <1>4, ElementOfSeq
  <1> HIDE DEF e, n
  <1>7. ASSUME NEW k \in 1..n
        PROVE  /\ ss[k] \in Seq(Nat) /\ Ascending(ss[k])
               /\ \A x : Contains(ss[k], x) <=> x \in DOMAIN r /\ Filed(x) = e[k]
    BY HourIndexFacts
  <1>8. ss \in Seq(Seq(Nat)) /\ ss \in Seq(Seq(Int)) /\ Len(ss) = n
    <2> DEFINE U == Seq(Nat)
               V == Seq(Int)
    <2>1. \A k \in 1..n : ss[k] \in U /\ ss[k] \in V
      <3>1. \A q : q \in U => q \in V
        BY SeqMonotonic
      <3> QED BY <1>7, <3>1
    <2>2. ss = [k \in 1..n |-> ss[k]]
      OBVIOUS
    <2> HIDE DEF U, V, ss
    <2>3. ss \in [1..n -> U] /\ ss \in [1..n -> V]
      BY <2>1, <2>2
    <2>4. ss \in Seq(U) /\ ss \in Seq(V) /\ Len(ss) = n
      BY <1>4, <2>3, FunctionSeq
    <2> QED BY <2>4 DEF U, V
  <1> HIDE DEF ss
  <1>9. ASSUME NEW k \in 1..n, NEW l \in 1..n, k < l
        PROVE  Precedes(ss[k], ss[l])
    <2>1. e[k] < e[l]
      BY <1>4, <1>9 DEF Ascending
    <2> SUFFICES ASSUME NEW x, NEW y, Contains(ss[k], x), Contains(ss[l], y)
                 PROVE  x < y
      BY DEF Precedes
    <2>2. x \in 1..Len(r) /\ y \in 1..Len(r) /\ Filed(x) = e[k] /\ Filed(y) = e[l]
      BY <1>1, <1>7
    <2>3. ASSUME ~(x < y)
          PROVE  FALSE
      <3>1. x = y \/ y < x
        BY <1>1, <2>2, <2>3
      <3>2. y < x => Filed(y) <= Filed(x)
        BY <2>2, RecordingFacts
      <3> HIDE DEF Filed
      <3>3. e[l] <= e[k]
        BY <1>6, <2>2, <3>1, <3>2
      <3> QED BY <1>6, <2>1, <3>3
    <2> QED BY <2>3
  <1>10. Ascending(FlattenSeq(ss))
    <2>1. \A k \in 1..Len(ss) : Ascending(ss[k])
      BY <1>7, <1>8
    <2>2. \A k, l \in 1..Len(ss) : k < l => Precedes(ss[k], ss[l])
      BY <1>8, <1>9
    <2> QED BY <1>8, <2>1, <2>2, FlattenAscending
  <1>11. \A x : Contains(FlattenSeq(ss), x) <=> \E k \in 1..n : Contains(ss[k], x)
    BY <1>8, FlattenContains
  <1>12. FlattenSeq(ss) \in Seq(Nat)
    BY <1>8, FlattenType
  <1>13. \A x : Contains(e, x) <=> \E k \in 1..n : e[k] = x
    BY <1>4 DEF Contains
  <1> HIDE DEF Filed
  <1>14. \A x : Contains(FlattenSeq(ss), x) <=> x \in DOMAIN r /\ Filed(x) \in s
    BY <1>4, <1>7, <1>11, <1>13
  <1> QED BY <1>5, <1>10, <1>12, <1>14 DEF Filed

AgentInv ==
    /\ Agent!IsRecording(rec) /\ range \in (Nat \X Nat) \cup {Agent!NoRange}
    /\ pc \in {"list", "combine", "playing", "refused"}
    /\ pc \in {"combine", "playing"} =>
          hours = {h \in Agent!HoursFiled(rec) \ unread : Agent!Wanted(h)}
    /\ pc = "playing" =>
          /\ combined \in Seq(Nat) /\ Ascending(combined)
          /\ \A x : Contains(combined, x) <=>
                       x \in DOMAIN rec /\ Agent!FiledIn(rec, x) \in hours

LEMMA AgentInit == Agent!VodAssumption /\ Agent!Init => AgentInv
  BY DEF Agent!VodAssumption, Agent!Init, AgentInv

(* Every step of the agent keeps the invariant.                            *)
LEMMA AgentStep ==
    ASSUME Agent!HourAssumption, AgentInv, [Agent!Next]_(Agent!vars)
    PROVE  AgentInv'
  <1>1. CASE Agent!List
    <2>1. rec' = rec /\ range' = range
      BY <1>1 DEF Agent!List
    <2>2. hours' = {h \in Agent!HoursFiled(rec) \ unread' : Agent!Wanted(h)}
      BY <1>1 DEF Agent!List
    <2>3. hours' = {h \in Agent!HoursFiled(rec') \ unread' : Agent!Wanted(h)'}
      BY <2>1, <2>2 DEF Agent!Wanted
    <2>4. pc' \in {"combine", "refused"}
      BY <1>1 DEF Agent!List
    <2> QED BY <2>1, <2>3, <2>4 DEF AgentInv
  <1>2. CASE Agent!Combine
    <2>1. /\ rec' = rec /\ range' = range /\ hours' = hours /\ unread' = unread
          /\ pc = "combine" /\ pc' = "playing"
          /\ combined' = Agent!FlattenSeq([k \in 1..Agent!Cardinality(hours) |->
                            Agent!HourIndex(rec, Agent!Listing(hours)[k])])
      BY <1>2 DEF Agent!Combine
    <2>2. hours = {h \in Agent!HoursFiled(rec) \ unread : Agent!Wanted(h)}
      BY <2>1 DEF AgentInv
    <2>3. hours \subseteq Agent!HoursFiled(rec)
      BY <2>2
    <2>4. /\ combined' \in Seq(Nat) /\ Ascending(combined')
          /\ \A x : Contains(combined', x) <=>
                       x \in DOMAIN rec /\ Agent!FiledIn(rec, x) \in hours
      BY <2>1, <2>3, HoursJoined DEF AgentInv
    <2>5. hours' = {h \in Agent!HoursFiled(rec') \ unread' : Agent!Wanted(h)'}
      BY <2>1, <2>2 DEF Agent!Wanted
    <2> QED BY <2>1, <2>4, <2>5 DEF AgentInv
  <1>3. CASE Agent!Refuse
    <2>1. rec' = rec /\ range' = range /\ pc' = "refused"
      BY <1>3 DEF Agent!Refuse
    <2> QED BY <2>1 DEF AgentInv
  <1>4. CASE UNCHANGED Agent!vars
    <2>1. UNCHANGED <<rec, range, pc, hours, unread, combined>>
      BY <1>4 DEF Agent!vars
    <2> QED BY <2>1 DEF AgentInv, Agent!Wanted
  <1> QED BY <1>1, <1>2, <1>3, <1>4 DEF Agent!Next, Agent!Done

(* A step of the parts is one of the agent when the agent runs.            *)
LEMMA AgentPart ==
    part = "agent" /\ [PartsNext]_partsVars => part' = part /\ [Agent!Next]_(Agent!vars)
  BY DEF PartsNext, partsVars, agentVars, playerVars, Agent!vars

(* The assumption of the players on the length of an hour.                 *)
LEMMA HourLenPositive == Agent!HourAssumption /\ HourLen \in Nat \ {0}
  BY PartsAssumption DEF Agent!HourAssumption, Index!HourAssumption

AgentAlways == part = "agent" => AgentInv

(* The invariant of the agent's playlist holds.                            *)
LEMMA AgentHolds == PartsSpec => []AgentAlways
  <1>1. PartsInit => AgentAlways
    BY AgentInit, PartsAssumption DEF PartsInit, AgentAlways
  <1>2. AgentAlways /\ [PartsNext]_partsVars => AgentAlways'
    <2>1. [PartsNext]_partsVars => part' = part
      BY DEF PartsNext, partsVars
    <2> QED BY <2>1, AgentStep, AgentPart, HourLenPositive DEF AgentAlways
  <1> QED BY <1>1, <1>2, PTL DEF PartsSpec

(* What the agent combines of the hours it could read is in the order it   *)
(* was recorded, holds the hours that begin in the range, as far as it     *)
(* goes, and has no hole of its own making.                                *)
THEOREM CombinedWholeCorrect == PartsSpec => []CombinedWhole
  <1>1. AgentAlways => CombinedWhole
    <2> SUFFICES ASSUME AgentInv, pc = "playing"
                 PROVE  /\ \A k, l \in DOMAIN combined : k < l => combined[k] < combined[l]
                        /\ \A i \in Agent!Segs :
                             /\ Agent!FiledIn(rec, i) \notin unread
                             /\ range # Agent!NoRange =>
                                  /\ range[1] <= Agent!FiledIn(rec, i) * HourLen
                                  /\ rec[i].close <= range[2]
                             => i \in Agent!Range(combined)
                        /\ unread = {} =>
                             \A k \in 1..(Len(combined) - 1) : combined[k + 1] = combined[k] + 1
      BY DEF AgentAlways, CombinedWhole, Agent!CombinedWhole
    <2> DEFINE Filed(i) == Agent!FiledIn(rec, i)
    <2>1. /\ combined \in Seq(Nat) /\ Ascending(combined)
          /\ \A x : Contains(combined, x) <=> x \in DOMAIN rec /\ Filed(x) \in hours
          /\ hours = {h \in Agent!HoursFiled(rec) \ unread : Agent!Wanted(h)}
          /\ Agent!IsRecording(rec) /\ range \in (Nat \X Nat) \cup {Agent!NoRange}
      BY DEF AgentInv
    <2>2. DOMAIN combined = 1..Len(combined) /\ Len(combined) \in Nat
      BY <2>1, LenProperties
    <2>3. \A k \in 1..Len(combined) : combined[k] \in Nat
      BY <2>1, ElementOfSeq
    <2>4. Agent!HourAssumption /\ HourLen \in Nat \ {0}
      BY HourLenPositive
    <2>5. /\ DOMAIN rec = 1..Len(rec) /\ Len(rec) \in Nat
          /\ \A i \in 1..Len(rec) : rec[i].close \in Nat /\ Filed(i) \in Nat
                                    /\ Filed(i) * HourLen <= rec[i].close
          /\ \A i, j \in 1..Len(rec) : i < j => Filed(i) <= Filed(j)
      BY <2>1, <2>4, RecordingFacts
    <2>6. \A i \in DOMAIN rec : Filed(i) \in Agent!HoursFiled(rec)
      BY DEF Agent!HoursFiled
    <2> HIDE DEF Filed
    <2>7. ASSUME NEW i \in DOMAIN rec, Filed(i) \notin unread,
                 range # Agent!NoRange => range[1] <= Filed(i) * HourLen /\ rec[i].close <= range[2]
          PROVE  i \in Agent!Range(combined)
      <3>1. Agent!Wanted(Filed(i))
        <4>1. CASE range = Agent!NoRange
          BY <4>1 DEF Agent!Wanted
        <4>2. CASE range # Agent!NoRange
          <5>1. range[1] \in Nat /\ range[2] \in Nat
            BY <2>1, <4>2
          <5> DEFINE a == Filed(i) * HourLen
                     b == rec[i].close
                     c == range[2]
          <5>2. a \in Nat /\ b \in Nat /\ c \in Nat /\ a <= b /\ b <= c
            BY <2>4, <2>5, <2>7, <4>2, <5>1
          <5> HIDE DEF a, b, c
          <5>3. a <= c
            BY <5>2
          <5> QED BY <2>7, <4>2, <5>3 DEF Agent!Wanted, a, c
        <4> QED BY <4>1, <4>2
      <3>2. Filed(i) \in hours
        BY <2>1, <2>6, <2>7, <3>1
      <3>3. Contains(combined, i)
        BY <2>1, <3>2
      <3> QED BY <2>2, <3>3 DEF Contains, Agent!Range
    <2>8. ASSUME unread = {}, NEW k \in 1..(Len(combined) - 1)
          PROVE  combined[k + 1] = combined[k] + 1
      <3> DEFINE a == combined[k]
                 b == combined[k + 1]
                 m == a + 1
      <3>1. k \in 1..Len(combined) /\ k + 1 \in 1..Len(combined) /\ k < k + 1
        BY <2>2
      <3>2. a \in Nat /\ b \in Nat /\ a < b /\ m \in Nat
        BY <2>1, <2>3, <3>1 DEF Ascending
      <3>3. a \in 1..Len(rec) /\ b \in 1..Len(rec) /\ Filed(a) \in hours /\ Filed(b) \in hours
        BY <2>1, <2>5, <3>1 DEF Contains
      <3> HIDE DEF a, b
      <3>4. SUFFICES ASSUME m < b
                     PROVE  FALSE
        BY <3>2 DEF a, b
      <3>5. m \in 1..Len(rec) /\ a < m
        BY <2>5, <3>2, <3>3, <3>4
      <3> HIDE DEF m
      <3>6. Filed(a) <= Filed(m) /\ Filed(m) <= Filed(b)
        BY <2>5, <3>3, <3>4, <3>5
      <3>7. Agent!Wanted(Filed(m))
        <4>1. CASE range = Agent!NoRange
          BY <4>1 DEF Agent!Wanted
        <4>2. CASE range # Agent!NoRange
          <5>1. range[1] \in Nat /\ range[2] \in Nat
            BY <2>1, <4>2
          <5>2. range[1] <= Filed(a) * HourLen /\ Filed(b) * HourLen <= range[2]
            BY <2>1, <3>3, <4>2 DEF Agent!Wanted
          <5> DEFINE x == Filed(a)
                     y == Filed(m)
                     z == Filed(b)
                     lo == range[1]
                     hi == range[2]
          <5>3. x \in Nat /\ y \in Nat /\ z \in Nat /\ x <= y /\ y <= z /\ lo \in Nat /\ hi \in Nat
                /\ lo <= x * HourLen /\ z * HourLen <= hi
            BY <2>5, <3>3, <3>5, <3>6, <5>1, <5>2
          <5> HIDE DEF x, y, z, lo, hi
          <5>4. lo <= y * HourLen /\ y * HourLen <= hi
            BY <2>4, <5>3, TimesGrows
          <5> QED BY <4>2, <5>4 DEF Agent!Wanted, y, lo, hi
        <4> QED BY <4>1, <4>2
      <3>8. Contains(combined, m)
        BY <2>1, <2>5, <2>6, <2>8, <3>5, <3>7
      <3>9. PICK l \in 1..Len(combined) : combined[l] = m
        BY <3>8 DEF Contains
      <3>10. ~(l <= k) /\ ~(k + 1 <= l)
        <4>1. l < k => combined[l] < combined[k]
          BY <2>1, <3>1, <3>9 DEF Ascending
        <4>2. k + 1 < l => combined[k + 1] < combined[l]
          BY <2>1, <3>1, <3>9 DEF Ascending
        <4>3. ~(m < a) /\ m # a /\ ~(b < m) /\ b # m
          BY <3>2, <3>4, <3>5
        <4>4. l # k /\ l # k + 1
          BY <3>9, <4>3 DEF a, b
        <4> QED BY <2>2, <3>1, <3>9, <4>1, <4>2, <4>3, <4>4 DEF a, b
      <3> QED BY <2>2, <3>1, <3>9, <3>10
    <2> QED BY <2>1, <2>2, <2>7, <2>8 DEF Ascending, Agent!Segs, Filed
  <1> QED BY <1>1, AgentHolds, PTL

-----------------------------------------------------------------------------
(* The index of hours.                                                     *)

(* Both players read the same recordings.                                  *)
LEMMA SameRecording ==
    \A r, i, h :
       /\ Index!IsRecording(r) <=> Agent!IsRecording(r)
       /\ Index!FiledIn(r, i) = Agent!FiledIn(r, i)
       /\ Index!HoursFiled(r) = Agent!HoursFiled(r)
       /\ Index!HourIndex(r, h) = Agent!HourIndex(r, h)
  <1>1. \A r, i : Index!FiledIn(r, i) = Agent!FiledIn(r, i)
    BY DEF Index!FiledIn, Agent!FiledIn, Index!HourOf, Agent!HourOf
  <1>2. \A r : Index!IsRecording(r) <=> Agent!IsRecording(r)
    BY DEF Index!IsRecording, Agent!IsRecording
  <1>3. \A r : Index!HoursFiled(r) = Agent!HoursFiled(r)
    BY <1>1 DEF Index!HoursFiled, Agent!HoursFiled
  <1>4. ASSUME NEW r, NEW h
        PROVE  Index!HourIndex(r, h) = Agent!HourIndex(r, h)
    <2>1. \A S : Index!InOrder(S) = Agent!InOrder(S)
      BY DEF Index!InOrder, Agent!InOrder, Index!Cardinality, Agent!Cardinality
    <2>2. {i \in DOMAIN r : Index!FiledIn(r, i) = h} = {i \in DOMAIN r : Agent!FiledIn(r, i) = h}
      BY <1>1
    <2> QED BY <2>1, <2>2 DEF Index!HourIndex, Agent!HourIndex
  <1> QED BY <1>1, <1>2, <1>3, <1>4

(* The time a segment is given: that of its start, when it is filed in the *)
(* hour it begins in.                                                      *)
At(r, i) == Agent!FiledIn(r, i) * HourLen + (r[i].start % HourLen)

(* The time an entry is given is its own where it stays in its hour.       *)
LEMMA AtFacts ==
    ASSUME NEW r, Agent!IsRecording(r)
    PROVE  \A i \in DOMAIN r : /\ At(r, i) \in Nat
                               /\ ~Index!Straddles(r, i) => At(r, i) = r[i].start
  <1> SUFFICES ASSUME NEW i \in DOMAIN r
               PROVE  /\ At(r, i) \in Nat
                      /\ ~Index!Straddles(r, i) => At(r, i) = r[i].start
    OBVIOUS
  <1>1. r[i].start \in Nat /\ Agent!FiledIn(r, i) \in Nat
    BY HourLenPositive, RecordingFacts
  <1> DEFINE s == r[i].start
             q == s \div HourLen
             t == s % HourLen
             f == Agent!FiledIn(r, i)
             m == HourLen * q
             a == f * HourLen
  <1>2. q \in Nat /\ t \in 0..(HourLen - 1) /\ s = m + t
    <2> HIDE DEF s
    <2> QED BY <1>1, HourLenPositive, Division DEF s
  <1>3. a \in Nat /\ t \in Nat
    <2>1. f \in Nat
      BY <1>1
    <2> HIDE DEF f, t
    <2> QED BY <1>2, <2>1, HourLenPositive
  <1>4. At(r, i) = a + t
    BY DEF At
  <1>5. ~Index!Straddles(r, i) => q = f
    BY SameRecording DEF Index!Straddles, Index!HourOf
  <1>6. q = f => a = m
    <2> HIDE DEF q, f
    <2> QED BY <1>2, HourLenPositive
  <1> HIDE DEF a, t, m, q, f
  <1> QED BY <1>2, <1>3, <1>4, <1>5, <1>6 DEF s

Lex(r, i, j) == At(r, i) < At(r, j) \/ (At(r, i) = At(r, j) /\ i < j)

(* In the order of their times, the segments that stay within an hour are  *)
(* in the order they were recorded.                                        *)
LEMMA LexRecorded ==
    ASSUME NEW r, Agent!IsRecording(r), NEW i \in DOMAIN r, NEW j \in DOMAIN r, Lex(r, i, j),
           ~Index!Straddles(r, i), ~Index!Straddles(r, j)
    PROVE  i < j
  <1>1. At(r, i) = r[i].start /\ At(r, j) = r[j].start
    BY AtFacts
  <1>2. i \in Nat /\ j \in Nat /\ r[i].start \in Nat /\ r[j].start \in Nat
    BY HourLenPositive, RecordingFacts
  <1>3. ASSUME j < i
        PROVE  r[j].start <= r[i].start
    <2> DEFINE a == r[j].start
               b == r[j].close
               c == r[i].start
    <2>1. a <= b /\ b <= c /\ a \in Nat /\ b \in Nat /\ c \in Nat
      BY <1>3, HourLenPositive, RecordingFacts
    <2> HIDE DEF a, b, c
    <2>2. a <= c
      BY <2>1
    <2> QED BY <2>2 DEF a, c
  <1> DEFINE x == r[i].start
             y == r[j].start
  <1>4. x \in Nat /\ y \in Nat /\ (x < y \/ (x = y /\ i < j)) /\ (j < i => y <= x)
    BY <1>1, <1>2, <1>3 DEF Lex
  <1>5. i = j => x = y
    OBVIOUS
  <1> HIDE DEF x, y
  <1> QED BY <1>2, <1>4, <1>5

(* The order of the times is transitive.                                   *)
LEMMA LexTrans ==
    ASSUME NEW r, Agent!IsRecording(r), NEW i \in DOMAIN r, NEW j \in DOMAIN r, NEW k \in DOMAIN r,
           Lex(r, i, j), Lex(r, j, k)
    PROVE  Lex(r, i, k)
  <1>1. At(r, i) \in Nat /\ At(r, j) \in Nat /\ At(r, k) \in Nat
    BY AtFacts
  <1>2. i \in Nat /\ j \in Nat /\ k \in Nat
    BY HourLenPositive, RecordingFacts
  <1> DEFINE x == At(r, i)
             y == At(r, j)
             z == At(r, k)
  <1>3. (x < y \/ (x = y /\ i < j)) /\ (y < z \/ (y = z /\ j < k))
        /\ x \in Nat /\ y \in Nat /\ z \in Nat
    BY <1>1 DEF Lex
  <1> HIDE DEF x, y, z
  <1>4. x < z \/ (x = z /\ i < k)
    BY <1>2, <1>3
  <1> QED BY <1>4 DEF Lex, x, z

-----------------------------------------------------------------------------
(* The segments of hours F, with their times.                              *)
Dated(r, m, F) ==
    /\ m \in Seq([at : Nat, seg : Nat])
    /\ \A k \in 1..Len(m) : /\ m[k].seg \in DOMAIN r /\ m[k].at = At(r, m[k].seg)
                            /\ Agent!FiledIn(r, m[k].seg) \in F

Has(m, i) == \E k \in 1..Len(m) : m[k].seg = i

(* While the hours are fetched: all segments of those that were, in order. *)
Filling(r, m, F) ==
    /\ Dated(r, m, F)
    /\ \A k, l \in 1..Len(m) : k < l => m[k].seg < m[l].seg
    /\ \A i \in DOMAIN r : Agent!FiledIn(r, i) \in F => Has(m, i)

(* While they are played: in the order of their times, and none forgotten. *)
Playing(r, lo, hi, m, F, g, x) ==
    /\ Dated(r, m, F) /\ g \in Seq(Nat)
    /\ \A k, l \in 1..Len(m) : k < l => Lex(r, m[k].seg, m[l].seg)
    /\ \A k \in 1..Len(g) : g[k] \in DOMAIN r /\ lo <= At(r, g[k]) /\ At(r, g[k]) <= hi
    /\ \A k, l \in 1..Len(g) : k < l => Lex(r, g[k], g[l])
    /\ \A k \in 1..Len(g), l \in 1..Len(m) : Lex(r, g[k], m[l].seg)
    /\ \A i \in DOMAIN r : Agent!FiledIn(r, i) \in F =>
          Has(m, i) \/ Contains(g, i) \/ i \in x \/ At(r, i) < lo

(* The index of an hour gives its segments times.                          *)
LEMMA TimedFacts ==
    ASSUME Agent!IsRecording(rec), NEW h
    PROVE  LET t == Index!Timed(h)
           IN  /\ Filling(rec, t, {h})
  <1> DEFINE d == Agent!HourIndex(rec, h)
             t == Index!Timed(h)
             U == [at : Nat, seg : Nat]
  <1>1. /\ d \in Seq(Nat) /\ Ascending(d)
        /\ \A x : Contains(d, x) <=> x \in DOMAIN rec /\ Agent!FiledIn(rec, x) = h
    BY HourLenPositive, HourIndexFacts
  <1>2. DOMAIN d = 1..Len(d) /\ Len(d) \in Nat /\ \A k \in 1..Len(d) : d[k] \in Nat
    BY <1>1, LenProperties, ElementOfSeq
  <1>3. t = [k \in 1..Len(d) |-> [at |-> Index!AbsTime(h, d[k]), seg |-> d[k]]]
    <2>1. Index!HourIndex(rec, h) = d
      BY SameRecording
    <2> HIDE DEF d
    <2> QED BY <1>2, <2>1 DEF Index!Timed
  <1> HIDE DEF d, t
  <1>4. ASSUME NEW k \in 1..Len(d)
        PROVE  /\ d[k] \in DOMAIN rec /\ Agent!FiledIn(rec, d[k]) = h
               /\ Index!AbsTime(h, d[k]) = At(rec, d[k]) /\ At(rec, d[k]) \in Nat
    <2>1. d[k] \in DOMAIN rec /\ Agent!FiledIn(rec, d[k]) = h
      BY <1>1 DEF Contains
    <2>2. Index!AbsTime(h, d[k]) = At(rec, d[k])
      BY <2>1 DEF Index!AbsTime, Index!InHour, At
    <2> QED BY <2>1, <2>2, AtFacts
  <1>5. \A k \in 1..Len(d) : t[k].at = At(rec, d[k]) /\ t[k].seg = d[k] /\ t[k] \in U
    BY <1>2, <1>3, <1>4
  <1> HIDE DEF U
  <1>6. t \in [1..Len(d) -> U]
    BY <1>3, <1>5
  <1>7. t \in Seq(U) /\ Len(t) = Len(d)
    BY <1>2, <1>6, FunctionSeq
  <1>8. Dated(rec, t, {h})
    BY <1>4, <1>5, <1>7 DEF Dated, U
  <1>9. \A k, l \in 1..Len(t) : k < l => t[k].seg < t[l].seg
    BY <1>1, <1>5, <1>7 DEF Ascending
  <1>10. \A i \in DOMAIN rec : Agent!FiledIn(rec, i) \in {h} => Has(t, i)
    BY <1>1, <1>5, <1>7 DEF Contains, Has
  <1>11. Filling(rec, t, {h})
    BY <1>8, <1>9, <1>10 DEF Filling
  <1> QED BY <1>11 DEF t

(* The segments of a later hour come behind.                               *)
LEMMA FillingGrows ==
    ASSUME NEW r, Agent!IsRecording(r), NEW m, NEW F, Filling(r, m, F),
           NEW h, NEW t, Filling(r, t, {h}), F \subseteq Nat, h \in Nat, \A f \in F : f < h
    PROVE  Filling(r, m \o t, F \cup {h})
  <1> DEFINE U == [at : Nat, seg : Nat]
             u == m \o t
  <1>1. m \in Seq(U) /\ t \in Seq(U)
    BY DEF Filling, Dated
  <1>2. Len(m) \in Nat /\ Len(t) \in Nat
    BY <1>1, LenProperties
  <1> HIDE DEF U
  <1>3. /\ u \in Seq(U) /\ Len(u) = Len(m) + Len(t)
        /\ \A i \in 1..(Len(m) + Len(t)) : u[i] = IF i <= Len(m) THEN m[i] ELSE t[i - Len(m)]
    BY <1>1, ConcatProperties
  <1> HIDE DEF u
  <1>4. \A k \in 1..Len(m) : k \in 1..Len(u) /\ u[k] = m[k]
    BY <1>2, <1>3
  <1>5. ASSUME NEW k \in 1..Len(t)
        PROVE  k + Len(m) \in 1..Len(u) /\ u[k + Len(m)] = t[k]
    <2>1. k + Len(m) \in 1..(Len(m) + Len(t)) /\ ~(k + Len(m) <= Len(m))
          /\ (k + Len(m)) - Len(m) = k
      BY <1>2
    <2> QED BY <1>3, <2>1
  <1>6. ASSUME NEW k \in 1..Len(u)
        PROVE  \/ k \in 1..Len(m) /\ u[k] = m[k]
               \/ k - Len(m) \in 1..Len(t) /\ u[k] = t[k - Len(m)] /\ Len(m) < k
    BY <1>2, <1>3
  <1>7. Dated(r, u, F \cup {h})
    <2>1. ASSUME NEW k \in 1..Len(u)
          PROVE  /\ u[k].seg \in DOMAIN r /\ u[k].at = At(r, u[k].seg)
                 /\ Agent!FiledIn(r, u[k].seg) \in F \cup {h}
      BY <1>6 DEF Filling, Dated
    <2> QED BY <1>3, <2>1 DEF Dated, U
  <1>8. ASSUME NEW k \in 1..Len(m), NEW l \in 1..Len(t)
        PROVE  m[k].seg < t[l].seg
    <2> DEFINE i == m[k].seg
               j == t[l].seg
    <2>1. i \in DOMAIN r /\ j \in DOMAIN r /\ Agent!FiledIn(r, i) \in F /\ Agent!FiledIn(r, j) = h
      BY DEF Filling, Dated
    <2> HIDE DEF i, j
    <2>2. Agent!FiledIn(r, i) < Agent!FiledIn(r, j)
      BY <2>1
    <2>3. i \in Nat /\ j \in Nat /\ (j < i => Agent!FiledIn(r, j) <= Agent!FiledIn(r, i))
          /\ Agent!FiledIn(r, i) \in Nat /\ Agent!FiledIn(r, j) \in Nat
      BY <2>1, HourLenPositive, RecordingFacts, SMTT(30)
    <2>4. i < j
      BY <2>2, <2>3
    <2> QED BY <2>4 DEF i, j
  <1>9. ASSUME NEW k \in 1..Len(u), NEW l \in 1..Len(u), k < l
        PROVE  u[k].seg < u[l].seg
    <2>1. CASE k \in 1..Len(m) /\ l \in 1..Len(m)
      BY <1>4, <1>9, <2>1 DEF Filling
    <2>2. CASE k \in 1..Len(m) /\ l - Len(m) \in 1..Len(t) /\ u[l] = t[l - Len(m)]
      BY <1>4, <1>8, <2>2
    <2>3. CASE k - Len(m) \in 1..Len(t) /\ l - Len(m) \in 1..Len(t)
      <3>1. k - Len(m) < l - Len(m) /\ ~(k \in 1..Len(m)) /\ ~(l \in 1..Len(m))
        BY <1>2, <1>9, <2>3
      <3>2. u[k] = t[k - Len(m)] /\ u[l] = t[l - Len(m)]
        BY <1>6, <3>1
      <3> DEFINE kk == k - Len(m)
                 ll == l - Len(m)
      <3>3. kk < ll /\ kk \in 1..Len(t) /\ ll \in 1..Len(t) /\ u[k] = t[kk] /\ u[l] = t[ll]
        BY <2>3, <3>1, <3>2
      <3> HIDE DEF kk, ll
      <3> QED BY <3>3 DEF Filling
    <2>4. ~(Len(m) < k /\ l \in 1..Len(m))
      BY <1>2, <1>9
    <2> QED BY <1>6, <2>1, <2>2, <2>3, <2>4
  <1>10. ASSUME NEW i \in DOMAIN r, Agent!FiledIn(r, i) \in F \cup {h}
         PROVE  Has(u, i)
    <2>1. CASE Agent!FiledIn(r, i) \in F
      <3>1. PICK k \in 1..Len(m) : m[k].seg = i
        BY <2>1 DEF Filling, Has
      <3> QED BY <1>4, <3>1 DEF Has
    <2>2. CASE Agent!FiledIn(r, i) = h
      <3>1. PICK k \in 1..Len(t) : t[k].seg = i
        BY <2>2 DEF Filling, Has
      <3> QED BY <1>5, <3>1 DEF Has
    <2> QED BY <1>10, <2>1, <2>2
  <1>11. Filling(r, u, F \cup {h})
    BY <1>7, <1>9, <1>10 DEF Filling
  <1> QED BY <1>11 DEF u

(* The sort puts the segments in the order of their times, and leaves      *)
(* those of one time as they are.                                          *)
AheadOf == {p \in (DOMAIN merged) \X (DOMAIN merged) : Index!Ahead(p[1], p[2])}

(* Being ahead orders what is merged.                                      *)
LEMMA AheadOrders ==
    ASSUME NEW n \in Nat, DOMAIN merged = 1..n, \A k \in 1..n : merged[k].at \in Nat
    PROVE  /\ Orders(AheadOf, DOMAIN merged)
           /\ \A k, l \in DOMAIN merged : <<k, l>> \in AheadOf <=> Index!Ahead(k, l)
           /\ \A l \in DOMAIN merged :
                 Priors(AheadOf, DOMAIN merged, l) = {k \in DOMAIN merged : Index!Ahead(k, l)}
  <1> DEFINE S == DOMAIN merged
             R == AheadOf
  <1>1. \A k, l \in S : <<k, l>> \in R <=> Index!Ahead(k, l)
    BY DEF AheadOf
  <1>2. \A k \in S : merged[k].at \in Nat /\ k \in Nat
    OBVIOUS
  <1> HIDE DEF R, S
  <1>3. \A k \in S : <<k, k>> \notin R
    BY <1>1, <1>2 DEF Index!Ahead
  <1>4. \A k, l \in S : k = l \/ <<k, l>> \in R \/ <<l, k>> \in R
    <2>1. \A x, y \in Nat : x < y \/ y < x \/ x = y
      OBVIOUS
    <2>2. \A k, l \in S : k < l \/ l < k \/ k = l
      BY <1>2, <2>1
    <2>3. \A k, l \in S : \/ merged[k].at < merged[l].at \/ merged[l].at < merged[k].at
                          \/ merged[k].at = merged[l].at
      BY <1>2, <2>1
    <2> QED BY <1>1, <2>2, <2>3 DEF Index!Ahead
  <1>5. ASSUME NEW k \in S, NEW l \in S, NEW j \in S, <<k, l>> \in R, <<l, j>> \in R
        PROVE  <<k, j>> \in R
    <2> DEFINE a == merged[k].at
               b == merged[l].at
               c == merged[j].at
    <2>1. /\ a < b \/ (a = b /\ k < l)
          /\ b < c \/ (b = c /\ l < j)
          /\ a \in Nat /\ b \in Nat /\ c \in Nat /\ k \in Nat /\ l \in Nat /\ j \in Nat
      BY <1>1, <1>2, <1>5 DEF Index!Ahead
    <2> HIDE DEF a, b, c
    <2>2. a < c \/ (a = c /\ k < j)
      BY <2>1
    <2> QED BY <1>1, <2>2 DEF a, c, Index!Ahead
  <1>6. Orders(R, S)
    BY <1>3, <1>4, <1>5 DEF Orders
  <1>7. \A l \in S : Priors(R, S, l) = {k \in S : Index!Ahead(k, l)}
    BY <1>1 DEF Priors
  <1> QED BY <1>1, <1>6, <1>7 DEF R, S

(* Sorting keeps what is merged and puts it in the order of its times.     *)
LEMMA SortedFacts ==
    ASSUME Agent!IsRecording(rec), NEW F, Filling(rec, merged, F)
    PROVE  /\ Dated(rec, Index!Sorted, F)
           /\ \A k, l \in 1..Len(Index!Sorted) :
                 k < l => Lex(rec, Index!Sorted[k].seg, Index!Sorted[l].seg)
           /\ \A i \in DOMAIN rec : Agent!FiledIn(rec, i) \in F => Has(Index!Sorted, i)
  <1> DEFINE U == [at : Nat, seg : Nat]
             n == Len(merged)
             S == DOMAIN merged
             R == AheadOf
             e == [j \in S |-> CHOOSE l \in S :
                                  Cardinality({k \in S : Index!Ahead(k, l)}) = j - 1]
             s == Index!Sorted
  <1>1. merged \in Seq(U)
    BY DEF Filling, Dated
  <1>2. n \in Nat /\ S = 1..n
    <2> HIDE DEF U
    <2> QED BY <1>1, LenProperties
  <1>3. \A k \in S : merged[k] \in U
    <2> HIDE DEF U
    <2> QED BY <1>1, <1>2, ElementOfSeq
  <1>4. \A k \in S : merged[k].at \in Nat
    BY <1>3, SMTT(30)
  <1>5. /\ Orders(R, S) /\ \A k, l \in S : <<k, l>> \in R <=> Index!Ahead(k, l)
        /\ \A l \in S : Priors(R, S, l) = {k \in S : Index!Ahead(k, l)}
    BY <1>2, <1>4, AheadOrders
  <1>6. IsFiniteSet(S) /\ Cardinality(S) = n
    <2>1. IsFiniteSet(1..n) /\ Cardinality(1..n) = IF 1 > n THEN 0 ELSE n - 1 + 1
      BY <1>2, FS_Interval, SMTT(30)
    <2> HIDE DEF n
    <2>2. Cardinality(1..n) = n
      BY <1>2, <2>1
    <2> QED BY <1>2, <2>1, <2>2
  <1>7. s = [j \in S |-> merged[e[j]]]
    BY DEF Index!Sorted, Index!Cardinality, Cardinality
  <1> HIDE DEF R, s
  <1>8. ASSUME NEW j \in S
        PROVE  e[j] \in S /\ Cardinality(Priors(R, S, e[j])) = j - 1
    <2> DEFINE i == j - 1
    <2>1. i \in 0..(Cardinality(S) - 1)
      BY <1>2, <1>6
    <2>2. e[j] = CHOOSE l \in S : Cardinality({k \in S : Index!Ahead(k, l)}) = i
      OBVIOUS
    <2> HIDE DEF i, S, e
    <2>3. \E x : x \in S /\ Cardinality(Priors(R, S, x)) = i
      BY <1>5, <1>6, <2>1, RankFound
    <2>4. \E l \in S : Cardinality({k \in S : Index!Ahead(k, l)}) = i
      BY <1>5, <2>3
    <2>5. e[j] \in S /\ Cardinality({k \in S : Index!Ahead(k, e[j])}) = i
      BY <2>2, <2>4
    <2> QED BY <1>5, <2>5 DEF i
  <1>9. DOMAIN e = S /\ e = [j \in S |-> e[j]]
    <2> DEFINE w(j) == CHOOSE l \in S : Cardinality({k \in S : Index!Ahead(k, l)}) = j - 1
    <2>1. e = [j \in S |-> w(j)]
      OBVIOUS
    <2> HIDE DEF e, w, S
    <2> QED BY <2>1
  <1> HIDE DEF e
  <1>10. /\ e \in Seq(S) /\ Len(e) = n
         /\ \A x : Contains(e, x) <=> x \in S
         /\ \A k, l \in 1..n : k < l => <<e[k], e[l]>> \in R
    <2>1. e \in [1..Cardinality(S) -> S]
      <3> HIDE DEF n, S
      <3> QED BY <1>2, <1>6, <1>8, <1>9
    <2>2. \A k \in 1..Cardinality(S) : Cardinality(Priors(R, S, e[k])) = k - 1
      BY <1>2, <1>6, <1>8
    <2> HIDE DEF n, S
    <2>3. /\ e \in Seq(S) /\ Len(e) = Cardinality(S)
          /\ \A x : Contains(e, x) <=> x \in S
          /\ \A k, l \in 1..Len(e) : k < l => <<e[k], e[l]>> \in R
      BY <1>5, <1>6, <2>1, <2>2, Ranked
    <2> QED BY <1>6, <2>3
  <1>11. \A k \in 1..n : e[k] \in 1..n /\ s[k] = merged[e[k]]
    BY <1>2, <1>7, <1>8
  <1>12. s \in Seq(U) /\ Len(s) = n
    <2>1. \A k \in 1..n : merged[e[k]] \in U
      BY <1>2, <1>3, <1>11
    <2> HIDE DEF U, n, S
    <2>2. s \in [1..n -> U]
      BY <1>2, <1>7, <2>1
    <2> QED BY <1>2, <2>2, FunctionSeq
  <1> HIDE DEF U, n
  <1>13. \A k \in 1..n : /\ merged[k].seg \in DOMAIN rec /\ merged[k].at = At(rec, merged[k].seg)
                         /\ Agent!FiledIn(rec, merged[k].seg) \in F
    BY DEF Filling, Dated, n
  <1>14. Dated(rec, s, F)
    BY <1>11, <1>12, <1>13 DEF Dated, U
  <1>15. ASSUME NEW k \in 1..n, NEW l \in 1..n, k < l
         PROVE  Lex(rec, s[k].seg, s[l].seg)
    <2> DEFINE i == e[k]
               j == e[l]
    <2>1. i \in 1..n /\ j \in 1..n /\ s[k] = merged[i] /\ s[l] = merged[j]
      BY <1>11
    <2>2. <<i, j>> \in R
      BY <1>10, <1>15
    <2> HIDE DEF i, j
    <2>3. Index!Ahead(i, j)
      BY <1>2, <1>5, <2>1, <2>2
    <2>4. i < j => merged[i].seg < merged[j].seg
      BY <2>1 DEF Filling, n
    <2> QED BY <1>13, <2>1, <2>3, <2>4 DEF Index!Ahead, Lex
  <1>16. ASSUME NEW i \in DOMAIN rec, Agent!FiledIn(rec, i) \in F
         PROVE  Has(s, i)
    <2>1. PICK k \in 1..n : merged[k].seg = i
      BY <1>16 DEF Filling, Has, n
    <2>2. Contains(e, k)
      BY <1>2, <1>10, <2>1
    <2>3. PICK l \in 1..n : e[l] = k
      BY <1>10, <2>2 DEF Contains
    <2> QED BY <1>11, <1>12, <2>1, <2>3 DEF Has
  <1> QED BY <1>12, <1>14, <1>15, <1>16 DEF s

-----------------------------------------------------------------------------
(* The first segment leaves: passed over, played, or failed.               *)
LEMMA FirstLeaves ==
    ASSUME NEW r, Agent!IsRecording(r), NEW lo \in Nat, NEW hi \in Nat, NEW m, NEW F, NEW g, NEW x,
           Playing(r, lo, hi, m, F, g, x), m # <<>>
    PROVE  /\ m[1].seg \in DOMAIN r /\ m[1].at = At(r, m[1].seg) /\ At(r, m[1].seg) \in Nat
           /\ At(r, m[1].seg) < lo => Playing(r, lo, hi, Tail(m), F, g, x)
           /\ lo <= At(r, m[1].seg) /\ At(r, m[1].seg) <= hi =>
                 Playing(r, lo, hi, Tail(m), F, Append(g, m[1].seg), x)
           /\ Playing(r, lo, hi, Tail(m), F, g, x \cup {m[1].seg})
  <1> DEFINE U == [at : Nat, seg : Nat]
             t == Tail(m)
             i == m[1].seg
             g1 == Append(g, i)
  <1>1. m \in Seq(U) /\ g \in Seq(Nat)
    BY DEF Playing, Dated
  <1>2. Len(m) \in Nat \ {0} /\ 1 \in 1..Len(m) /\ Len(g) \in Nat
    <2> HIDE DEF U
    <2> QED BY <1>1, EmptySeq, LenProperties
  <1>3. t \in Seq(U) /\ Len(t) = Len(m) - 1 /\ \A k \in 1..(Len(m) - 1) : t[k] = m[k + 1]
    <2> HIDE DEF U
    <2> QED BY <1>1, <1>2, HeadTailProperties
  <1> HIDE DEF t
  <1>4. i \in DOMAIN r /\ m[1].at = At(r, i) /\ At(r, i) \in Nat /\ i \in Nat
    BY <1>2, AtFacts, HourLenPositive, RecordingFacts DEF Playing, Dated
  <1>5. \A k \in 1..Len(t) : k + 1 \in 1..Len(m) /\ t[k] = m[k + 1] /\ 1 < k + 1
    BY <1>2, <1>3
  <1>6. Dated(r, t, F)
    BY <1>3, <1>5 DEF Playing, Dated
  <1>7. \A k \in 1..Len(t) : Lex(r, i, t[k].seg)
    BY <1>2, <1>5 DEF Playing
  <1>8. \A k, l \in 1..Len(t) : k < l => Lex(r, t[k].seg, t[l].seg)
    <2> SUFFICES ASSUME NEW k \in 1..Len(t), NEW l \in 1..Len(t), k < l
                 PROVE  Lex(r, t[k].seg, t[l].seg)
      OBVIOUS
    <2>1. k + 1 < l + 1
      BY <1>3
    <2> QED BY <1>5, <2>1 DEF Playing
  <1>9. \A j : Has(m, j) => j = i \/ Has(t, j)
    <2> SUFFICES ASSUME NEW k \in 1..Len(m), k # 1
                 PROVE  Has(t, m[k].seg)
      BY DEF Has
    <2>1. k - 1 \in 1..Len(t) /\ (k - 1) + 1 = k
      BY <1>2, <1>3
    <2> QED BY <1>5, <2>1 DEF Has
  <1>10. \A k \in 1..Len(g) : Lex(r, g[k], i)
    BY <1>2 DEF Playing
  <1>11. \A k \in 1..Len(g), l \in 1..Len(t) : Lex(r, g[k], t[l].seg)
    BY <1>5 DEF Playing
  <1>12. \A j \in DOMAIN r : Agent!FiledIn(r, j) \in F =>
            (j = i \/ Has(t, j)) \/ Contains(g, j) \/ j \in x \/ At(r, j) < lo
    BY <1>9 DEF Playing
  <1> HIDE DEF i, U
  <1>13. ASSUME At(r, i) < lo
         PROVE  Playing(r, lo, hi, t, F, g, x)
    BY <1>1, <1>6, <1>8, <1>11, <1>12, <1>13 DEF Playing
  <1>14. Playing(r, lo, hi, t, F, g, x \cup {i})
    BY <1>1, <1>6, <1>8, <1>11, <1>12 DEF Playing
  <1>15. /\ g1 \in Seq(Nat) /\ Len(g1) = Len(g) + 1 /\ g1[Len(g) + 1] = i
         /\ \A k \in 1..Len(g) : g1[k] = g[k]
    BY <1>1, <1>4, AppendProperties
  <1> HIDE DEF g1
  <1>16. ASSUME NEW k \in 1..Len(g1)
         PROVE  (k \in 1..Len(g) /\ g1[k] = g[k]) \/ (k = Len(g) + 1 /\ g1[k] = i)
    BY <1>2, <1>15
  <1>17. ASSUME NEW j
         PROVE  Contains(g, j) \/ j = i => Contains(g1, j)
    <2>1. Len(g) + 1 \in 1..Len(g1) /\ \A k \in 1..Len(g) : k \in 1..Len(g1)
      BY <1>2, <1>15
    <2> QED BY <1>15, <2>1 DEF Contains
  <1>18. ASSUME lo <= At(r, i), At(r, i) <= hi
         PROVE  Playing(r, lo, hi, t, F, g1, x)
    <2>1. \A k \in 1..Len(g1) : g1[k] \in DOMAIN r /\ lo <= At(r, g1[k]) /\ At(r, g1[k]) <= hi
      BY <1>4, <1>16, <1>18 DEF Playing
    <2>2. ASSUME NEW k \in 1..Len(g1), NEW l \in 1..Len(g1), k < l
          PROVE  Lex(r, g1[k], g1[l])
      <3>1. ~(k = Len(g) + 1 /\ (l \in 1..Len(g) \/ l = Len(g) + 1))
        BY <1>2, <2>2
      <3>2. CASE k \in 1..Len(g) /\ l \in 1..Len(g)
        BY <1>15, <2>2, <3>2 DEF Playing
      <3>3. CASE k \in 1..Len(g) /\ l = Len(g) + 1
        BY <1>10, <1>15, <3>3
      <3> QED BY <1>16, <3>1, <3>2, <3>3
    <2>3. \A k \in 1..Len(g1), l \in 1..Len(t) : Lex(r, g1[k], t[l].seg)
      BY <1>7, <1>11, <1>16
    <2>4. \A j \in DOMAIN r : Agent!FiledIn(r, j) \in F =>
             Has(t, j) \/ Contains(g1, j) \/ j \in x \/ At(r, j) < lo
      BY <1>12, <1>17
    <2> QED BY <1>6, <1>8, <1>15, <2>1, <2>2, <2>3, <2>4 DEF Playing
  <1> QED BY <1>4, <1>13, <1>14, <1>18 DEF t, i, g1

IndexInv ==
    /\ Agent!IsRecording(rec) /\ range \in Nat \X Nat
    /\ hours \subseteq Agent!HoursFiled(rec) /\ fetched \subseteq Agent!HoursFiled(rec)
    /\ pc \in {"fetch", "play", "ended", "gone"}
    /\ pc = "gone" => got = <<>> \/ Playing(rec, range[1], range[2], merged, fetched, got, failed)
    /\ pc = "fetch" =>
          /\ got = <<>> /\ Filling(rec, merged, fetched)
          /\ \A f \in fetched, h \in hours : f < h
    /\ pc \in {"play", "ended"} =>
          Playing(rec, range[1], range[2], merged, fetched, got, failed)
    /\ pc = "ended" => \A k \in 1..Len(merged) : range[2] < merged[k].at

(* Hours are numbers.                                                      *)
LEMMA FiledNumbers ==
    ASSUME NEW r, Agent!IsRecording(r)
    PROVE  \A h \in Agent!HoursFiled(r) : h \in Nat
  BY HourLenPositive, RecordingFacts DEF Agent!HoursFiled

LEMMA IndexInit == Index!IndexAssumption /\ Index!Init => IndexInv
  <1> SUFFICES ASSUME Index!IndexAssumption, Index!Init
               PROVE  IndexInv
    OBVIOUS
  <1> DEFINE U == [at : Nat, seg : Nat]
  <1>1. merged = <<>> /\ fetched = {} /\ got = <<>> /\ pc = "fetch"
    BY DEF Index!Init
  <1>2. <<>> \in Seq(U) /\ Len(<<>>) = 0
    BY EmptySeq
  <1>3. Filling(rec, merged, fetched)
    BY <1>1, <1>2 DEF Filling, Dated
  <1>4. Agent!IsRecording(rec) /\ range \in Nat \X Nat
    BY SameRecording DEF Index!Init, Index!IndexAssumption
  <1>5. hours = Agent!HoursFiled(rec)
    BY SameRecording DEF Index!Init
  <1> QED BY <1>1, <1>3, <1>4, <1>5 DEF IndexInv

(* The next hour is the first of those left.                               *)
LEMMA NextHour ==
    ASSUME IndexInv, hours # {}
    PROVE  Index!Min(hours) \in hours /\ \A h \in hours : Index!Min(hours) <= h
  <1>1. hours \in SUBSET Nat
    BY FiledNumbers DEF IndexInv
  <1>2. \E n \in hours : \A h \in hours : n <= h
    BY <1>1, LeastNumber
  <1> QED BY <1>2 DEF Index!Min

(* An hour is fetched, or is not there.                                    *)
LEMMA FetchStep ==
    ASSUME IndexInv, Index!FetchHour
    PROVE  IndexInv'
  <1> DEFINE h == Index!Min(hours)
             t == Index!Timed(h)
  <1>1. /\ pc = "fetch" /\ pc' = pc /\ rec' = rec /\ range' = range /\ got' = got
        /\ merged' = merged \o t /\ fetched' = fetched \cup {h} /\ hours' = hours \ {h}
    BY DEF Index!FetchHour
  <1>2. h \in hours /\ \A i \in hours : h <= i
    BY NextHour DEF Index!FetchHour
  <1> HIDE DEF h
  <1>3. /\ Agent!IsRecording(rec) /\ hours \subseteq Agent!HoursFiled(rec)
        /\ fetched \subseteq Agent!HoursFiled(rec) /\ Filling(rec, merged, fetched)
        /\ \A f \in fetched, i \in hours : f < i
    BY <1>1 DEF IndexInv
  <1>4. fetched \subseteq Nat /\ h \in Nat /\ hours \subseteq Nat
    BY <1>2, <1>3, FiledNumbers
  <1>5. Filling(rec, t, {h})
    BY <1>3, TimedFacts
  <1> HIDE DEF t
  <1>6. Filling(rec, merged \o t, fetched \cup {h})
    BY <1>2, <1>3, <1>4, <1>5, FillingGrows
  <1>7. ASSUME NEW f \in fetched \cup {h}, NEW i \in hours \ {h}
        PROVE  f < i
    BY <1>2, <1>3, <1>4
  <1> QED BY <1>1, <1>2, <1>3, <1>6, <1>7 DEF IndexInv

(* What is merged is sorted.                                               *)
LEMMA SortStep ==
    ASSUME IndexInv, Index!Sort
    PROVE  IndexInv'
  <1> DEFINE s == Index!Sorted
  <1>1. /\ pc = "fetch" /\ pc' = "play" /\ merged' = s
        /\ UNCHANGED <<rec, range, hours, fetched, got, failed>>
    BY DEF Index!Sort
  <1>2. /\ Agent!IsRecording(rec) /\ Filling(rec, merged, fetched) /\ got = <<>>
    BY <1>1 DEF IndexInv
  <1>3. /\ Dated(rec, s, fetched)
        /\ \A k, l \in 1..Len(s) : k < l => Lex(rec, s[k].seg, s[l].seg)
        /\ \A i \in DOMAIN rec : Agent!FiledIn(rec, i) \in fetched => Has(s, i)
    BY <1>2, SortedFacts
  <1> HIDE DEF s
  <1>4. got \in Seq(Nat) /\ Len(got) = 0
    BY <1>2, EmptySeq
  <1>5. Playing(rec, range[1], range[2], s, fetched, got, failed)
    BY <1>3, <1>4 DEF Playing
  <1> QED BY <1>1, <1>5 DEF IndexInv

(* Passed over, played or failed.                                          *)
LEMMA PlayStep ==
    ASSUME IndexInv, Index!PassOver \/ Index!Download \/ Index!DownloadFails
    PROVE  IndexInv'
  <1> DEFINE i == merged[1].seg
             lo == range[1]
             hi == range[2]
  <1>1. /\ pc = "play" /\ merged # <<>> /\ merged' = Tail(merged)
        /\ UNCHANGED <<rec, range, pc, hours, fetched>>
    BY DEF Index!PassOver, Index!Download, Index!DownloadFails
  <1>2. /\ Agent!IsRecording(rec) /\ lo \in Nat /\ hi \in Nat
        /\ Playing(rec, lo, hi, merged, fetched, got, failed)
    BY <1>1 DEF IndexInv
  <1>3. \/ merged[1].at < lo /\ got' = got /\ failed' = failed
        \/ ~(merged[1].at < lo) /\ ~(merged[1].at > hi) /\ got' = Append(got, i) /\ failed' = failed
        \/ got' = got /\ failed' = failed \cup {i}
    BY DEF Index!PassOver, Index!Download, Index!DownloadFails, Index!Early, Index!Late
  <1>4. /\ merged[1].at = At(rec, i) /\ At(rec, i) \in Nat
        /\ At(rec, i) < lo => Playing(rec, lo, hi, Tail(merged), fetched, got, failed)
        /\ lo <= At(rec, i) /\ At(rec, i) <= hi =>
              Playing(rec, lo, hi, Tail(merged), fetched, Append(got, i), failed)
        /\ Playing(rec, lo, hi, Tail(merged), fetched, got, failed \cup {i})
    BY <1>1, <1>2, FirstLeaves
  <1> DEFINE a == merged[1].at
             b == At(rec, i)
  <1>5. a = b /\ b \in Nat
    BY <1>4
  <1>6. (a < lo => b < lo) /\ (~(a < lo) /\ ~(a > hi) => lo <= b /\ b <= hi)
    <2> HIDE DEF a, b, lo, hi
    <2> QED BY <1>2, <1>5
  <1>7. Playing(rec, lo, hi, Tail(merged), fetched, got', failed')
    BY <1>3, <1>4, <1>6
  <1> QED BY <1>1, <1>7 DEF IndexInv

(* The playback ends.                                                      *)
LEMMA FinishStep ==
    ASSUME IndexInv, Index!Finish
    PROVE  IndexInv'
  <1>1. /\ pc = "play" /\ pc' = "ended"
        /\ UNCHANGED <<rec, range, hours, merged, fetched, got, failed>>
        /\ merged # <<>> => merged[1].at > range[2]
    BY DEF Index!Finish, Index!Late
  <1>2. /\ Agent!IsRecording(rec) /\ range[1] \in Nat /\ range[2] \in Nat
        /\ Playing(rec, range[1], range[2], merged, fetched, got, failed)
    BY <1>1 DEF IndexInv
  <1>3. ASSUME NEW k \in 1..Len(merged)
        PROVE  range[2] < merged[k].at
    <2> DEFINE U == [at : Nat, seg : Nat]
    <2>1. merged \in Seq(U)
      BY <1>2 DEF Playing, Dated
    <2>2. Len(merged) \in Nat
      <3> HIDE DEF U
      <3> QED BY <2>1, LenProperties
    <2>3. 1 \in 1..Len(merged) /\ (k # 1 => 1 < k)
      BY <2>2
    <2>4. merged # <<>>
      BY <2>3
    <2>5. k # 1 => Lex(rec, merged[1].seg, merged[k].seg)
      BY <1>2, <2>3 DEF Playing
    <2>6. /\ merged[1].at = At(rec, merged[1].seg) /\ merged[k].at = At(rec, merged[k].seg)
          /\ At(rec, merged[1].seg) \in Nat /\ At(rec, merged[k].seg) \in Nat
      BY <1>2, <2>3, AtFacts DEF Playing, Dated
    <2> DEFINE a == At(rec, merged[1].seg)
               b == At(rec, merged[k].seg)
               c == range[2]
    <2>7. /\ a \in Nat /\ b \in Nat /\ c \in Nat /\ a > c
          /\ k # 1 => a < b \/ a = b
      BY <1>1, <1>2, <2>4, <2>5, <2>6 DEF Lex
    <2>8. k = 1 => a = b
      OBVIOUS
    <2> HIDE DEF a, b, c
    <2>9. c < b
      BY <2>7, <2>8
    <2> QED BY <2>6, <2>9 DEF b, c
  <1> QED BY <1>1, <1>3 DEF IndexInv

(* Every step of the player of an index keeps the invariant.               *)
LEMMA IndexStep ==
    ASSUME IndexInv, [Index!Next]_(Index!vars)
    PROVE  IndexInv'
  <1>1. CASE Index!FetchFails
    <2>1. /\ pc = "fetch" /\ hours' \subseteq hours
          /\ UNCHANGED <<rec, range, pc, merged, fetched, got, failed>>
      BY <1>1 DEF Index!FetchFails
    <2> QED BY <2>1 DEF IndexInv
  <1>2. CASE UNCHANGED Index!vars
    <2>1. UNCHANGED <<rec, range, pc, hours, merged, fetched, got, failed>>
      BY <1>2 DEF Index!vars
    <2> QED BY <2>1 DEF IndexInv
  <1>3. CASE Index!NoIndex \/ Index!SendFails
    <2>1. /\ pc = "fetch" \/ pc = "play"
          /\ pc' = "gone" /\ UNCHANGED <<rec, range, hours, merged, fetched, got, failed>>
      BY <1>3 DEF Index!NoIndex, Index!SendFails
    <2> QED BY <2>1 DEF IndexInv
  <1> QED
    BY <1>1, <1>2, <1>3, FetchStep, SortStep, PlayStep, FinishStep
    DEF Index!Next, Index!Ended

(* A step of the parts is one of this player when it runs.                 *)
LEMMA IndexPart ==
    part = "index" /\ [PartsNext]_partsVars => part' = part /\ [Index!Next]_(Index!vars)
  BY DEF PartsNext, partsVars, indexVars, playerVars, history, Index!vars

IndexAlways == part = "index" => IndexInv

(* The invariant of the index of hours holds.                              *)
LEMMA IndexHolds == PartsSpec => []IndexAlways
  <1>1. PartsInit => IndexAlways
    BY IndexInit, PartsAssumption DEF PartsInit, IndexAlways
  <1>2. IndexAlways /\ [PartsNext]_partsVars => IndexAlways'
    <2>1. [PartsNext]_partsVars => part' = part
      BY DEF PartsNext, partsVars
    <2> QED BY <2>1, IndexStep, IndexPart DEF IndexAlways
  <1> QED BY <1>1, <1>2, PTL DEF PartsSpec

(* Of any recording and any range: the segments that stay within an hour   *)
(* are played once, in their order, within the range, without a gap but    *)
(* for what could not be fetched, wherever the playback breaks off; and    *)
(* when it comes to its end it has played them all.                        *)
THEOREM HoursPlayRangeCorrect == PartsSpec => []HoursPlayRange
  <1>1. IndexAlways => HoursPlayRange
    <2> SUFFICES ASSUME IndexInv
                 PROVE  Index!HoursPlayRange
      BY DEF IndexAlways, HoursPlayRange
    <2>1. Agent!IsRecording(rec) /\ range[1] \in Nat /\ range[2] \in Nat
      BY DEF IndexInv
    <2> DEFINE lo == range[1]
               hi == range[2]
    <2>2. got = <<>> \/ Playing(rec, lo, hi, merged, fetched, got, failed)
      BY DEF IndexInv
    <2>3. got \in Seq(Nat) /\ DOMAIN got = 1..Len(got) /\ Len(got) \in Nat
      <3>1. got \in Seq(Nat)
        BY <2>2, EmptySeq DEF Playing
      <3> QED BY <3>1, LenProperties
    <2>4. got = <<>> => Len(got) = 0
      BY EmptySeq
    <2>5. /\ \A k \in 1..Len(got) : got[k] \in DOMAIN rec /\ lo <= At(rec, got[k])
                                    /\ At(rec, got[k]) <= hi
          /\ \A k, l \in 1..Len(got) : k < l => Lex(rec, got[k], got[l])
      BY <2>2, <2>3, <2>4 DEF Playing
    <2>6. ASSUME NEW k \in DOMAIN got, ~Index!Straddles(rec, got[k])
          PROVE  /\ Index!InRange(got[k])
                 /\ \A l \in DOMAIN got :
                       k < l /\ ~Index!Straddles(rec, got[l]) => got[k] < got[l]
      <3>1. At(rec, got[k]) = rec[got[k]].start
        BY <2>1, <2>3, <2>5, <2>6, AtFacts
      <3>2. Index!InRange(got[k])
        BY <2>3, <2>5, <3>1 DEF Index!InRange
      <3>3. ASSUME NEW l \in DOMAIN got, k < l, ~Index!Straddles(rec, got[l])
            PROVE  got[k] < got[l]
        BY <2>1, <2>3, <2>5, <2>6, <3>3, LexRecorded
      <3> QED BY <3>2, <3>3
    <2>7. ASSUME NEW i \in Index!Segs, Index!FiledIn(rec, i) \in fetched,
                 ~Index!Straddles(rec, i), Index!InRange(i),
                 \/ pc = "ended"
                 \/ \E k \in DOMAIN got : ~Index!Straddles(rec, got[k]) /\ i < got[k]
          PROVE  i \in Index!Range(got) \cup failed
      <3>1. i \in DOMAIN rec /\ Agent!FiledIn(rec, i) \in fetched
        BY <2>7, SameRecording DEF Index!Segs
      <3>2. At(rec, i) = rec[i].start /\ At(rec, i) \in Nat
        BY <2>1, <2>7, <3>1, AtFacts
      <3> DEFINE a == At(rec, i)
      <3>3. lo <= a /\ a <= hi
        BY <2>7, <3>2 DEF Index!InRange
      <3>4. Playing(rec, lo, hi, merged, fetched, got, failed)
        <4>1. got # <<>> \/ pc = "ended"
          BY <2>3, <2>4, <2>7
        <4> QED BY <2>2, <4>1 DEF IndexInv
      <3>5. Has(merged, i) \/ Contains(got, i) \/ i \in failed \/ a < lo
        BY <3>1, <3>4 DEF Playing
      <3>6. ASSUME pc = "ended", Has(merged, i)
            PROVE  hi < a
        <4>1. PICK k \in 1..Len(merged) : merged[k].seg = i
          BY <3>6 DEF Has
        <4>2. hi < merged[k].at /\ merged[k].at = At(rec, merged[k].seg)
          BY <3>4, <3>6 DEF IndexInv, Playing, Dated
        <4> QED BY <4>1, <4>2
      <3>7. ASSUME NEW k \in DOMAIN got, ~Index!Straddles(rec, got[k]), i < got[k],
                   Has(merged, i)
            PROVE  FALSE
        <4>1. Lex(rec, got[k], i)
          BY <2>3, <3>4, <3>7 DEF Playing, Has
        <4>2. got[k] < i
          BY <2>1, <2>3, <2>5, <2>7, <3>1, <3>7, <4>1, LexRecorded
        <4>3. got[k] \in Nat /\ i \in Nat
          <5>1. DOMAIN rec = 1..Len(rec)
            BY <2>1, HourLenPositive, RecordingFacts
          <5>2. got[k] \in DOMAIN rec
            BY <2>3, <2>5, <3>7
          <5> QED BY <3>1, <5>1, <5>2
        <4> QED BY <3>7, <4>2, <4>3
      <3> HIDE DEF a, lo, hi
      <3>8. ~(a < lo) /\ ~(hi < a)
        <4>1. a \in Nat /\ lo \in Nat /\ hi \in Nat
          BY <2>1, <3>2 DEF a, lo, hi
        <4> QED BY <3>3, <4>1
      <3>9. Contains(got, i) => i \in Index!Range(got)
        BY <2>3 DEF Contains, Index!Range
      <3> QED BY <2>7, <3>5, <3>6, <3>7, <3>8, <3>9
    <2> QED BY <2>6, <2>7 DEF Index!HoursPlayRange
  <1> QED BY <1>1, IndexHolds, PTL
=============================================================================
