----------------------------- MODULE PidTracker -----------------------------
(***************************************************************************)
(* The continuity check of mpegts_pid_tracker (src/lib.rs), fed by a       *)
(* transport stream that loses, repeats and damages packets on its way.    *)
(*                                                                         *)
(* A packet carries a stream identifier and a four-bit counter that its    *)
(* source increments with every packet of that stream that has a payload.  *)
(* process_packet compares it with the last one taken in of that stream.   *)
(***************************************************************************)
EXTENDS Integers, FiniteSets

CONSTANTS
    Pids,        \* stream identifiers, the null identifier not among them
    Disturbed,   \* those that lose, repeat or damage packets, or restart
    NullPid,     \* PID_NULL
    Invalid,     \* the error 0xFFFF
    Ok,          \* Ok(())
    MaxMissing,  \* bound: payload packets of a stream in a row not taken in
    MaxFaults    \* bound: faults of a stream

ASSUME PidAssumption ==
    /\ NullPid \notin Pids /\ Disturbed \subseteq Pids
    /\ {Invalid, Ok} \cap Pids = {} /\ Invalid # Ok
    /\ MaxMissing \in Nat /\ MaxFaults \in Nat

VARIABLES
    continuity,  \* the map of the tracker, as far as it is filled
    result,      \* what process_packet returned last
    packet,      \* the packet on the wire
    copies,      \* how often it is still to be delivered
    cc,          \* the counter of the source, per stream
    missing,     \* history: payload packets sent since the last one taken in
    broken,      \* history: one of them was lost or will be refused
    jumped,      \* history: one of them had restarted the counter
    errors,      \* history: continuity errors reported
    faults       \* history: bursts of lost packets, and repeated packets

source  == <<packet, copies, cc, jumped, faults>>
tracker == <<continuity, result, errors>>
vars == <<source, tracker, missing, broken>>

Counters == 0..15

(* sized: 188 bytes. sane: no adaptation field, or one of a legal length.  *)
(* restart: the discontinuity indicator.                                   *)
Packets == [pid : Pids \cup {NullPid}, cc : Counters, payload : BOOLEAN,
            restart : BOOLEAN, sized : BOOLEAN, sane : BOOLEAN]

(* The wire between two packets.                                           *)
Quiet == [pid |-> NullPid, cc |-> 0, payload |-> FALSE,
          restart |-> FALSE, sized |-> TRUE, sane |-> TRUE]

Init ==
    /\ continuity = [p \in {} |-> 0] /\ result = Ok
    /\ cc \in [Pids -> Counters]
    /\ packet = Quiet /\ copies = 0
    /\ missing = [p \in Pids |-> 0]
    /\ broken = [p \in Pids |-> FALSE] /\ jumped = [p \in Pids |-> FALSE]
    /\ errors = [p \in Pids |-> 0] /\ faults = [p \in Pids |-> 0]

-----------------------------------------------------------------------------
(* process_packet. The order of its tests decides what a packet that is    *)
(* odd in several ways does.                                               *)

Refused == ~packet.sized \/ (packet.pid # NullPid /\ ~packet.sane)
Counted == ~Refused /\ packet.pid # NullPid /\ packet.payload

BugExpected == continuity[packet.pid] + 1
Expected == (continuity[packet.pid] + 1) % 16

BugMismatch ==
    ~packet.restart /\ packet.pid \in DOMAIN continuity /\ packet.cc < Expected
Mismatch ==
    ~packet.restart /\ packet.pid \in DOMAIN continuity /\ packet.cc # Expected

(* continuity.insert(pid, current_cc)                                      *)
BugNoted == IF Mismatch THEN continuity
            ELSE [p \in DOMAIN continuity \cup {packet.pid} |->
                    IF p = packet.pid THEN packet.cc ELSE continuity[p]]
Noted == [p \in DOMAIN continuity \cup {packet.pid} |->
            IF p = packet.pid THEN packet.cc ELSE continuity[p]]

Refuse ==
    /\ Refused
    /\ result' = Invalid
    /\ UNCHANGED <<continuity, errors, missing, broken, jumped>>

Skip ==
    /\ ~Refused /\ ~Counted
    /\ result' = Ok
    /\ UNCHANGED <<continuity, errors, missing, broken, jumped>>

TakeIn ==
    /\ Counted
    /\ continuity' = Noted
    /\ IF Mismatch
       THEN result' = packet.pid
            /\ errors' = [errors EXCEPT ![packet.pid] = @ + 1]
       ELSE result' = Ok /\ UNCHANGED errors
    /\ missing' = [missing EXCEPT ![packet.pid] = 0]
    /\ broken' = [broken EXCEPT ![packet.pid] = FALSE]
    /\ jumped' = [jumped EXCEPT ![packet.pid] = FALSE]

ProcessPacket ==
    /\ copies > 0 /\ copies' = copies - 1
    /\ Refuse \/ Skip \/ TakeIn
    /\ packet' = IF copies' = 0 THEN Quiet ELSE packet
    /\ UNCHANGED <<cc, faults>>

-----------------------------------------------------------------------------
(* The stream and the way it takes.                                        *)

(* A packet with a payload, delivered n times, whole or not. The counter   *)
(* moves on by one, or anywhere when the packet says so. Refusing it is    *)
(* losing it: either begins a burst unless one is under way.               *)
SendPayload(p, n, restart, sized, sane) ==
    LET reaches == n > 0 /\ sized /\ sane
        burst   == ~reaches /\ ~broken[p]
        again   == reaches /\ n = 2
    IN  /\ copies = 0 /\ missing[p] < MaxMissing
        /\ p \in Disturbed \/ (reaches /\ ~again /\ ~restart)
        /\ burst \/ again => faults[p] < MaxFaults
        /\ \E c \in Counters :
             /\ restart \/ c = (cc[p] + 1) % 16
             /\ cc' = [cc EXCEPT ![p] = c]
             /\ packet' = IF n = 0 THEN Quiet
                          ELSE [pid |-> p, cc |-> c, payload |-> TRUE,
                                restart |-> restart, sized |-> sized, sane |-> sane]
        /\ copies' = n
        /\ missing' = [missing EXCEPT ![p] = @ + 1]
        /\ broken' = [broken EXCEPT ![p] = @ \/ ~reaches]
        /\ jumped' = [jumped EXCEPT ![p] = @ \/ restart]
        /\ faults' = [faults EXCEPT ![p] = IF burst \/ again THEN @ + 1 ELSE @]
        /\ UNCHANGED tracker

(* A packet without one, or stuffing; its counter is not looked at.        *)
SendBare(p, sized, sane) ==
    /\ copies = 0 /\ copies' = 1
    /\ packet' = [pid |-> p, cc |-> 0,
                  payload |-> p = NullPid, restart |-> FALSE,
                  sized |-> sized, sane |-> sane]
    /\ UNCHANGED <<tracker, cc, missing, broken, jumped, faults>>

Next ==
    \/ ProcessPacket
    \/ \E p \in Pids, n \in 0..2, restart, sized, sane \in BOOLEAN :
         SendPayload(p, n, restart, sized, sane)
    \/ \E p \in Pids \cup {NullPid}, sized, sane \in BOOLEAN :
         SendBare(p, sized, sane)

Spec == Init /\ [][Next]_vars

-----------------------------------------------------------------------------
(* Every variable has its type. *)
TypeOK ==
    /\ DOMAIN continuity \subseteq Pids
    /\ \A p \in DOMAIN continuity : continuity[p] \in Counters
    /\ result \in Pids \cup {Ok, Invalid}
    /\ packet \in Packets /\ copies \in 0..2
    /\ cc \in [Pids -> Counters] /\ missing \in [Pids -> Nat]
    /\ broken \in [Pids -> BOOLEAN] /\ jumped \in [Pids -> BOOLEAN]
    /\ errors \in [Pids -> Nat] /\ faults \in [Pids -> Nat]

(* What the tracker holds of a stream is behind its source by exactly the  *)
(* payload packets that are missing, modulo 16, whatever the other streams *)
(* and the packets without a payload do in between.                        *)
TrackerFollows ==
    \A p \in DOMAIN continuity :
        jumped[p] \/ (continuity[p] + missing[p]) % 16 = cc[p]

(* "ensuring that tracking continues without compounding errors": a stream *)
(* has no more errors reported than bursts of lost packets and repeats, so *)
(* an undisturbed one has none.                                            *)
NoCompoundingErrors == \A p \in Pids : errors[p] <= faults[p]

(* A packet taken in of a known stream is reported exactly when the        *)
(* payload packets since the last one, itself included, are not one more   *)
(* than a multiple of 16: a loss of 16 goes unnoticed, any shorter one     *)
(* does not.                                                               *)
GapsReported ==
    [][\A p \in DOMAIN continuity :
         (copies > copies' /\ Counted /\ packet.pid = p
            /\ ~packet.restart /\ ~jumped[p])
         => (result' = p <=> missing[p] % 16 # 1)]_vars
=============================================================================
