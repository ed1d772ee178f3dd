-------------------------- MODULE CapturePipeline --------------------------
(***************************************************************************)
(* The threads of udp-to-hls (src/src/main.rs, main): a capture thread     *)
(* that takes packets from libpcap and sends them into a bounded channel,  *)
(* the main task that receives and segments them, the consumer thread of   *)
(* the diskless ring, the CTRL+C handler, and how they end: a shared flag, *)
(* the end of the channel, a duration limit, and the joins.                *)
(*                                                                         *)
(* What the main task does with a packet is Segmenter's subject; here it   *)
(* either leaves the packet in the open segment or closes the segment.     *)
(***************************************************************************)
EXTENDS Integers, Sequences

CONSTANTS
    ChannelCap,   \* capacity of pcap_tx/pcap_rx (100000 in the code)
    KernelCap,    \* packets libpcap buffers; more are dropped
    HasDuration,  \* duration > 0
    CaptureFails, \* whether libpcap may report an error
    MaxPackets,   \* bound: packets on the network
    MaxSignals    \* bound: presses of CTRL+C

ASSUME CaptureAssumption ==
    /\ ChannelCap \in Nat \ {0} /\ KernelCap \in Nat \ {0}
    /\ {HasDuration, CaptureFails} \subseteq BOOLEAN
    /\ MaxPackets \in Nat /\ MaxSignals \in Nat

VARIABLES
    arrived,    \* number of packets seen on the network
    kernel,     \* the packets libpcap holds
    flag,       \* shutdown_flag
    signals,    \* ctrl_counter
    expired,    \* the duration limit has passed
    capPc,      \* program point of the capture thread
    capHand,    \* the packet the capture thread is sending
    chan,       \* the channel
    mainPc,     \* program point of the main task
    mainHand,   \* the packet the main task is working on
    open,       \* packets in the open segment
    endedBy,    \* why the main loop ended
    consPc,     \* program point of the diskless consumer
    captured,   \* history: the packets libpcap has delivered
    processed   \* history: the packets segmented

netVars  == <<arrived, kernel>>
ctlVars  == <<flag, signals, expired>>
capVars  == <<capPc, capHand, captured>>
mainVars == <<mainPc, mainHand, open, endedBy, processed>>
vars == <<netVars, ctlVars, capVars, chan, mainVars, consPc>>

Running == mainPc \notin {"exit", "killed"}

Init ==
    /\ arrived = 0 /\ kernel = <<>>
    /\ flag = FALSE /\ signals = 0 /\ expired = FALSE
    /\ capPc = "check" /\ capHand = <<>> /\ chan = <<>>
    /\ mainPc = "check" /\ mainHand = <<>> /\ open = 0 /\ endedBy = "none"
    /\ consPc = "run" /\ captured = <<>> /\ processed = <<>>

-----------------------------------------------------------------------------
(* The capture thread.                                                     *)

(* The loop condition; leaving the loop drops the sender.                  *)
CapCheck ==
    /\ Running /\ capPc = "check"
    /\ capPc' = IF flag THEN "ended" ELSE "next"
    /\ UNCHANGED <<netVars, ctlVars, capHand, captured, chan, mainVars, consPc>>

(* The capture is opened nonblocking and read as a stream, which stays     *)
(* pending until there is a packet or an error: on a silent interface the  *)
(* thread does not come back to look at the flag. (The arms for None and   *)
(* for TimeoutExpired are never taken.)                                    *)
CapNext ==
    /\ Running /\ capPc = "next" /\ kernel # <<>>
    /\ capHand' = <<Head(kernel)>> /\ kernel' = Tail(kernel)
    /\ captured' = Append(captured, Head(kernel))
    /\ capPc' = "send"
    /\ UNCHANGED <<arrived, ctlVars, chan, mainVars, consPc>>

CapError ==
    /\ Running /\ capPc = "next" /\ CaptureFails
    /\ capPc' = "ended"
    /\ UNCHANGED <<netVars, ctlVars, capHand, captured, chan, mainVars, consPc>>

(* send blocks while the channel is full; the receiver outlives this       *)
(* thread, so that it never fails.                                         *)
BugCapSend ==
    /\ Running /\ capPc = "send"
    /\ chan' = IF Len(chan) < ChannelCap THEN chan \o capHand ELSE chan
    /\ capHand' = <<>> /\ capPc' = "check"
    /\ UNCHANGED <<netVars, ctlVars, captured, mainVars, consPc>>
CapSend ==
    /\ Running /\ capPc = "send" /\ Len(chan) < ChannelCap
    /\ chan' = chan \o capHand
    /\ capHand' = <<>> /\ capPc' = "check"
    /\ UNCHANGED <<netVars, ctlVars, captured, mainVars, consPc>>

-----------------------------------------------------------------------------
(* The main task.                                                          *)

MainCheck ==
    /\ mainPc = "check"
    /\ IF flag THEN mainPc' = "stop" /\ endedBy' = "flag"
               ELSE mainPc' = "recv" /\ UNCHANGED endedBy
    /\ UNCHANGED <<netVars, ctlVars, capVars, chan, mainHand, open, processed, consPc>>

MainRecv ==
    /\ mainPc = "recv" /\ chan # <<>>
    /\ mainHand' = <<Head(chan)>> /\ chan' = Tail(chan)
    /\ mainPc' = "process"
    /\ UNCHANGED <<netVars, ctlVars, capVars, open, endedBy, processed, consPc>>

(* recv reports the end of the channel once the sender is dropped and      *)
(* every packet has been received.                                         *)
ChannelEnded == capPc = "ended" /\ chan = <<>>

(* The segment is closed, and the loop ends.                               *)
MainDisconnected ==
    /\ mainPc = "recv" /\ ChannelEnded
    /\ open' = 0 /\ mainPc' = "stop" /\ endedBy' = "disconnected"
    /\ UNCHANGED <<netVars, ctlVars, capVars, chan, mainHand, processed, consPc>>

(* The packet is written; the duration limit is looked at only here.       *)
MainProcess ==
    /\ mainPc = "process"
    /\ processed' = processed \o mainHand /\ mainHand' = <<>>
    /\ open' \in {0, open + 1}
    /\ IF expired THEN mainPc' = "stop" /\ endedBy' = "duration"
                  ELSE mainPc' = "check" /\ UNCHANGED endedBy
    /\ UNCHANGED <<netVars, ctlVars, capVars, chan, consPc>>

BugRaise == UNCHANGED flag
Raise == flag' = TRUE

(* After the loop: the flag is set and the capture thread is joined, with  *)
(* the receiver still alive but no longer read.                            *)
MainStop ==
    /\ mainPc = "stop" /\ mainPc' = "join"
    /\ Raise
    /\ UNCHANGED <<netVars, signals, expired, capVars, chan, mainHand, open,
                   endedBy, processed, consPc>>

BugJoined == TRUE
Joined == capPc = "ended"

MainJoin ==
    /\ mainPc = "join" /\ Joined
    /\ mainPc' = "finalize"
    /\ UNCHANGED <<netVars, ctlVars, capVars, chan, mainHand, open, endedBy,
                   processed, consPc>>

MainFinalize ==
    /\ mainPc = "finalize" /\ mainPc' = "reap"
    /\ open' = 0
    /\ UNCHANGED <<netVars, ctlVars, capVars, chan, mainHand, endedBy,
                   processed, consPc>>

MainReap ==
    /\ mainPc = "reap" /\ consPc = "ended"
    /\ mainPc' = "exit"
    /\ UNCHANGED <<netVars, ctlVars, capVars, chan, mainHand, open, endedBy,
                   processed, consPc>>

-----------------------------------------------------------------------------
(* The diskless consumer looks at the flag every half second.              *)
Consumer ==
    /\ Running /\ consPc = "run" /\ flag
    /\ consPc' = "ended"
    /\ UNCHANGED <<netVars, ctlVars, capVars, chan, mainVars>>

(* CTRL+C raises the flag; the third time the process exits at once.       *)
CtrlC ==
    /\ Running /\ signals < MaxSignals
    /\ flag' = TRUE /\ signals' = signals + 1
    /\ IF signals' >= 3 THEN mainPc' = "killed" ELSE UNCHANGED mainPc
    /\ UNCHANGED <<netVars, expired, capVars, chan, mainHand, open, endedBy,
                   processed, consPc>>

(* The environment: traffic, which libpcap drops when its buffer is full,  *)
(* and time.                                                               *)
Arrive ==
    /\ Running /\ arrived < MaxPackets
    /\ arrived' = arrived + 1
    /\ kernel' = IF Len(kernel) < KernelCap THEN Append(kernel, arrived') ELSE kernel
    /\ UNCHANGED <<ctlVars, capVars, chan, mainVars, consPc>>

Expire ==
    /\ Running /\ HasDuration /\ ~expired
    /\ expired' = TRUE
    /\ UNCHANGED <<netVars, flag, signals, capVars, chan, mainVars, consPc>>

Terminated == ~Running /\ UNCHANGED vars

Capture == CapCheck \/ CapNext \/ CapSend
Main == MainCheck \/ MainRecv \/ MainDisconnected \/ MainProcess \/ MainStop
        \/ MainJoin \/ MainFinalize \/ MainReap

Next == Capture \/ CapError \/ Main \/ Consumer \/ CtrlC \/ Arrive \/ Expire
        \/ Terminated

Spec == Init /\ [][Next]_vars

(* Every thread is scheduled, and the S3 calls inside a step return.       *)
(* Traffic, signals, time and capture errors are not owed.                 *)
FairSpec == Spec /\ WF_vars(Capture) /\ WF_vars(Main) /\ WF_vars(Consumer)

-----------------------------------------------------------------------------
(* Properties.                                                             *)

Packets == 1..MaxPackets
AtMostOne == {<<>>} \cup {<<p>> : p \in Packets}

(* The type of every variable.                                             *)
TypeOK ==
    /\ arrived \in 0..MaxPackets /\ kernel \in Seq(Packets)
    /\ Len(kernel) <= KernelCap
    /\ flag \in BOOLEAN /\ signals \in 0..MaxSignals /\ expired \in BOOLEAN
    /\ capPc \in {"check", "next", "send", "ended"} /\ capHand \in AtMostOne
    /\ (capPc = "send") <=> (capHand # <<>>)
    /\ chan \in Seq(Packets) /\ Len(chan) <= ChannelCap
    /\ mainPc \in {"check", "recv", "process", "stop", "join", "finalize",
                   "reap", "exit", "killed"}
    /\ mainHand \in AtMostOne /\ open \in Nat
    /\ endedBy \in {"none", "flag", "disconnected", "duration"}
    /\ consPc \in {"run", "ended"}
    /\ captured \in Seq(Packets) /\ processed \in Seq(Packets)

(* Between libpcap and the segmenter nothing is lost or reordered: what    *)
(* has been captured is what was processed, then what the main task holds, *)
(* then the channel, then what the capture thread holds. Only libpcap      *)
(* drops.                                                                  *)
NoLossInside ==
    processed \o mainHand \o chan \o capHand = captured

(* The process never exits by itself with a segment open or a thread       *)
(* running, and finalize sees no packet come after it. When the capture    *)
(* thread dies by itself the recording is complete: the main task ends     *)
(* only after all that was captured has gone to the segmenter (which may   *)
(* hold the last packets in an unfilled batch: Segmenter's loss).          *)
ExitIsClean ==
    /\ mainPc = "exit" => open = 0 /\ capPc = "ended" /\ consPc = "ended" /\ flag
    /\ endedBy = "disconnected" => processed = captured

(* What holds a shutdown: the capture thread sits in a send on the full    *)
(* channel while the main task joins it; or it waits for a packet of an    *)
(* interface that is silent, having looked at the flag too early, while    *)
(* the main task waits for it or for what it would send. (A third CTRL+C   *)
(* ends the process all the same.)                                         *)
FullChannel == mainPc = "join" /\ capPc = "send" /\ Len(chan) = ChannelCap
Silent ==
    /\ flag /\ capPc = "next" /\ kernel = <<>>
    /\ mainPc = "join" \/ (mainPc = "recv" /\ chan = <<>>)

(* A shutdown, once asked for by CTRL+C or begun by the main task,         *)
(* completes: the process exits ("shutting down gracefully"), unless no    *)
(* packet comes any more.                                                  *)
ShutdownCompletes == (flag \/ mainPc = "stop") ~> (~Running \/ []Silent)

(* Only the capture thread can keep a shutdown from completing, and only   *)
(* in two places: on the full channel, or before an interface that stays   *)
(* silent. One packet ends the second wait, nothing ends the first.        *)
OnlyTheCaptureHolds ==
    (flag \/ mainPc = "stop") ~> (~Running \/ []FullChannel \/ []Silent)
=============================================================================
