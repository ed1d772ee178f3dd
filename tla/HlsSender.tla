----------------------------- MODULE HlsSender -----------------------------
(***************************************************************************)
(* The threads of hls-to-udp (src/hls-to-udp/src/main.rs): the receiver,   *)
(* reduced here to the segments it has downloaded, sends them through a    *)
(* bounded channel to the sender thread, which buffers them, cuts them     *)
(* into packets and hands these, directly or through the smoother, to the  *)
(* UDP thread over a second bounded channel; main waits for a signal or    *)
(* the shutdown flag and joins them.                                       *)
(*                                                                         *)
(* Data are cells 1, 2, ... in the order of the playlist; a packet is      *)
(* PacketCells of them. The segments of the buffer are one sequence of     *)
(* cells: cutting across a segment boundary yields the same packets.       *)
(***************************************************************************)
EXTENDS Integers, SequencesExt

CONSTANTS
    SegmentCells,  \* the sizes of the segments, in the order of the playlist
                   \* (of which opts.count are in the list)
    PacketCells,   \* min_packet_size = packet_size
    MaxBuffer,     \* get_max_buffer_bytes()
    SegCap,        \* segment_queue_size
    UdpCap,        \* udp_queue_size
    Options,       \* the command lines the program may be started with
    Faults,        \* a subset of Fault
    MaxSignals     \* bound: presses of CTRL+C

Fault == {"start", "socket", "no_pcr"}

(* use_smoother; whether the program is built with one; whether the        *)
(* receiver plays a VOD index; whether the pid of the PCR is given         *)
(* (pcr_pid > 0); whether the dates of a VOD index have their format; how  *)
(* many segments there are to play. Numbers that do not parse fall back on *)
(* their defaults.                                                         *)
Lists == 1..Len(SegmentCells)
Option == [smoother : BOOLEAN, built : BOOLEAN, vodIndex : BOOLEAN,
           pcrKnown : BOOLEAN, dates : BOOLEAN, count : Lists]

ASSUME SenderAssumption ==
    /\ SegmentCells \in Seq(Nat \ {0})
    /\ {PacketCells, MaxBuffer, SegCap, UdpCap} \subseteq Nat \ {0}
    /\ Options \subseteq Option /\ Options # {}
    /\ Faults \subseteq Fault /\ MaxSignals \in Nat

VARIABLES
    opts,      \* the command line
    flag,      \* shutdown_flag
    signals,   \* ctrl_counter
    notices,   \* messages in tx_shutdown
    mainPc,    \* program point of main
    recvPc,    \* program point of the receiver
    taken,     \* segments the receiver has sent
    segq,      \* tx/rx: segments, each the sequence of its cells
    sendPc,    \* program point of the sender thread
    buffer,    \* the cells of its buffer
    pcr,       \* pcr_pid > 0
    smooth,    \* the packets inside the smoother
    udpq,      \* udp_tx/udp_rx
    udpPc,     \* program point of the UDP thread
    sent,      \* history: the packets sent
    dropped    \* history: the packets given up

mainVars == <<flag, signals, notices, mainPc>>
recvVars == <<recvPc, taken>>
sendVars == <<sendPc, buffer, pcr>>
udpVars  == <<udpPc, sent, dropped>>
vars == <<opts, mainVars, recvVars, segq, sendVars, smooth, udpq, udpVars>>

(* The cells before segment i, those of segment i, and the whole stream.   *)
CellsBefore[i \in 1..(Len(SegmentCells) + 1)] ==
    IF i = 1 THEN 0 ELSE CellsBefore[i - 1] + SegmentCells[i - 1]
Cells(i) == [k \in 1..SegmentCells[i] |-> CellsBefore[i] + k]
Total == CellsBefore[opts.count + 1]

UseSmoother == opts.smoother /\ opts.built
VodIndex == opts.vodIndex

Alive == mainPc \notin {"exit", "killed"}

Init ==
    /\ opts \in Options
    /\ flag = FALSE /\ signals = 0 /\ notices = 0 /\ mainPc = "start"
    /\ recvPc = "none" /\ taken = 0 /\ segq = <<>>
    /\ sendPc = "none" /\ buffer = <<>> /\ pcr = opts.pcrKnown
    /\ smooth = <<>> /\ udpq = <<>>
    /\ udpPc = "none" /\ sent = <<>> /\ dropped = <<>>

-----------------------------------------------------------------------------
(* main up to its loop. Dates that do not have their format are a panic.   *)
MainStart ==
    /\ mainPc = "start"
    /\ IF opts.dates
       THEN mainPc' = "poll" /\ recvPc' = "run" /\ sendPc' = "start"
       ELSE mainPc' = "killed" /\ UNCHANGED <<recvPc, sendPc>>
    /\ UNCHANGED <<opts, flag, signals, notices, taken, segq, buffer, pcr, smooth,
                   udpq, udpVars>>

(* The sender makes its socket and starts the UDP thread. When it cannot,  *)
(* it ends and tells nobody.                                               *)
SendStart ==
    /\ Alive /\ sendPc = "start"
    /\ \/ sendPc' = "recv" /\ udpPc' = "run"
       \/ "start" \in Faults /\ sendPc' = "ended" /\ UNCHANGED udpPc
    /\ UNCHANGED <<opts, mainVars, recvVars, segq, buffer, pcr, smooth, udpq, sent,
                   dropped>>

-----------------------------------------------------------------------------
(* The receiver: one segment after the other is downloaded and sent, until *)
(* the list ends or it sees the flag, which the VOD index mode never looks *)
(* at. When the sender thread is gone the send fails.                      *)

RecvDownload ==
    /\ Alive /\ recvPc = "run" /\ (~flag \/ VodIndex)
    /\ taken < opts.count
    /\ recvPc' = "send"
    /\ UNCHANGED <<opts, mainVars, taken, segq, sendVars, smooth, udpq, udpVars>>

RecvSend ==
    /\ Alive /\ recvPc = "send"
    /\ IF sendPc = "ended"
       THEN recvPc' = "ended" /\ notices' = notices + 1 /\ UNCHANGED <<taken, segq>>
       ELSE /\ Len(segq) < SegCap
            /\ segq' = Append(segq, Cells(taken + 1)) /\ taken' = taken + 1
            /\ recvPc' = "run" /\ UNCHANGED notices
    /\ UNCHANGED <<opts, flag, signals, mainPc, sendVars, smooth, udpq, udpVars>>

RecvEnds ==
    /\ Alive /\ recvPc = "run"
    /\ (flag /\ ~VodIndex) \/ taken = opts.count
    /\ recvPc' = "ended"
    /\ UNCHANGED <<opts, mainVars, taken, segq, sendVars, smooth, udpq, udpVars>>

-----------------------------------------------------------------------------
(* The sender thread.                                                      *)

(* The stream model, there while the pid of the PCR is not known, finds it *)
(* in the segment, if the tables are in it.                                *)
PcrFound == pcr \/ UseSmoother
SendRecv ==
    /\ Alive /\ sendPc = "recv" /\ segq # <<>>
    /\ segq' = Tail(segq)
    /\ buffer' = buffer \o Head(segq)
    /\ \/ pcr' = PcrFound
       \/ "no_pcr" \in Faults /\ UNCHANGED pcr
    /\ sendPc' = "throttle"
    /\ UNCHANGED <<opts, mainVars, recvVars, smooth, udpq, udpVars>>

(* rx.recv() fails once the receiver has ended and its queue is empty.     *)
BugDrained == recvPc = "ended"
Drained == recvPc = "ended" /\ segq = <<>>

SendDisconnected ==
    /\ Alive /\ sendPc = "recv" /\ Drained
    /\ sendPc' = "finish"
    /\ UNCHANGED <<opts, mainVars, recvVars, segq, buffer, pcr, smooth, udpq, udpVars>>

(* The explicit buffer control: the thread sleeps while the buffer is at   *)
(* its limit and the flag is not set.                                      *)
SendThrottled ==
    /\ Alive /\ sendPc = "throttle" /\ (Len(buffer) < MaxBuffer \/ flag)
    /\ sendPc' = IF flag THEN "finish" ELSE "drain"
    /\ UNCHANGED <<opts, mainVars, recvVars, segq, buffer, pcr, smooth, udpq, udpVars>>

(* Packets are taken while one is whole and, with the smoother, the pid of *)
(* the PCR is known.                                                       *)
MayCut == (pcr \/ ~UseSmoother) /\ Len(buffer) >= PacketCells
Packet == SubSeq(buffer, 1, PacketCells)

BugRest == SubSeq(buffer, PacketCells, Len(buffer))
Rest == SubSeq(buffer, PacketCells + 1, Len(buffer))

Room == Len(udpq) < UdpCap

(* udp_tx.send blocks while the channel is full, and fails when the UDP    *)
(* thread is gone; the smoother takes what it is given.                    *)
SendPacket ==
    /\ Alive /\ sendPc = "drain" /\ MayCut
    /\ buffer' = Rest
    /\ CASE UseSmoother ->
              smooth' = Append(smooth, Packet) /\ UNCHANGED <<udpq, dropped>>
         [] ~UseSmoother /\ udpPc = "ended" ->
              dropped' = Append(dropped, Packet) /\ UNCHANGED <<smooth, udpq>>
         [] OTHER ->
              /\ Room
              /\ udpq' = Append(udpq, Packet) /\ UNCHANGED <<smooth, dropped>>
    /\ UNCHANGED <<opts, mainVars, recvVars, segq, sendPc, pcr, udpPc, sent>>

SendDrained ==
    /\ Alive /\ sendPc = "drain" /\ ~MayCut
    /\ sendPc' = "recv"
    /\ UNCHANGED <<opts, mainVars, recvVars, segq, buffer, pcr, smooth, udpq, udpVars>>

(* The end of the loop: the smoother is dropped with what it holds, and    *)
(* main is told.                                                           *)
BugNotice == notices
Notice == notices + 1

SendFinish ==
    /\ Alive /\ sendPc = "finish"
    /\ smooth' = <<>> /\ dropped' = dropped \o smooth
    /\ notices' = Notice /\ sendPc' = "join"
    /\ UNCHANGED <<opts, flag, signals, mainPc, recvVars, segq, buffer, pcr,
                   udpq, udpPc, sent>>

(* The UDP thread is joined; its channel is still open on this side.       *)
SendJoined ==
    /\ Alive /\ sendPc = "join" /\ udpPc = "ended"
    /\ sendPc' = "ended"
    /\ UNCHANGED <<opts, mainVars, recvVars, segq, buffer, pcr, smooth, udpq, udpVars>>

(* The callback of the smoother: its packets go to the UDP thread; when    *)
(* that is gone the process exits.                                         *)
SmootherOut ==
    /\ Alive /\ smooth # <<>>
    /\ IF udpPc = "ended"
       THEN mainPc' = "killed" /\ UNCHANGED <<smooth, udpq>>
       ELSE /\ Room
            /\ udpq' = Append(udpq, Head(smooth)) /\ smooth' = Tail(smooth)
            /\ UNCHANGED mainPc
    /\ UNCHANGED <<opts, flag, signals, notices, recvVars, segq, sendVars, udpVars>>

-----------------------------------------------------------------------------
(* The UDP thread: a packet that it takes after the flag is set is not     *)
(* sent; a socket that stays full for ten seconds, or fails, drops it. The *)
(* flag is looked at before it waits, after every packet, and after every  *)
(* five minutes without one.                                               *)
UdpPacket ==
    /\ Alive /\ udpPc = "run" /\ udpq # <<>>
    /\ udpq' = Tail(udpq)
    /\ \/ flag /\ dropped' = Append(dropped, Head(udpq)) /\ udpPc' = "ended"
                /\ UNCHANGED sent
       \/ ~flag /\ sent' = Append(sent, Head(udpq)) /\ UNCHANGED <<dropped, udpPc>>
       \/ /\ ~flag /\ "socket" \in Faults
          /\ dropped' = Append(dropped, Head(udpq)) /\ UNCHANGED <<sent, udpPc>>
    /\ UNCHANGED <<opts, mainVars, recvVars, segq, sendVars, smooth>>

BugWakes == udpq # <<>>
Wakes == TRUE

UdpSeesFlag ==
    /\ Alive /\ udpPc = "run" /\ flag /\ Wakes
    /\ udpPc' = "ended"
    /\ UNCHANGED <<opts, mainVars, recvVars, segq, sendVars, smooth, udpq, sent, dropped>>

(* The wait for a packet gives up after five minutes and begins again.     *)
UdpWaits == udpPc = "run" /\ udpq = <<>> /\ ~(flag /\ Wakes) /\ UNCHANGED vars

-----------------------------------------------------------------------------
(* main and CTRL+C.                                                        *)

Noticed == notices > 0

MainPoll ==
    /\ mainPc = "poll" /\ (flag \/ Noticed)
    /\ flag' = TRUE /\ mainPc' = "join_sender"
    /\ notices' = IF flag THEN notices ELSE notices - 1
    /\ UNCHANGED <<opts, signals, recvVars, segq, sendVars, smooth, udpq, udpVars>>

(* The loop around MainPoll sleeps a tenth of a second and looks again.    *)
MainWaits == mainPc = "poll" /\ ~(flag \/ Noticed) /\ UNCHANGED vars

MainJoins ==
    /\ \/ mainPc = "join_sender" /\ sendPc = "ended" /\ mainPc' = "join_receiver"
       \/ mainPc = "join_receiver" /\ recvPc = "ended" /\ mainPc' = "exit"
    /\ UNCHANGED <<opts, flag, signals, notices, recvVars, segq, sendVars, smooth, udpq, udpVars>>

CtrlC ==
    /\ Alive /\ signals < MaxSignals
    /\ flag' = TRUE /\ signals' = signals + 1
    /\ mainPc' = IF signals' >= 3 THEN "killed" ELSE mainPc
    /\ UNCHANGED <<opts, notices, recvVars, segq, sendVars, smooth, udpq, udpVars>>

Terminated == ~Alive /\ UNCHANGED vars

Receiver == RecvDownload \/ RecvSend \/ RecvEnds
Sender == SendStart \/ SendRecv \/ SendDisconnected \/ SendThrottled \/ SendPacket
          \/ SendDrained \/ SendFinish \/ SendJoined
Udp == UdpPacket \/ UdpSeesFlag
Main == MainStart \/ MainPoll \/ MainJoins

Next == Receiver \/ Sender \/ SmootherOut \/ Udp \/ Main \/ MainWaits \/ UdpWaits
        \/ CtrlC \/ Terminated

Spec == Init /\ [][Next]_vars

(* Threads are scheduled, downloads answer, and the sleep of five minutes  *)
(* ends. CTRL+C is not owed.                                               *)
FairSpec == Spec /\ WF_vars(Receiver) /\ WF_vars(Sender) /\ WF_vars(SmootherOut)
                 /\ WF_vars(Udp) /\ WF_vars(Main)

-----------------------------------------------------------------------------
(* Properties.                                                             *)

(* The type of every variable.                                             *)
TypeOK ==
    /\ opts \in Options
    /\ flag \in BOOLEAN /\ signals \in 0..MaxSignals /\ notices \in 0..2
    /\ mainPc \in {"start", "poll", "join_sender", "join_receiver", "exit", "killed"}
    /\ recvPc \in {"none", "run", "send", "ended"} /\ taken \in 0..opts.count
    /\ segq \in Seq(Seq(1..Total)) /\ Len(segq) <= SegCap
    /\ sendPc \in {"none", "start", "recv", "throttle", "drain", "finish", "join", "ended"}
    /\ buffer \in Seq(1..Total) /\ pcr \in BOOLEAN
    /\ smooth \in Seq(Seq(1..Total))
    /\ udpq \in Seq(Seq(1..Total)) /\ Len(udpq) <= UdpCap
    /\ udpPc \in {"none", "run", "ended"}
    /\ sent \in Seq(Seq(1..Total)) /\ dropped \in Seq(Seq(1..Total))

(* A playback that ends by itself, without CTRL+C, leaves unsent, besides  *)
(* what it has given up, no more than the packets in the UDP queue and a   *)
(* remainder too short for a packet. (The signal of the sender makes main  *)
(* set the flag while packets wait.)                                       *)
EndLosesAtMostTheQueue ==
    mainPc = "exit" /\ signals = 0 /\ ~UseSmoother /\ udpPc # "none" =>
        Total - Len(FlattenSeq(sent \o dropped))
            <= UdpCap * PacketCells + PacketCells - 1

(* A shutdown completes ("shutting down gracefully"), wherever the threads *)
(* block.                                                                  *)
ShutdownCompletes == flag ~> ~Alive

(* A playlist that ends lets the process exit. Two things can keep a       *)
(* playback from its end: the sender sleeps "to lower" a buffer that only  *)
(* the sender empties; or it could not start, and the whole list fits into *)
(* the queue, so that the receiver never finds it gone.                    *)
Throttled == sendPc = "throttle" /\ ~flag /\ Len(buffer) >= MaxBuffer
Unnoticed == sendPc = "ended" /\ udpPc = "none" /\ opts.count <= SegCap
OnlyTheThrottleHolds == <>(~Alive \/ Throttled \/ Unnoticed)

(* The abstract playback: what is inside is the UDP queue, the smoother,   *)
(* the buffer and the segment queue, and it closes from the shutdown flag, *)
(* or the end of the sender's loop, on.                                    *)
RelayView == INSTANCE Relay WITH
    MaxFeed <- Max(Range(SegmentCells)),
    Lossy   <- "socket" \in Faults,
    fed     <- CellsBefore[taken + 1],
    inside  <- FlattenSeq(udpq) \o FlattenSeq(smooth) \o buffer \o FlattenSeq(segq),
    output  <- FlattenSeq(sent),
    closing <- flag \/ sendPc \in {"finish", "join", "ended"}

(* Nothing is repeated or reordered on the way through the threads, and    *)
(* nothing is lost before the end but packets the socket cannot take.      *)
RelayImplemented == RelayView!RelaySpec
=============================================================================
