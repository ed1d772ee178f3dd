------------------------------- MODULE Relay --------------------------------
(***************************************************************************)
(* What a playback promises, without threads, queues and signals: cells    *)
(* 1, 2, ... of a stream go in, and come out in their order, once, in      *)
(* packets of PacketCells cells. Until it begins to close, cells are lost  *)
(* only as whole packets that are due to come out next, and only when the  *)
(* way out is lossy; from then on any run of cells may be given up.        *)
(*                                                                         *)
(* HlsSender implements this specification (see RelayImplemented there).   *)
(***************************************************************************)
EXTENDS Integers, Sequences

CONSTANTS
    MaxFeed,      \* the most cells that go in at once
    PacketCells,  \* cells of a packet
    Lossy         \* whether the way out may lose packets

VARIABLES
    fed,      \* cells that went in
    inside,   \* those that are on their way
    output,   \* those that came out
    closing   \* the playback has begun to close

rvars == <<fed, inside, output, closing>>

RInit == fed = 0 /\ inside = <<>> /\ output = <<>> /\ closing = FALSE

Feed(k) ==
    /\ fed' = fed + k
    /\ inside' = inside \o [i \in 1..k |-> fed + i]
    /\ UNCHANGED <<output, closing>>

Due == SubSeq(inside, 1, PacketCells)
Behind == SubSeq(inside, PacketCells + 1, Len(inside))

Emit ==
    /\ Len(inside) >= PacketCells
    /\ output' = output \o Due /\ inside' = Behind
    /\ UNCHANGED <<fed, closing>>

Lose ==
    /\ Lossy /\ Len(inside) >= PacketCells
    /\ inside' = Behind
    /\ UNCHANGED <<fed, output, closing>>

BeginClose == ~closing /\ closing' = TRUE /\ UNCHANGED <<fed, inside, output>>

GiveUp ==
    /\ closing
    /\ \E i \in 0..Len(inside) : \E j \in i..Len(inside) :
          inside' = SubSeq(inside, 1, i) \o SubSeq(inside, j + 1, Len(inside))
    /\ UNCHANGED <<fed, output, closing>>

RNext == (\E k \in 1..MaxFeed : Feed(k)) \/ Emit \/ Lose \/ BeginClose \/ GiveUp

RelaySpec == RInit /\ [][RNext]_rvars
=============================================================================
