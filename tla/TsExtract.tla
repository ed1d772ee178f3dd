----------------------------- MODULE TsExtract ------------------------------
(***************************************************************************)
(* How udp-to-hls cuts datagrams into transport packets (src/src/main.rs,  *)
(* get_snaplen, extract_mpegts_payload and the inner loop of main): the    *)
(* capture keeps so many bytes of a frame, a datagram that is not there    *)
(* whole is refused, bytes that are left over wait for the next datagram,  *)
(* a byte that is no sync byte is skipped up to the next one, and a packet *)
(* its header does not allow gives up one byte.                            *)
(*                                                                         *)
(* The source is a run of packets of Size bytes, sent as they are or with  *)
(* an RTP header before them; byte k of it is the number k, and the first  *)
(* byte of a packet is a sync byte. A byte inside a packet may look like   *)
(* one.                                                                    *)
(***************************************************************************)
EXTENDS Integers, Sequences, SequencesExt, FiniteSetsExt

CONSTANTS
    Size,          \* TS_PACKET_SIZE, 188 in the code
    Batch,         \* packets written at once, 7 in the code
    Header,        \* bytes of a packet that process_packet judges it by
    FrameHeader,   \* bytes of the Ethernet, IP and UDP headers, 42
    RtpHeader,     \* bytes of an RTP header, 12
    SnapCount,     \* get_pcap_packet_count(), 7 by default
    DatagramSizes, \* bytes of the source that may travel in a datagram
    Loss,          \* whether the network may lose datagrams
    LookAlikes,    \* bytes of the source that may look like a sync byte
    DropCorrupt,   \* --drop_corrupt_ts
    WriteFails,    \* whether write_ts may fail
    MaxBytes       \* bound: bytes of the source

ExtractAssumption ==
    /\ Size \in Nat \ {0, 1} /\ Batch \in Nat \ {0} /\ Header \in 1..Size
    /\ FrameHeader \in Nat /\ RtpHeader \in Nat /\ SnapCount \in Nat
    /\ Loss \in BOOLEAN
    /\ DatagramSizes \subseteq Nat \ {0} /\ LookAlikes \subseteq Nat
    /\ DropCorrupt \in BOOLEAN /\ WriteFails \in BOOLEAN /\ MaxBytes \in Nat

VARIABLES
    rtp,       \* whether the source sends RTP
    sent,      \* bytes the source has sent
    alike,     \* the bytes of LookAlikes that do
    bad,       \* the packets of the source with a header that is not legal
    leftover,  \* leftover_ts
    looping,   \* the inner loop is at work on a datagram
    batch,     \* batch_buffer_arcs
    got,       \* history: the bytes handed to the loop
    out,       \* history: the packets that entered the batch
    cuts,      \* history: datagrams, taken or not, that break off in a packet
    failed     \* history: a write has failed

fixed == <<rtp, alike, bad>>
vars == <<sent, fixed, leftover, looping, batch, got, out, cuts, failed>>

Starts(k) == k % Size = 0
PacketOf(k) == k - (k % Size)
Sync(k) == Starts(k) \/ k \in alike

Init ==
    /\ rtp \in BOOLEAN
    /\ sent = 0 /\ leftover = <<>> /\ looping = FALSE /\ batch = 0
    /\ alike \in SUBSET LookAlikes
    /\ bad \in SUBSET {k \in 0..(MaxBytes - 1) : DropCorrupt /\ Starts(k)}
    /\ got = <<>> /\ out = <<>> /\ cuts = 0 /\ failed = FALSE

-----------------------------------------------------------------------------

(* get_snaplen: what libpcap keeps of a frame. The defaults of its three   *)
(* settings make room for seven packets behind the headers.                *)
SnapLen == SnapCount * Size + FrameHeader

(* A datagram with n bytes of the source is taken when the capture has the *)
(* whole of it and the stream begins with a sync byte.                     *)
Taken(n) ==
    /\ FrameHeader + (IF rtp THEN RtpHeader ELSE 0) + n <= SnapLen
    /\ Sync(sent)

(* The next n bytes of the source make a datagram, which may get lost.     *)
Datagram(n) ==
    LET bytes == [i \in 1..n |-> sent + i - 1]
    IN  /\ ~looping /\ sent + n <= MaxBytes
        /\ sent' = sent + n
        /\ cuts' = cuts + (IF Starts(sent + n) THEN 0 ELSE 1)
        /\ \/ /\ Taken(n)
              /\ leftover' = leftover \o bytes /\ got' = got \o bytes
              /\ looping' = TRUE
           \/ (Loss \/ ~Taken(n)) /\ UNCHANGED <<leftover, got, looping>>
        /\ UNCHANGED <<fixed, batch, out, failed>>

Enough(s) == Len(s) >= Size

Working == looping /\ Enough(leftover)

LoopEnds ==
    /\ looping /\ ~Enough(leftover)
    /\ looping' = FALSE
    /\ UNCHANGED <<sent, fixed, leftover, batch, got, out, cuts, failed>>

(* The bytes from the next sync byte on.                                   *)
BugRealign(s) == <<>>
Realign(s) ==
    LET at == {i \in 1..Len(s) : Sync(s[i])}
    IN  IF at = {} THEN <<>> ELSE SubSeq(s, Min(at), Len(s))

SkipToSync ==
    /\ Working /\ ~Sync(leftover[1])
    /\ leftover' = Realign(leftover)
    /\ UNCHANGED <<sent, fixed, looping, batch, got, out, cuts, failed>>

First == SubSeq(leftover, 1, Size)
Whole(p) == Starts(p[1]) /\ p[Size] = p[1] + Size - 1

(* process_packet answers 0xFFFF, which the first bytes of a packet decide *)
(* (PidTracker!Refused). What it makes of a header that is put together    *)
(* from pieces of two packets is open.                                     *)
HeaderWhole(p) == Starts(p[1]) /\ p[Header] = p[1] + Header - 1
MayRefuse == IF HeaderWhole(First) THEN First[1] \in bad ELSE DropCorrupt
MayPass == HeaderWhole(First) => First[1] \notin bad

GiveUp(s) == Tail(s)

DropByte ==
    /\ Working /\ Sync(leftover[1]) /\ MayRefuse
    /\ leftover' = GiveUp(leftover)
    /\ UNCHANGED <<sent, fixed, looping, batch, got, out, cuts, failed>>

BugRest(s) == SubSeq(s, 2, Len(s))
Rest(s) == SubSeq(s, Size + 1, Len(s))

Full == batch + 1 >= Batch

(* A full batch is written; a write that fails leaves the loop and the     *)
(* batch as it is.                                                         *)
Extract ==
    /\ Working /\ Sync(leftover[1]) /\ MayPass
    /\ out' = Append(out, First)
    /\ leftover' = Rest(leftover)
    /\ \/ ~Full /\ batch' = batch + 1 /\ UNCHANGED <<looping, failed>>
       \/ Full /\ batch' = 0 /\ UNCHANGED <<looping, failed>>
       \/ /\ Full /\ WriteFails
          /\ batch' = batch + 1 /\ looping' = FALSE /\ failed' = TRUE
    /\ UNCHANGED <<sent, fixed, got, cuts>>

Loop == LoopEnds \/ SkipToSync \/ DropByte \/ Extract

Next ==
    \/ \E n \in DatagramSizes : Datagram(n)
    \/ Loop
    \/ sent > MaxBytes - Min(DatagramSizes) /\ ~looping /\ UNCHANGED vars

Spec == Init /\ [][Next]_vars

-----------------------------------------------------------------------------
(* Every variable has its type, and a packet its size. *)
TypeOK ==
    /\ rtp \in BOOLEAN /\ sent \in 0..MaxBytes /\ alike \subseteq LookAlikes /\ looping \in BOOLEAN
    /\ leftover \in Seq(0..(MaxBytes - 1)) /\ got \in Seq(0..(MaxBytes - 1))
    /\ batch \in Nat /\ (~failed => batch < Batch)
    /\ \A i \in DOMAIN out : DOMAIN out[i] = 1..Size
    /\ cuts \in Nat /\ failed \in BOOLEAN

(* The bytes that reach the segmenter are bytes of the source in their     *)
(* order, none of them twice: nothing that is skipped or left over is      *)
(* taken again, or overtaken.                                              *)
BytesInOrder ==
    LET bytes == FlattenSeq(out) \o leftover
    IN  \A i \in 1..(Len(bytes) - 1) : bytes[i] < bytes[i + 1]

(* The bytes of the packets that are legal.                                *)
Legal(s) ==
    FlattenSeq([i \in DOMAIN s |-> IF PacketOf(s[i]) \in bad THEN <<>> ELSE <<s[i]>>])

(* Once the loop has come to rest: while datagrams hold whole packets,     *)
(* exactly the packets taken that are legal have come out, and nothing but *)
(* the rest of one given up waits for the next datagram (only when a       *)
(* packet is given up can a byte that looks like a sync byte mislead). A   *)
(* datagram that breaks off inside a packet costs no more than one packet  *)
(* put together from pieces: the loop finds the way back.                  *)
PacketsPass ==
    /\ (~looping /\ ~failed /\ cuts = 0 /\ (alike = {} \/ bad = {})) =>
           /\ \A i \in DOMAIN leftover : PacketOf(leftover[i]) \in bad
           /\ FlattenSeq(out) = Legal(got)
    /\ alike = {} /\ bad = {} =>
           Cardinality({i \in DOMAIN out : ~Whole(out[i])}) <= cuts

(* "capturing a UDP or RTP stream": with a network that loses nothing and  *)
(* a source that sends whole packets, every byte sent is taken.            *)
SourceTaken == ~Loss /\ cuts = 0 => Len(got) = sent
=============================================================================
