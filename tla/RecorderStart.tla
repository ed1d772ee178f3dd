--------------------------- MODULE RecorderStart ----------------------------
(***************************************************************************)
(* The start of several udp-to-hls programs (src/src/main.rs, main up to   *)
(* the capture) that record to one bucket: which settings stop a program   *)
(* and which fall back, the bucket that is looked for and then made, the   *)
(* multicast group, the capture device.                                    *)
(***************************************************************************)
EXTENDS Integers

CONSTANTS
    Starters,      \* programs that are started
    MaxStartFaults \* bound: settings that are no use, and calls that fail

StartAssumption == MaxStartFaults \in Nat

VARIABLES
    step,    \* where each program is
    junk,    \* the settings of each that do not parse or do not fit
    bucket,  \* the bucket exists
    status,  \* the exit status of each, "none" while it runs
    trouble  \* history: faults so far, and the programs they hit

vars == <<step, junk, bucket, status, trouble>>

(* Options read with parse()?, and those read with a value to fall back on *)
(* (also every setting of the environment, but for the one whose product   *)
(* with two others is the capture length).                                 *)
Strict == {"duration", "udp_port", "timeout"}
Lenient == {"pcap_stats_interval", "verbose", "hls_keep_segments",
            "diskless_ring_size", "SEGMENT_DURATION_MS"}
SnapLength == "PCAP_PACKET_COUNT"

Init ==
    /\ step = [r \in Starters |-> "arguments"]
    /\ status = [r \in Starters |-> "none"]
    /\ \E r \in Starters, bad \in SUBSET {"timeout", "hls_keep_segments", SnapLength} :
         junk = [q \in Starters |-> IF q = r THEN bad ELSE {}]
    /\ bucket \in BOOLEAN
    /\ trouble = [count |-> 0, who |-> {}]

-----------------------------------------------------------------------------
To(r, next) == step' = [step EXCEPT ![r] = next] /\ UNCHANGED status
Exit(r, code) ==
    step' = [step EXCEPT ![r] = "over"] /\ status' = [status EXCEPT ![r] = code]

Calm == UNCHANGED trouble
Trouble(r) ==
    /\ trouble.count < MaxStartFaults
    /\ trouble' = [count |-> trouble.count + 1, who |-> trouble.who \cup {r}]

ReadArguments(r) ==
    /\ step[r] = "arguments"
    /\ IF junk[r] \cap Strict # {} THEN Exit(r, "error") ELSE To(r, "directory")
    /\ Calm /\ UNCHANGED <<junk, bucket>>

(* create_dir_all(output_dir)?                                             *)
MakeDirectory(r) ==
    /\ step[r] = "directory"
    /\ \/ To(r, "head") /\ Calm
       \/ Exit(r, "error") /\ Trouble(r)
    /\ UNCHANGED <<junk, bucket>>

(* ensure_bucket_exists: any error of head_bucket means that there is none.*)
HeadBucket(r) ==
    /\ step[r] = "head"
    /\ \/ To(r, IF bucket THEN "join" ELSE "create") /\ Calm
       \/ To(r, "create") /\ Trouble(r)
    /\ UNCHANGED <<junk, bucket>>

(* The store may refuse to make a bucket that is there.                    *)
BugCreateBucket(r) ==
    /\ step[r] = "create"
    /\ \/ ~bucket /\ bucket' = TRUE /\ To(r, "join") /\ Calm
       \/ bucket /\ (To(r, "join") \/ Exit(r, "error")) /\ Calm /\ UNCHANGED bucket
       \/ To(r, "join") /\ Trouble(r) /\ UNCHANGED bucket
    /\ UNCHANGED junk
CreateBucket(r) ==
    /\ step[r] = "create"
    /\ \/ ~bucket /\ bucket' = TRUE /\ To(r, "join") /\ Calm
       \/ bucket /\ (To(r, "join") \/ Exit(r, "error")) /\ Calm /\ UNCHANGED bucket
       \/ Exit(r, "error") /\ Trouble(r) /\ bucket' \in {bucket, TRUE}
    /\ UNCHANGED junk

(* join_multicast_on_iface. A group that cannot be joined ends main well.  *)
Join(r) ==
    /\ step[r] = "join"
    /\ \/ To(r, "capture") /\ Calm
       \/ Exit(r, "success") /\ Trouble(r)
    /\ UNCHANGED <<junk, bucket>>

(* get_snaplen panics when the length does not fit; the device may refuse. *)
OpenCapture(r) ==
    /\ step[r] = "capture"
    /\ \/ SnapLength \notin junk[r] /\ To(r, "captures") /\ Calm
       \/ SnapLength \in junk[r] /\ Exit(r, "panic") /\ Calm
       \/ SnapLength \notin junk[r] /\ Exit(r, "error") /\ Trouble(r)
    /\ UNCHANGED <<junk, bucket>>

Started == \A r \in Starters : step[r] \in {"captures", "over"}

Next ==
    \/ \E r \in Starters :
         \/ ReadArguments(r) \/ MakeDirectory(r) \/ HeadBucket(r)
         \/ CreateBucket(r) \/ Join(r) \/ OpenCapture(r)
    \/ Started /\ UNCHANGED vars

-----------------------------------------------------------------------------
(* A program that captures has its bucket. One whose settings are right    *)
(* stops only for a fault of its own, or because another one made the      *)
(* bucket between its look and its attempt: then there is another one.     *)
StartsUnlessRaced ==
    /\ \A r \in Starters : step[r] = "captures" => bucket
    /\ \A r \in Starters :
         (step[r] = "over" /\ junk[r] \subseteq Lenient /\ r \notin trouble.who) =>
            /\ bucket /\ status[r] = "error"
            /\ \E q \in Starters \ {r} : step[q] \notin {"arguments", "directory", "head", "create"}
=============================================================================
