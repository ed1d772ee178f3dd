------------------------------ MODULE UrlsLog ------------------------------
(***************************************************************************)
(* The hourly urls log (HourlyIndexCreator::rewrite_urls_log,              *)
(* src/src/main.rs): one file, shared by every recorder of an agent. A     *)
(* recorder that has published the index of an hour reads the whole file,  *)
(* replaces its line of that hour, writes the result to a file of its own  *)
(* and renames that over the log. Nothing locks the log. When a recorder   *)
(* has ended the agent reads its lines (AgentRecordings).                  *)
(***************************************************************************)
EXTENDS Integers, SequencesExt

CONSTANTS
    Recorders,  \* the recorders that share the log, one a job
    MaxHour,    \* bound: hours a recorder runs
    MaxWrites,  \* bound: index publications of a recorder
    Kills       \* whether a recorder may be killed at any point

LogAssumption ==
    /\ MaxHour \in Nat /\ MaxWrites \in Nat /\ Kills \in BOOLEAN

VARIABLES
    log,        \* the lines of the file, first to last
    pc,         \* program point of each recorder
    hour,       \* the hour it records
    writes,     \* its publications so far: the version of its index url
    copy,       \* the lines it is about to write
    since       \* history: the lines that came into the log since it read it

vars == <<log, pc, hour, writes, copy, since>>

Line(p) == [rec |-> p, hour |-> hour[p], url |-> writes[p] + 1]
Listed(lines, p, h) == \E i \in DOMAIN lines : lines[i].rec = p /\ lines[i].hour = h

Init ==
    /\ log = <<>>
    /\ pc = [p \in Recorders |-> "run"]
    /\ hour = [p \in Recorders |-> 0]
    /\ writes = [p \in Recorders |-> 0]
    /\ copy = [p \in Recorders |-> <<>>]
    /\ since = [p \in Recorders |-> {}]

-----------------------------------------------------------------------------
(* The lines that stay: those that do not begin with the same directory.   *)
BugOtherJobs(p, lines) == SelectSeq(lines, LAMBDA l : l.rec # p)
Others(p, lines) ==
    FlattenSeq([i \in DOMAIN lines |->
        IF lines[i].rec = p /\ lines[i].hour = hour[p] THEN <<>> ELSE <<lines[i]>>])

(* The new line goes last.                                                 *)
With(p, lines) == Append(lines, Line(p))

(* The file is read; the temporary file it goes to has a name of its own,  *)
(* so that writing it is seen by nobody.                                   *)
ReadLog(p) ==
    /\ pc[p] = "run" /\ writes[p] < MaxWrites
    /\ copy' = [copy EXCEPT ![p] = With(p, Others(p, log))]
    /\ pc' = [pc EXCEPT ![p] = "rename"]
    /\ writes' = [writes EXCEPT ![p] = @ + 1]
    /\ since' = [since EXCEPT ![p] = {}]
    /\ UNCHANGED <<log, hour>>

(* What a rename brings into the log: the line of the writer, and lines    *)
(* another recorder had dropped after the writer read them.                *)
Brought(p) == {<<p, hour[p]>>} \cup
    {l \in Recorders \X (0..MaxHour) :
        Listed(copy[p], l[1], l[2]) /\ ~Listed(log, l[1], l[2])}

RenameLog(p) ==
    /\ pc[p] = "rename"
    /\ log' = copy[p]
    /\ pc' = [pc EXCEPT ![p] = "run"]
    /\ since' = [q \in Recorders |-> since[q] \cup Brought(p)]
    /\ UNCHANGED <<hour, writes, copy>>

HourPasses(p) ==
    /\ pc[p] = "run" /\ hour[p] < MaxHour
    /\ hour' = [hour EXCEPT ![p] = @ + 1]
    /\ UNCHANGED <<log, pc, writes, copy, since>>

(* The recorder exits, or is killed between two steps.                     *)
End(p) ==
    /\ pc[p] = "run" \/ (Kills /\ pc[p] = "rename")
    /\ pc' = [pc EXCEPT ![p] = "ended"]
    /\ UNCHANGED <<log, hour, writes, copy, since>>

Done == (\A p \in Recorders : pc[p] = "ended") /\ UNCHANGED vars

Next ==
    \/ \E p \in Recorders :
          ReadLog(p) \/ RenameLog(p) \/ HourPasses(p) \/ End(p)
    \/ Done

-----------------------------------------------------------------------------
(* Properties.                                                             *)

Lines == [rec : Recorders, hour : 0..MaxHour, url : 1..MaxWrites]

(* The type of every variable.                                             *)
TypeOK ==
    /\ log \in Seq(Lines)
    /\ pc \in [Recorders -> {"run", "rename", "ended"}]
    /\ hour \in [Recorders -> 0..MaxHour] /\ writes \in [Recorders -> 0..MaxWrites]
    /\ copy \in [Recorders -> Seq(Lines)]
    /\ since \in [Recorders -> SUBSET (Recorders \X (0..MaxHour))]

(* A line leaves the log only when a recorder writes a copy it had read    *)
(* before another one brought the line into the log: recorders that do not *)
(* overlap lose nothing. The line may be the writer's own, of an earlier   *)
(* hour, that was lost before it read the log and has been brought back.   *)
LostByOverlap ==
    \A p \in Recorders, h \in 0..MaxHour :
       Listed(log, p, h) /\ ~Listed(log', p, h) =>
           \E q \in Recorders :
               pc[q] = "rename" /\ pc'[q] = "run" /\ <<p, h>> \in since[q]
=============================================================================
