# Verification of mpegts_to_s3

TLA+ specifications of the programs of this repository, TLC configurations
that check them on small instances, and TLAPS proofs of what matters most for
every instance. Paths and line numbers are relative to the repository, which
the tool configuration sees as `src/` (so `src/src/main.rs` is the recorder).

    udp-to-hls   src/main.rs                     records a transport stream as HLS, into S3
    pid tracker  mpegts_pid_tracker/src/lib.rs   continuity check, a library of both
    hls-to-udp   hls-to-udp/src/main.rs          plays HLS as a transport stream over UDP
    agent        recording-playback-api/agent.js runs udp-to-hls and hls-to-udp as jobs
    manager      recording-playback-api/manager.js  the API of clients, asks the agent
    database     recording-playback-api/S3Database.js  JSON objects in S3, for both

## 1. The system

### 1.1 Components, their state, their operations

**Capture pipeline** (`udp-to-hls`, `main`). State: the shutdown flag, the
count of CTRL+C, the bounded channel from the capture thread to the main task,
the packets in libpcap, the program points of the capture thread, the main
task and the consumer thread of the diskless mode. Operations: capture a
datagram and send it, receive and process it, notice the flag, the duration
limit or a dead capture thread, join, finalize.

**Packet extraction** (`extract_mpegts_payload` and the inner loop of `main`).
State: `leftover_ts`, the batch. Operations: append the payload of a datagram,
search the next sync byte, cut 188 bytes, refuse a packet whose header is not
legal (one byte is dropped), write a batch of seven packets.

**PID tracker.** State: the last continuity counter of every PID. Operation:
`process_packet`, with its seven returns.

**Start of a recorder** (`main` up to the capture). State: the step, the
settings that parse or do not, the bucket. Operations: read the options, make
the directory, look for the bucket and make it, join the group, open the
capture.

**Segmenter** (`ManualSegmenter`, `HourlyIndexCreator`, `DisklessBuffer`).
State: the open segment with its two times and its size, `segment_index`, the
rolling playlist, the map of hours with the global sequence id, the ring of
segments in memory; outside the process the segment objects, the rolling
playlist on disk and in S3, the index of every hour in S3, the log of hour
urls. Operations: `write_ts`, `close_current_segment_file` (due, or forced by
the memory limit), `record_segment`, `write_hourly_index`, `rewrite_m3u8`,
`finalize`; a restart, which reads nothing back.

**Urls log** (`rewrite_urls_log`). One file that every recorder of an agent
reads, changes and renames over.

**Receiver thread** of `hls-to-udp`. State: the history of uris
(`SegmentHistory`), the first-poll flag, what it is going through. Operations:
poll a playlist, pass over, note, download, send (which waits for room in the
channel, and fails once the sender has ended), end. With a VOD index it
fetches the playlists of all hours, sorts the segments and plays a range.

**Sender, UDP and main threads** of `hls-to-udp`. State: two bounded queues,
the buffer, the smoother, the shutdown flag and the notices to `main`.

**Agent: recordings.** State: timers and close handlers in memory, the records
in S3, the recorder processes, the log. Operations: POST, DELETE, the timer,
the close handler with `storeRecordingUrls`, a restart of the agent or of its
container.

**Agent: playbacks.** As recordings; a POST replaces what the job plays. Both
remember pids, in memory and in S3, and send signals to them; the process
table is the state they share.

**Agent: playlist of a playback.** Lists the hours of a recording, keeps those
of the range, combines their playlists.

**Manager.** State: handlers under way, the database. Operations: create a
pool, a recording (database, agent, asset), a playback; lookups and the
cancelling of a recording; statistics; end and restart of the process.

**Not modelled**: the text of options, logging, HTTP plumbing, `--output-file`
(pure input and output); `config.js` (constants from the environment); the
demo of the tracker (a sequential loop over a file); scripts, containers and
Swagger documents. `PROJECT.json` lists every part.

### 1.2 How they interact

    source -> libpcap -> capture thread -> channel -> main task (TsExtract, PidTracker)
           -> Segmenter -> S3: segments, index.m3u8, hour indexes; disk: urls log
    agent  -> spawns udp-to-hls, kills it (SIGTERM), reads its urls log when it closes
           -> spawns hls-to-udp with one combined playlist or an index of hours
    hls-to-udp: receiver -> channel -> sender -> (smoother) -> channel -> UDP thread
    client -> manager -> S3 database, and agent over HTTP

The programs share no memory: they meet in S3 objects, in the urls log, and by
signals. Inside `udp-to-hls` and `hls-to-udp` threads share bounded channels
and an atomic flag. Inside the agent and the manager one event loop runs
callbacks; what is read before an `await` may have changed after it.

### 1.3 What is hard

* interleaving: three threads each in the recorder and the player, with
  bounded queues; requests, timers and close events between two awaits of a
  handler; recorders that share the log;
* failure: every call to S3, to the disk and to the agent may fail, or succeed
  with its answer lost; one of several steps fails; a process is killed (the
  agent ends recorders by SIGTERM, which has no handler) and restarted;
* ordering and naming: a segment is named after the time it was begun and
  filed in the hour in which it was closed; playlists move while they are
  read;
* ends: shutdown while queues are full, playbacks that end by themselves,
  timers that are lost or fire late.

`PROJECT.json` "hazards" has all of them at their lines, each with the
properties that guard it.

### 1.4 What makes each part correct

| part | promises |
|---|---|
| start | a recorder with good settings stops only for a fault of its own, or raced |
| capture pipeline | nothing is lost behind libpcap; a capture that ends is drained; an exit leaves nothing open; only two things hold a shutdown: a full channel (5.1) or a silent interface |
| extraction | bytes keep their order; whole packets pass; damage is bounded; the source is taken (it is not, with RTP: 5.3) |
| PID tracker | what it holds follows the source; gaps are reported; one loss is one error |
| segmenter | segments are the stream; published names exist; sequence numbers are stable; hours partition the recording; a graceful stop loses less than a batch; a restart replaces one playlist and the index of its hour, no more |
| urls log | a line is lost only by an overlap of two rewrites |
| receiver | order, no repeat, no skip; the range, or a beginning of it; an end, unless its sender is held |
| sender | what goes out is what came in, in order, but for packets a full socket refuses and a bounded loss at the end; shutdown completes |
| agent | running jobs are listed, refused ones do not run, timed ones end; urls are stored, or have failed to be, before the record goes; a job plays once and a stop stops it, as far as listings are complete; signals reach whom they are meant for (they do not: 5.4) |
| manager | jobs are recorded; a plain success is complete; every request is answered (it is not: 5.2) |

## 2. Modules

| module | models | lines of the code |
|---|---|---|
| `StreamStore` | abstract: what a recording promises | - |
| `Segmenter` | ManualSegmenter, HourlyIndexCreator, the ring, the batch of `main` | src/main.rs 137-300, 400-870, 1280-1414 |
| `SegmenterProofs` | theorems about it and `RecorderRestart` | |
| `RecorderRestart` | several runs of the segmenter for one directory | src/main.rs 141-155, 494-516 |
| `RecorderStart` | the start of several recorders on one bucket | src/main.rs 87-94, 382-398, 1027-1160 |
| `CapturePipeline`, `CapturePipelineProofs` | the threads of udp-to-hls | src/main.rs 893-906, 1183-1424 |
| `TsExtract` | frames to packets | src/main.rs 66-93, 1307-1381, 1427-1500 |
| `PidTracker` | process_packet | mpegts_pid_tracker/src/lib.rs 71-187 |
| `UrlsLog` | rewrite_urls_log by several recorders | src/main.rs 263-291 |
| `Recording` | operators: what a finished recording looks like to a player | src/main.rs 700-728, 855-865 |
| `VodIndex` | receiver with a VOD index | hls-to-udp/src/main.rs 97-323 |
| `AgentVod` | the playlist of a playback | agent.js 268-531 |
| `HlsReceiver`, `HlsReceiverProofs` | receiver, live and VOD, and its end of the channel | hls-to-udp/src/main.rs 40-68, 325-664, 710-750, 1021-1087 |
| `Relay` | abstract: what a playback promises | - |
| `HlsSender`, `HlsSenderProofs` | sender, smoother, UDP thread, main | hls-to-udp/src/main.rs 690-1243, 1424-1601 |
| `AgentJobs` | processes, pids, timers and the restart, of both kinds of jobs | agent.js 130-137, 215-218, 665-689 |
| `AgentRecordings` | recording jobs | agent.js 75-207, 633-749 |
| `AgentPlaybacks` | playback jobs | agent.js 506-630, 752-927 |
| `Agent`, `AgentProofs` | both over one process table | agent.js 633-927 |
| `Manager`, `ManagerProofs` | the manager | manager.js 71-476 |
| `Parts`, `PartsProofs` | `VodIndex`, `AgentVod`, `UrlsLog`, `TsExtract`, `RecorderStart` and `PidTracker` side by side; theorems about each | - |
| `DataTheorems` | lemmas: induction, recursion, FlattenSeq, sequences and what they contain, ranks, division | - |
| `MC...` | constants of the instances for TLC | - |

`RecorderRestart` extends `Segmenter`; `AgentRecordings` and `AgentPlaybacks`
extend `AgentJobs`, and `Agent` instantiates both over its variables. `Parts`
composes `VodIndex`, `AgentVod` (both over `Recording`), `UrlsLog`, `TsExtract`,
`RecorderStart` and `PidTracker`, which share no state: a behaviour of it is one
of any of them.
Definitions named `Bug...` stand before the definition they are a plausible
mistake of; no specification uses them. Each property of a passing run has one
that breaks it (`PROJECT.json` "mutants").

### 2.1 Correspondence to the code

*Segmenter.* The task is sequential, so control is one program point `pc`, and
an action ends at each await: `Receive` (the batch of `main`), `WriteTs`,
`Measure` (where a due or forced close begins), `CutSegment`, `UploadSegment`,
`Presign`, `RecordSegment` with `write_hourly_index`'s local file,
`PublishHour` (its upload and the urls log), `Advance` (segment index, rolling
playlist), `PublishIndex`, `FinishClose` (the resets at the end). A call may
succeed, fail, or take effect with its answer lost (`PutObject`). `FinishClose`
is skipped by the one early return, a playlist that cannot be opened. Packets
are numbers; bytes are counted in packets; a presigned url is the key it names,
an entry without a url has the time `NoTime`.

*RecorderRestart.* `Restart` puts the memory of the process back to `Init` and
leaves the disk and S3. It takes a tick: a segment is named after the second
it begins in, and a start takes longer than that.

*RecorderStart.* Settings are those that parse and those that do not: options
read with `parse()?` (`Strict`) end the program, those with a value to fall
back on (`Lenient`) do not, and a capture length that does not fit panics. A
group that cannot be joined ends the program with status 0 (main.rs:1134).

*CapturePipeline.* One program point a thread: the capture thread checks the
flag, asks libpcap, sends (blocking on the full channel); the main task checks
the flag, receives, processes, and after its loop joins, finalizes, reaps.
The receiver of the channel stays alive, unread, during the joins, as
`pcap_rx` does. The capture is opened with `setnonblock` and read through
pcap's `PacketStream` (src/main.rs:1154, 1218-1223), which turns a timeout into
`Pending`: `CapNext` waits for a packet, however long that takes.

*PidTracker.* `Refuse`, `Skip` and `TakeIn` are the returns in their order:
bad size, null packet, bad adaptation length, no payload, discontinuity,
mismatch, match. The
stream around it (`SendPayload`, `SendBare`) loses, repeats, damages and
restarts; it is external.

*TsExtract.* Bytes are positions in the source, and a set of positions looks
like a sync byte. Of the headers of Ethernet, IP, UDP and RTP only the lengths
are kept: `extract_mpegts_payload` refuses a datagram of which the capture
(`SnapLen`) does not have the whole (`Taken`). What `process_packet` makes of a
packet put together from two halves is open.

*HlsReceiver*, *VodIndex*, *AgentVod.* A segment is a number; a uri is the
segment and the way it is written, for the first poll of a live playback notes
uris as written and later polls look resolved ones up. `HlsReceiver` fixes the
command line and the playlist's nature as `sit` at the start. Of the sender
thread it has the end of the channel (`sender`, `waiting`): it starts or cannot,
takes, is held at its throttle (`SenderHeld`), ends. `Send` waits for room;
`SendFails` is the return of hls-to-udp/src/main.rs:634, whatever the flag says.
The receiver is `Over` when it has left its loop (`"ended"`) or returned from a
failed send (`"gone"`). `VodIndex` has the same `SendFails` (310), and `NoIndex` for an
index file that cannot be read.

*HlsSender.* Data are numbered cells; a packet is `PacketCells` of them. The
command line is `opts`, with whether the smoother can be built and whether
dates parse. `SendStart` is the start of the sender, which may fail
(`"start"`). The smoother is external but for its callback, which
is an action, and its end, at which it is flushed. The throttle that the VOD
index applies while it fetches playlists reads a counter that is still zero
then, and is left out.

*AgentJobs*, *AgentRecordings*, *AgentPlaybacks.* A step is what one callback does between
two awaits. A `PutObject` has three steps: sent, landed (`PutLands`), answered
or failed: a failure may come with or without its effect. `holder` is the
process table: who runs under a pid. A signal (`Kill`) goes to the pid that is
remembered and ends whoever holds it. A process that is no more is a `child`
until its close event is dispatched, to a handler if one is attached by then. DELETE of a
recording is `StopRecording == UNCHANGED vars`: `S3Database.get` always throws,
for it names variables its module does not have. A restart loses timers,
handlers and requests; processes survive it, or the container starts anew,
without processes and with pids from the start. The manager gives every
recording an id of its own, so a request, its job and its record share a name.
The handler of a recorder's output (agent.js 222-259) stores hours it is told
there; udp-to-hls prints no such line, so it is left out. `activeTimers` is
left out, for nothing that reads it does anything (5.4). `ReadLog` reads the
urls log or, under the fault `"log"`, finds none or cannot read it: then all it
would have stored counts as `missed` and the close handler goes on to delete the
record, as the code does (agent.js:80-83, 119-121). `Listing` is
`getS3DataWithKey`, which passes over a record that it cannot read (fault
`"item"`, S3Database.js:113); `skipped` remembers that a listing was not complete.

*Manager.* One program point a request; `Cancel` and `Lookup` are the routes
that read one object, hence always throw. A handler that throws ends the
process with all requests that are under way (`ProcessEnds`). A `"keyless"`
request makes a pool whose credentials lack a key, which `CheckProfile` refuses
as it does an unknown one. `StatsFail` is the 500 of the statistics.

### 2.2 Abstract specifications

`StreamStore` says what a recording promises: packets are given, everything
pending becomes a segment that never changes again, and the listed window
moves forward over segments that exist. `Segmenter` implements it under

    given    <- packets captured, without the batch that waits (or did, at a kill)
    pending  <- current_segment_buffer
    segments <- the segments cut
    window   <- first and last entry of index.m3u8 in S3

checked in `seg_healthy` (`StreamImplemented`) and proved
(`ImplementsStream`) while no close returns early, whether or not the process is
killed. What is pending never exceeds `MaxPending`, the memory limit and a
batch, by which segments are bounded. With an early return `main` writes the same batch twice,
which `StreamStore` forbids; `NoPacketForgotten` is what remains true then.

`Relay` says what a playback promises: a stream goes in and comes out in
packets, in order, once; before the end only whole packets that are due are
lost, and only where the socket may refuse them; once it closes, any part may
be given up. `HlsSender` implements it, checked in `snd_threads`
(`RelayImplemented`), with

    inside   <- the UDP queue, the smoother, the sender's buffer, the segment queue
    output   <- what the socket took
    closing  <- the shutdown flag, or the end of the sender's loop

`EndLosesAtMostTheQueue` then bounds what is given up. Both are proved
(`RelayCorrect`, `EndLosesCorrect`).

## 3. What the runs check

| run | instance | shows |
|---|---|---|
| `seg_healthy` | batch 2, limit 3, 7 packets, 3 ticks, hours of 2 ticks, window 2, ring 1; no fault but a kill | GracefulStopLosesLessThanABatch, ListedWhenHealthy, HoursOrdered, StreamImplemented, LiveSequenceStable |
| `seg_faults` | two runs of a recorder, 4 packets, 2 ticks, all nine faults in the first two segments | EntriesStoredAcrossRuns, HoursStoredAcrossRuns, NoPacketForgotten, SequenceStableWithinRun, HoursGrowWithinRun |
| `cap_pipeline` | channel 2, kernel buffer 2, 5 packets, 3 CTRL+C, duration, capture errors | NoLossInside, ExitIsClean, OnlyTheCaptureHolds |
| `cap_full_channel` | channel 1 | violated: ShutdownCompletes (5.1) |
| `parts` | `Recording`: 324 recordings of four segments over up to four hours, three (five) ranges, all faults; `UrlsLog`: two recorders, three hours, three writes each, kills; `TsExtract`: packets of three bytes, datagrams of 2, 3, 5, 6, twelve bytes, RTP or not, look-alikes, illegal packets, failing writes; `RecorderStart`: two programs, with or without the bucket, settings that are no use, two faults; `PidTracker`: one stream, gaps of up to 18, two faults | HoursPlayRange, CombinedWhole, LossNeedsOverlap, BytesInOrder, PacketsPass, StartsUnlessRaced, TrackerFollows, NoCompoundingErrors, GapsReported |
| `ts_rtp` | a capture of two packets behind the headers, datagrams of two packets, with RTP or without, no faults | violated: SourceTaken (5.3) |
| `rcv_playback` | six segments, window and history 3, a channel of one segment to a sender that may be held or not start; live with absolute and relative uris, VOD with and without a range; failing downloads, CTRL+C | PlayedInOrder, LiveStartsAtTheEdge, VodPlaysRange, PlaybackEnds |
| `snd_threads` | segments of 5, 4, 2 cells, packets of 2, limit 6, queues 1 and 2; the command lines that differ in control; a start that fails, full sockets, no PCR, 3 CTRL+C | RelayImplemented, EndLosesAtMostTheQueue, ShutdownCompletes, OnlyTheThrottleHolds |
| `agent_jobs` | two recordings, or two POSTs and a DELETE of one playback job, or one of each; all faults, two restarts, pids given out again; callers that wait and that do not | RecorderIsListed, UrlsBeforeForget, AutoStop, PlaysOnce, PlayerIsListed, StopIsComplete |
| `agent_signals` | two POSTs and a DELETE of a playback job, no faults but one restart, pids that go up until it | violated: SignalsReachTheirOwn (5.4) |
| `mgr_faults` | three requests of any kind, all faults, one kill | JobsAreRecorded, PlainSuccessComplete |
| `mgr_cancel` | three requests, recordings and cancels, no faults | violated: RequestsAnswered (5.2) |

The comment on each property says what it means and what it is about. Every
module has a `TypeOK`; the type invariants of the modules with a proof module
are proved (`TypeCorrect`), those of `RecorderRestart` and of the algorithms in
`parts` say what the variables hold, and hold in the instances above (add
`TypeOK` to a configuration's INVARIANTS to see it; for `parts`,
`Index!TypeOK` where `part = "index"`, and so on).

### 3.1 Why the bounds are enough

* *Segmenter.* Four to seven packets in batches of two with a limit of three
  make up to three segments: the window of two drops its head, the ring of one
  drops its tail, a forced and a due close follow each other, and the hour
  turns between the cut and the filing of a segment. `FaultyAt` names the
  pairs of a time and a segment number at which calls may fail; what a fault
  leaves behind is met by the closes that follow, and by the second run. The
  proofs need none of these bounds.
* *CapturePipeline.* The channel and the kernel buffer fill with fewer packets
  than there are; three CTRL+C are what the handler counts to.
* *PidTracker.* 18 packets is more than a turn of a four-bit counter. One
  stream is enough for TLC, for the theorem has any number.
* *Recording.* Segments of one to three ticks in hours of four: segments that
  end on the hour, cross it, fill it, and hours without a segment's start.
* *RecorderStart.* Two programs are what a race for the bucket needs; two
  faults let one meet another.
* *UrlsLog.* Two recorders are the fewest that overlap; three writes over
  three hours let a lost line be put back, or not.
* *TsExtract.* Datagrams of 2, 3, 5 and 6 bytes cut packets of 3 at every
  place; twelve bytes are four packets, two batches.
* *HlsReceiver.* Six segments move a window of three past its own length. A
  channel of one (`SegCap`) fills with the first segment that is not taken.
* *HlsSender.* Sizes that are and are not multiples of the packet, a remainder
  at the end, one segment below the limit and two above it.
* *Agent, Manager.* Two jobs are what any of the races needs (three requests
  in the manager, where one may end the process under two others). Of the two
  jobs of a kind one has a duration. Pids are as many as the jobs: with
  `PidReuse` one is given out again as soon as it is free, otherwise only after
  the container has started anew.

### 3.2 Fairness

Weak fairness, stated per thread or handler, and only where a liveness
property uses it. Threads: the operating system schedules them, a receive
with something to receive returns, a sleep ends. `CapturePipeline`
assumes nothing of the interface, which may stay silent: the capture thread then
never looks at the flag, and `ShutdownCompletes` and `OnlyTheCaptureHolds` name the case
(`[]Silent`). `HlsReceiver` assumes of the sender that it starts, takes what waits
while it is not held, and ends after a shutdown; a fetch does not fail for ever.
That a throttle lets go is not assumed: `PlaybackEnds` names the receiver that
stays in its send (`[]HeldBySender`).
Handlers (`GoesOn`): Node runs each callback whose event has come, and S3
answers or fails; a timer fires. Never assumed: CTRL+C, arrival of packets, that
a process dies, or that a call succeeds. `mgr_cancel` and `cap_full_channel`
are checked under fairness too, so that their counterexamples are not
behaviours in which the program merely stops.

### 3.3 Deadlock

Checked in every run but the two of `CapturePipeline`, whose code really may
stop for good (5.1). Modules whose system ends have an explicit end step.

## 4. What is proved

TLAPS checks every proof to its leaves. The assumptions are the named `ASSUME`s
of the modules (types of constants; finitely many requests in the manager;
hours do not go back with the clock), which TLC evaluates in the runs. Each
invariant below was checked by TLC, too, on the instance of its run (`LoopInv` and
`AgentInv`, whose quantifiers have no bound, with that of the instance). A theorem
about a property says, for every value of the constants, what its run shows of
one.

| invariants and action properties of the runs | theorem |
|---|---|
| `StreamImplemented`, `LiveSequenceStable` | `ImplementsStream`, `SequenceStable` |
| `ListedWhenHealthy`, `HoursOrdered` | `ListedWhenHealthyCorrect`, `HoursOrderedCorrect` |
| `GracefulStopLosesLessThanABatch` | `GracefulStopCorrect` |
| `NoPacketForgotten` | `NothingForgotten` |
| `EntriesStoredAcrossRuns`, `HoursStoredAcrossRuns` | `EntriesStoredCorrect`, `HoursStoredCorrect` |
| `SequenceStableWithinRun`, `HoursGrowWithinRun` | `SequenceStableInRun`, `HoursGrowInRun` |
| `NoLossInside`, `ExitIsClean` | `NothingLost`, `ExitsClean` |
| `TrackerFollows`, `NoCompoundingErrors`, `GapsReported` | `FollowsAlways`, `ErrorsNeverCompound`, `GapsAlwaysReported` |
| `HoursPlayRange`, `CombinedWhole` | `HoursPlayRangeCorrect`, `CombinedWholeCorrect` |
| `BytesInOrder`, `PacketsPass` | `BytesInOrderCorrect`, `PacketsPassCorrect` |
| `LossNeedsOverlap`, `StartsUnlessRaced` | `LossNeedsOverlapCorrect`, `StartsUnlessRacedCorrect` |
| `PlayedInOrder`, `LiveStartsAtTheEdge`, `VodPlaysRange` | `PlaysInOrder`, `StartsAtTheEdge`, `PlaysItsRange` |
| `EndLosesAtMostTheQueue`, `RelayImplemented` | `EndLosesCorrect`, `RelayCorrect` |
| `RecorderIsListed`, `UrlsBeforeForget` | `RecordersAreListed`, `UrlsAreStoredFirst` |
| `PlayerIsListed`, `PlaysOnce`, `StopIsComplete` | `PlayersAreListed`, `JobsPlayOnce`, `StopsAreComplete` |
| `JobsAreRecorded`, `PlainSuccessComplete` | `JobsAlwaysRecorded`, `PlainSuccessAlwaysComplete` |

Every safety property that a passing run checks is stated by a theorem. Each
of the proof modules has `TypeCorrect` besides (in `PartsProofs` that of
`PidTracker`); `WindowCorrect` in `SegmenterProofs` says that the playlist and its copies are runs of consecutive
segments.

### 4.1 The segmenter, in one run

`TypeOK` is not inductive: that the closing segment has the next number, and
that the entry it leaves names a segment that was cut, rest on `Numbering`, the
relation between `segIndex`, `seqId` and the number of segments cut at each
program point. `TypeInv` is their conjunction, with one lemma per action that
disturbs it. `WindowInv` adds that `playlist` itself is a run of segments that
ends with `segIndex` (one further between `RecordSegment` and `Advance`), that
the local file and the published index are such runs, and that neither is ahead
of it; from that follows why a media sequence number computed as "segment index
minus length of the list" (src/main.rs:840) is stable although a failing write
or upload skips publications. `ImplementsStream` uses `BatchInv`: the batch that
waits is the tail of what was captured, and `Unwritten` is empty exactly from
`write_ts` until the batch is cleared, and `BoundInv`: what is open never
exceeds the limit by more than a batch, the `MaxPending` of `StreamStore`.

* `ListedInv`: where the list is not behind `segIndex`, the file is rendered from
  it before it is uploaded, so with no fault the published copy ends with the
  last segment cut whenever `main` is back at its channel.
* `HoursInv`: ids are given in the order in which hours are entered, those of an
  hour to come are none, and an hour's list increases; so sorting it before it
  is published (src/main.rs:229) changes nothing, and with unsigned urls no
  published index has a gap.
* `LossInv` is an equation: cut, open and waiting packets are all that were
  captured while no close has returned early. It needs the sum over the
  segments, `Len(FlattenSeq(closed))`, for which `DataTheorems` is there.

### 4.2 The segmenter, over restarts

The specification is `RestartSpec`; a kill may come at any step.

* `NothingForgotten` rests on `KeptInv`: a packet of this run is in the batch or
  in a segment, and the batch is cleared at the end of `write_ts` only because all
  of it is in a segment by then. An early return leaves it in both.
* `EntriesInv`: an entry of this run names an object with its segment, which no
  upload to come replaces, for the numbers grow within a run; one of an earlier
  run names an object that is there. That names of two runs do not collide is the
  tick that a restart takes.
* `HoursStoredCorrect` has three layers. The key of a segment is computed a second
  time when it is filed (src/main.rs:708), and `StartInv` says why both are the
  same: what is open has a start unless a close has returned early, and it is
  cleared only after the segment is filed. `FiledInv` then relates each list of an
  hour to the objects.
* `RunInv` is `WindowInv` for what a run has rendered: the file and the published
  copy may be those it found, until it writes its own. `GrowInv` says the same of
  an hour: what is published is an earlier state of its list, or what was found.

### 4.3 The threads of udp-to-hls

`CapturePipelineProofs`. The invariant is `TypeOK`, `NoLossInside` and what the
end of `main` has established point by point (`Ending`): flag before join, the
capture thread ended before finalize, nothing open before the reaping.

### 4.4 The player

`HlsReceiverProofs`. For a live playlist the invariant is `LiveInv`: the history
is an increasing queue of uris, what it holds has been taken, it still holds
what the window may list again (`Remembers`), and what the window holds of what
lies behind is taken without a gap (`NoGap`). For VOD it is `VodInv`: what is left
of the list lies beyond what was played, and what was played has no gap,
so that the property holds of a playback that a shutdown or a dead sender breaks
off. Two hypotheses stand in the theorems,
not in the model. `WithinHistory`: the window fits into the history (or, where the
list grows without a window, all of it does); a smaller history plays segments
again, as the code does. `OffsetsGrow`: where a segment has an offset before that
of its predecessor, the receiver stops too early (section 5). Both leave out
`"rooted"` uris, a leading slash: `Url::parse` refuses what is left of them, and
nothing is played. The instances of `rcv_playback` satisfy the hypotheses.

`HlsSenderProofs`, for all sizes of segments, packets and queues, all command
lines and faults. `PacketInv` says that everything behind the buffer is whole
packets, that only the smoother's path has packets in the smoother, that the UDP
thread ends for the flag alone, and that each of two threads tells `main` at most
once. `CountInv` is an equation again: the cells of the segments taken are
those of the packets sent, given up, queued or in the smoother, and what the
buffer and the segment queue hold. `EndInv` follows the end of a playback without
CTRL+C back to its cause: the flag comes from a notice, the notice from a sender
that found its queue empty and the receiver gone, which goes when the list is
through; and that a sender waits only with less than a packet in its buffer. The
bound on the loss is arithmetic from the three. `RelayCorrect` has one lemma per
action that moves cells: `RecvSend` is a `Feed`, `UdpPacket` an `Emit`, a `Lose` (the
socket) or a `GiveUp` (the flag), the end of the sender's loop gives up the
smoother, a packet that no UDP thread takes is given up, and every other move
only regroups the sequence `inside`.

### 4.5 Agent and manager

`AgentProofs`. What is known of a recording (`Recording`) and of a playback
(`Player`) at each program point of its handlers: which of them have a pid, when a
timer or a close handler may be there, and that a process that runs past its
answer has its record. `LeavesOthers` is what a step of one owner does to the
others: it may end their processes (a signal to a pid that was given out again)
but change nothing they remember. `JobsPlayOnce` and `StopsAreComplete` add
`OneCall` (a caller waits for its answer) and, while no listing was incomplete,
`JobSettled`: during a POST what runs
beside its player is on its list of what to replace, during a DELETE on that of
what to stop.

`ManagerProofs`. `AtPoint` is what a handler at a program point has been asked for
and has stored. The manager's one step of a process end (`ProcessEnds`) takes all
handlers at once.

### 4.6 The six parts

`PartsProofs` proves each part by an invariant of its own, under the condition
that this part runs (`LoopAlways` and the like), for every recording, range,
datagram, number of recorders and fault. Its only hypotheses are the
`ASSUME`s of the parts.

*The tracker.* `IInv` is `TypeOK`, `TrackerFollows`, and three that relate the
tracker to the packet on the wire: `Wire` (a packet that will be taken in has
the counter of its source and is counted as missing), `LossKnown` (more than one
packet missing means that a burst is marked), `ErrorsPaid` (the errors reported
and those the packet on the wire may still cause are paid for by faults).
`NoCompoundingErrors` alone says nothing of the packet under way.
`TrackerOfParts` says that `PartsSpec` implements the tracker's `Spec`, so that
what is proved of one holds of the run of the other.

*The start.* `StartInv` says of a program between its look for the bucket and
its attempt to make it what `StartsUnlessRaced` says of one that has ended:
if the bucket is there by then, another program has come past it, and none
comes back.

*The urls log.* `LogInv`: what is listed and not in the copy of a recorder that
is about to rename was brought since that recorder read the log. `Others` and
`With` keep and add lines as `Log!Listed` sees them; the rest is who brought
what. The proof corrected the property: it named, as the writer that loses a
line, only a recorder other than the line's own, which two recorders cannot
refute and three can. A writer may drop a line of its own earlier hour, that was
lost before it read the log and that a third recorder, with an older copy,
brought back in between.

*The packet loop.* `LoopInv` has three layers. Always: what came out, then what
is left over, grows, and is of what was handed over (`InOrderOf`). While datagrams
hold whole packets and no byte can mislead (`WholeOnly`): a packet that is left
over is there to its end, and a legal one from its start; only what is legal has
come out, and whatever is legal has or is left over (`Shaped`). Where nothing is illegal and nothing looks like a sync byte: the
packets put together from pieces and the gaps still left over are together no
more than the datagrams that broke off. A packet from pieces is paid for by a
gap that goes with it, and one lemma for each step counts what it does to both
sets (`GapsTake`, `GapsDrop`, `GapsMove`, `BrokenAppend`).

*The agent's playlist.* `AgentInv`: the hours combined are those that could be
read and begin in the range, and what is played contains exactly their segments,
growing (`HoursJoined`: sequences of which each precedes the next join to one
that grows). That there is no hole follows from the hours: of three segments in
a row the one between is filed in an hour between.

*The index of hours.* `At` is the time the player gives a segment, `Lex` the
order of times with the number to decide. While hours are fetched (`Filling`)
the segments merged are, in recorded order, those of the hours fetched. The
sort (stable, as `sort_by_key` is) puts them in the order `Lex` (`SortedFacts`).
While they are played (`Playing`), until the end or until a send fails, what is
played is before what is still there, and whatever was fetched is there, played, failed or before the range.
`LexRecorded` then says that `Lex` is the recorded order between segments that
stay within their hours.

### 4.7 Lemmas about operators

`DataTheorems` has what the proofs of several modules need. TLAPS cannot
instantiate a theorem with an operator for a parameter, so induction is by sets:
`SetInduction` (a set with 0 that has with n also n + 1 has all numbers), from the
least number of its complement. With it, a function defined by recursion has the
values its recursion says, and `FlattenSeq` joins: it respects `Append`, a first
element, prefixes, and the length, and contains what its parts contain; parts
that grow, each preceding the next, join to what grows.
`CellsBefore` in `HlsSender` is a recursive function for that reason.

`SelectSeq` and `SortSeq` are defined by means the prover does not take apart
(operators as parameters, recursion inside). The models filter with `FlattenSeq`
(`TsExtract`'s `Legal`, `UrlsLog`'s `Others`) and sort by rank: place k holds the
element with k - 1 before it (`Recording`'s `InOrder`, `VodIndex`'s `Sorted`). That
such an element exists for each k, and that the list so given has each once and
in order, is the lemma `Ranks`, for any order of a finite set.

### 4.8 Only model-checked

Liveness and `ENABLED`, which TLAPS does not reason about here:
`ShutdownCompletes`, `OnlyTheCaptureHolds`, `OnlyTheThrottleHolds`,
`PlaybackEnds`, `AutoStop`, and the properties of the `violation` runs.

## 5. Findings

Four runs show a disagreement with what the repository says of the program.

1. `cap_full_channel`. `main` leaves its loop on the flag and joins the capture
   thread (src/main.rs:1404) while it keeps the receiver of the channel alive
   and no longer reads it. A capture thread blocked in `send` on the full
   channel never returns; the last segment is not closed. The handler promises
   "Got CTRL+C, shutting down gracefully..." (src/main.rs:897).
   `OnlyTheCaptureHolds` in `cap_pipeline` shows the only other way in which a
   shutdown fails to complete: an interface that stays silent, before which the
   capture thread waits (until the next packet, or a third CTRL+C). The run
   excludes that one.
2. `mgr_cancel`. Cancelling a recording (manager.js:211) throws in
   `S3Database.get`, nothing handles the rejection, the manager ends and every
   request under way gets no answer. swagger_manager.yaml documents 204.
3. `ts_rtp`. By default a capture keeps 7 * 188 + 42 bytes of a frame
   (src/main.rs:91): seven packets behind the headers of Ethernet, IP and UDP.
   With the twelve bytes of RTP a datagram of seven packets is longer, and
   `extract_mpegts_payload` refuses what is not there whole (src/main.rs:1475).
   Nothing of the source is recorded, but for a warning a datagram
   (src/main.rs:1383).
   swagger_manager.yaml:120 promises "capturing a UDP or RTP stream".
4. `agent_signals`. A POST of a playback spawns its player, then looks for
   records of the same job and ends what runs under their pids (agent.js:783,
   "Check if the process is still running"). Records outlive the container,
   pids start again with it, so the pid of a record may be that of the player
   just spawned: the POST ends it, and answers 201. A timer does the same where pids
   are given out again sooner, for a DELETE does not disarm it: it looks the
   timer up under `item.data.id`, a field no record has (agent.js:911).

Further places where the model, kept faithful, shows a behaviour a maintainer
may not want. No run of its own states them; the properties that hold around
them say where they stop.

* The throttle of the sender sleeps until a buffer that only the sender
  empties is below its limit (hls-to-udp/src/main.rs:1073);
  `OnlyTheThrottleHolds` names this as the only thing that holds a playback, and
  `PlaybackEnds` the receiver that waits in its send meanwhile.
* `buffer_bytes` is decremented by zero (1106, 1157) and only grows.
* A live playback of a playlist with relative uris notes them as written and
  looks them up resolved, and so starts with the first playlist
  (`LiveStartsAtTheEdge` excludes them).
* A segment that crosses an hour is filed in the later hour under a name of
  the earlier one: an index player gives it a time almost an hour late and
  plays it behind that hour (`HoursPlayRange` excludes it), and as the
  first of a list it has an offset beyond any end time
  (hls-to-udp/src/main.rs:534; `VodPlaysRange` is checked where offsets grow).
* The agent keeps the hours that begin in a range, so a range inside one hour
  is refused (agent.js:292), and nothing is trimmed, for the lists carry no
  dates (agent.js:430). `CombinedWhole` is stated of the hours that begin in the
  range.
* Two recorders that rewrite the urls log at once lose a line
  (src/main.rs:289; `LossNeedsOverlap`).
* A recorder that closes before its record is stored is never noticed
  (agent.js:691) and stays listed; DELETE of a recording always answers 500.
* A urls log that is missing or cannot be read is passed over, and the record
  goes with no url stored (agent.js:80-83; `UrlsBeforeForget` names it).
* A listing passes over a record it cannot read (S3Database.js:113): a DELETE then
  answers 404 or 204 while the player runs, and a POST leaves it beside its own
  (`StopIsComplete` and `PlaysOnce` exempt such a listing).
* Two POSTs of one playback job at once play it twice (agent.js:776;
  `PlaysOnce` assumes callers that wait).
* A recorder that is started again for its directory replaces the playlist and
  the index of the hour in which it starts (src/main.rs:149;
  `HoursGrowWithinRun` and `SequenceStableWithinRun` hold within a run only).
* The second of two recorders that both find the bucket missing ends
  (src/main.rs:393; `StartsUnlessRaced`), and a group that cannot be
  joined ends a recorder with status 0 (src/main.rs:1134).
* A sender that cannot start (hls-to-udp/src/main.rs:748) is noticed when the
  next segment is handed to it; if all were queued before, by nobody, and `main`
  polls on (`OnlyTheThrottleHolds`).
* Nothing handles the error of a recorder that cannot be spawned (agent.js:215):
  the agent ends.
* The manager drops the status of the agent's answer (manager.js:120), ends
  when an asset cannot be stored, and counts a recording as active for ever.

## 6. What is left out, and why

* Bytes of headers, playlists and JSON: control does not depend on them beyond
  what the models keep. The limit of `setTimeout` at 2^31 ms (agent.js:846) is a
  hazard without a property: delays are abstract.
* Clock steps back (NTP): hours are assumed not to go back
  (`HoursMonotone`).
* The contents of an index that names hours of several channels; the smoother,
  a library, but for its callback and its end.
* Startup of the bucket and table metadata, which nothing reads.

## 7. Plan

Order of the work, the most important first: segmenter and its abstract
specification, the threads around it, the tracker, the players, the agent, the
manager. Done: the modules above. Next, by value:

1. model: the packet path as one composition (`TsExtract` feeding
   `PidTracker`), so that a packet put together from two halves is judged by
   the tracker instead of being open; `UrlsLog` under `AgentRecordings`, so
   that what the agent stores is what concurrent recorders left; an abstract
   specification of a job (requested, running, ended) that both agent modules
   implement; the manager over the agent, instead of an open answer.
2. prove: a theorem about a whole playback, the receiver in front of the
   sender; the safety part of the shutdowns (a thread that waits, and for what),
   which the liveness properties rest on.

## 8. Running

    tlc -workers 2 -config seg_healthy.cfg MCSegmenter.tla
    tlapm SegmenterProofs.tla        # and the other ...Proofs modules

`PROJECT.json` names the module of every configuration. Each run ends within
two minutes on two cores.
