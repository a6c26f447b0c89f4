# Verification of the weak-network video link

TLA+ models, TLC runs and TLAPS proofs about the program in `src/`: a sender
that encodes video, protects it with Reed-Solomon shards and sends it over a
network that loses most of its packets, and a receiver that shows it.

1. [Inventory](#1-inventory): the parts of the system and what is hard in them
2. [Models](#2-models): the modules and how they correspond to the code
3. [Runs](#3-runs): what is model-checked, with which bounds
4. [Proofs](#4-proofs): what holds for every value of the constants
5. [Findings](#5-findings): where documents and code disagree
6. [Not modelled](#6-not-modelled)
7. [Plan](#7-plan)

Every module names the files and lines it models, and `PROJECT.json` maps each
definition to its lines.

## 1. Inventory

Two programs, `sender` and `receiver` (`src/src/main.cpp`), in one of two modes
of transport.  In **UDP** mode, the default, the sender sends shards and probes
as datagrams and the receiver answers with feedback reports over the same
socket; nothing is acknowledged or retransmitted.  In **SRT** mode the same
shards run over one SRT connection at a time.

    source -> encoder -> frame -> blocks -> shards ==network==> assembler -> gate -> decoder -> screen
                ^                                                   |
                |  profile (ladder), keyframe requests              |
                +------- feedback thread <==network== reports ------+

| Component | State | Operations | What makes it correct |
|---|---|---|---|
| `AdaptationController` (`common/adaptation.cpp`) | level 0..8, healthy-window count, RTT candidate, count and confirmed level, loss candidate and count | `update`, `force_emergency`, `reset_to_network` | degrades only when confirmed and recovers only when earned (README.md:141-149), does not flap |
| `SenderApp`, UDP (`sender.cpp`) | feedback snapshot shared by two threads; recovery state, frame id, epoch, keyframe request in the main loop | main loop `run_udp`, thread `udp_feedback_loop` | a recovery stays at Level 8 until it is acknowledged, keyframe requests are not lost, each report counts once |
| `SenderApp`, SRT (`sender.cpp`) | connection, reports, stall and backoff timers | `run_srt`, `run_srt_connection`, `send_frame_srt`, `receive_srt_network_reports` | reconnects with a new epoch and a keyframe; a blocked send forces Level 8 |
| Loss and bandwidth estimate (`sender.cpp:740-794`, `common/network_quality.cpp`) | baselines, exponential average | per report | never understates a loss, survives counters that restart |
| Pacing and latency (`common/frame_pacer.cpp`, `common/latency_stats.cpp`) | next deadline; sample window | per frame | no bursts after a stall; bounded memory |
| Reed-Solomon (`fec/reed_solomon.cpp`) | none | `encode_frame`, block recovery | every frame splits into legal blocks; any `data` shards give the block back |
| Messages (`protocol/messages.cpp`) | none | encode, `parse_message` | what is encoded is what is parsed; illegal fields are refused |
| `FrameAssembler` (`protocol/frame_assembler.cpp`) | partial frames by key, completed keys with ages | `push`, `expire`, `reset` | delivers intact frames, once, and gives up the others |
| `ReceiverApp` gate (`receiver.cpp:493-591`) | `synchronized_`, `keyframe_request_pending_`, epoch, last decoded id, the decoder's references | `handle_frame`, `reset_media_session` | a P frame is decoded only after the frame before it; frozen exactly while it asks for a keyframe |
| `ReceiverApp`, UDP (`receiver.cpp:243-491`) | active session, packet counters, pending report | `run_udp`: shard, probe, nothing; expire; report | newer sessions win for good; reports say the truth |
| `ReceiverApp`, SRT (`receiver.cpp:86-241`) | connection, report timer | `run_srt`, `run_srt_connection` | one sender at a time; state dropped with the connection |
| Video source and encoder (`video/video_source_reader.cpp`) | file or camera position, encoder profile, 16-bit epoch | `next_frame`, `reset` | one epoch per encoder configuration; camera cadence |
| Output (`video/output_processor.cpp`, `video_renderer.cpp`) | output cadence; queue of 3 frames shared with the render thread | `submit`, `render_loop`, `discard_pending` | cadence kept with synthetic frames; no frame of an old session |
| Configuration, `main`, sockets | none that later steps depend on | parsing, validation, system calls | |

How they interact: the receiver and the UDP sender share nothing but datagrams,
which the network may lose, repeat, delay and reorder.  Inside the sender the
feedback thread writes `udp_feedback_` under a mutex and the main loop copies
it once per iteration (`sender.cpp:125`), so a whole iteration, encoding and
sending included, acts on a snapshot while reports go on arriving.  Inside the
receiver one thread runs assembler, gate and decoder in order and hands frames
to the render thread.

What is hard to test in it, with the properties that cover it, is the list
`hazards` of `PROJECT.json`.  In short: confirmations and hysteresis over long
sequences of windows; shards that are late, repeated or contradictory; the gate
under every order of loss, epoch change, session change and decode error;
recovery decided on one thread from reports taken in on another, some of them
late, repeated, or of an earlier receiver; and restarts of either end.

## 2. Models

### The ladder

`Adaptation` is the class `AdaptationController`, one variable per field and one
action per method: `Update`, `ForceEmergency`, `ResetToNetwork`.  `LossVerdict`
is `loss_required_level_for_network`, `RttVerdict` the RTT half of
`required_level_for_network`; `Degrade`, `Recover` and `Hold` are the branches of
the second half of `update`.  Losses are whole percentages, which is exact for
the comparisons because every threshold in the code is whole; the profile table
is reduced to its bitrates, which `CapLevel` needs.  `rtt_high_windows` counts up
to `RttWindowBound`: the code asks only whether it has reached 5.

`AdaptationHistory` adds history variables that count windows *by the README's
words* (windows in a row above 160 ms; windows in a row calm enough to leave the
level; windows in a row past a confirmed entry), never looking at the
controller's counters, and states README.md:141-149 over them.

`AdaptationSteady` puts the controller in a network that is disturbed for any
time and then reports one window for ever, and counts the windows since.

### The receiver

`FrameAssembler` models the class as operators on a record (`Push`, `Expire`,
`EmptyAssembler`), so that the receive loop can call it the way the code does.
`Push` goes through the code's returns in the code's order: invalid shard, key
already completed, contradictory metadata or layout (the frame is erased), block
already recovered, duplicate shard, not enough shards, CRC failure, frame not
complete, and the completion with its eviction.  Contents are abstracted to
whether every byte is intact.  Times are ages in ticks.

`FrameAssemblerSpec` drives the assembler alone, with any shard at any time.  Its
history `arrived` keeps the slots (block, shard, layout) of a partial frame that
came, whatever the assembler made of them.

`ReceiverGate` has `handle_frame` and `reset_media_session`, again as operators,
on a record of the fields of `ReceiverApp` and of `references`: the frame the
decoder's reference pictures are of.  `references` is no field of the code; it
says what the decoder was last given and emptied by, which is what "strict
gating" is about.

`UdpReceiver` is one iteration of the loop of `run_udp`: `ReceiveShard`,
`CompleteFrame` (with the decoder's success as a choice), `ReceiveProbe`,
`ReceiveNothing`, each with the expiry that ends the iteration, and `Tick`.  A
datagram of an older session leaves the iteration before the expiry and is a
stuttering step.

`GatedPlayback` is the abstract specification: the picture on the screen moves
only forward, to a keyframe or to the successor of a picture that is live.
`UdpReceiver` implements it under `live <- gate.synchronized`
(`ImplementsPlayback`), which is checked and proved.  `SrtSession` implements it
too: there the connections are the sessions, in their order.

### The sender and the stream

`UdpSender` is the main loop of the sender and its feedback thread.  The ladder
is an `INSTANCE` of `Adaptation`.  An iteration is two actions, because reports
arrive while the frame is encoded and sent: `Decide` takes the snapshot and runs
to the exchange of the keyframe request (`sender.cpp:123-267`); then `NoFrame`,
`SendFrame` or `FailToSend` ends the iteration with what was kept of the
snapshot (`held`), not with the feedback of that moment.  `Decide` is one of
`EnterRecovery`, `ExitRecovery`, `StayInRecovery`, `Adapt` and `KeepProfile`,
whose guards are the conditions of lines 141-200.  `ReceiveCopy`,
`ReceiveProbeResponse` and `ReceivePeriodicReport` are the feedback thread.

Reductions: times become the two facts the code derives from them (the feedback
is stale; the receiver's frame is older than 1500 ms); the loss average becomes
any value of `Losses` after any report that may change it; a frame is its id and
its profile.

`UdpStream` composes it with a network that keeps the last `MaxDelayed` reports
to deliver them in any order, any number of times or never, and with a receiver
reduced to what its reports say of frames: it decodes ever newer frames of those
sent and tells the last one.  That the receive loop is such a receiver is
`ReportsAreTrue` of `UdpReceiver`.  It may be restarted.  Its history variables record
the newest frame any receiver decoded, whether a keyframe is owed, and the newest
window that moved the ladder.  `UdpStreamAcks` adds a count of the reports that
acknowledged the recovery frame, for one statement of the documents.

### The SRT mode

`SrtSession` is both ends of the SRT mode and the sockets between them, one
action per thing an iteration may do.

| Code | Actions |
|---|---|
| `run_srt` of the sender: connect, or fail and back off | `Connect`, `ConnectFails` |
| `receive_srt_network_reports`, and the 12 s a report counts as new | `TakeReport`, `LossAges` |
| the loop of `run_srt_connection`: a frame sent, not split, given up after 20 full buffers, or none at the end of the file | `SendFrame`, `SplitFails`, `SendBlocked`, `NoFrame` |
| an exception or a broken socket | `SenderCloses` |
| the receiver's `accept` and the two ways a connection ends | `Accept`, `PeerGone`, `ConnectionBreaks` |
| its receive loop: a packet, or one that will not come | `Receive`, `Discard` |
| its statistics: stall, loss batch, report (`receiver.cpp:155-194`, `NetworkLossEstimator`) | `ReceiverStatistics` |

Reductions: a frame is one packet, `whole` or not (`FrameAssembler` has the
shards); the gate is `ReceiverGate`, called as `UdpReceiver` calls it; the ladder
is the verdict `Selected` gives on the loss (its own theorems are in
`AdaptationProofs`); seconds are ticks of the statistics.  The listener completes
a handshake by itself, so a second connection may wait in `backlog` while the
first is read.  `last_sent` and the flag `stalled` of a batch are history.

### The output

`OutputCadence` is `OutputCadenceController` as operators on a record
(`RealFrame`, `Tick`), like the assembler and the gate.  `VideoOutput` is the two
threads around it.  The receive loop: `Submit`, `DiscardPending` and
`ResetLatency` (two steps, because the render thread may run between them),
`Stop`, `Join`.  The render thread: `TakeQueue` takes the whole queue under the
mutex, `ShowFrame` and `SkipFrame` go through it without the mutex, `ShowDue` asks
the schedule, `LeaveLoop` ends.  `Pass` lets time pass, and never so much that
the render loop would take longer than `LoopPeriod` for a round.  A latency sample
is kept if its generation is the current one, as `LatencyStats::record` does.
`rendered_frames` is the code's counter: a step that changes it is a presentation,
also where the picture stays the same, and `ScreenGoesForward` is about these.

### The source

`FecLayout` is the arithmetic of `reed_solomon.cpp`: how a frame is cut into
blocks and a block into shards, and what `decode` refuses.  `VideoSource` is
`VideoSourceReader::next_frame` for a file and for a camera (`AskFrame`,
`FeedDecoder`, `FilePicture`, `CameraPicture`, `EndOfFile`), and what the sender's
loops do between two frames: the split of the frame (`EncodePackets`) and the
ways a send ends.  After `SendFrame` a file waits for `FramePacer` (`Pace`, `Wake`).
After `SendFails` (UDP before the first feedback, `sender.cpp:289-294`; SRT that
would block, `sender.cpp:461-474`) the loop sleeps and goes on past the pacer
(`Retry`).  `CloseConnection` and `Connect` are the end of an SRT connection and
the next, whose pacer is new.  The decoder holds back as many pictures as it
likes; the encoder gives a frame of any size for a picture.  Every picture of a
file has a timestamp here, and times are whole: `Tolerance` is the 0.1 ms
`should_output_decoded_frame` lets a picture be early.

## 3. Runs

| Run | Question | Bounds, and why they are enough |
|---|---|---|
| `Adaptation` | Does the ladder move only as README.md:141-149 promises? | Six losses on both sides of every hysteresis and of the confirmed and immediate entries, three RTTs in three bands, a maximum of 1000 kbps so that the cap of `CapLevel` shows. The windows are unbounded in number; every counter saturates. |
| `AdaptationSteady` | Does a steady network bring the ladder to rest, and how soon? | One loss in every interval between two thresholds, one RTT per band. From any state a disturbance can reach. The bound of 40 windows is proved for all losses and RTTs. |
| `FrameAssembler` | Are deliveries intact and unique, is no frame held back, and do partial frames end? | Three frames, of two blocks, of two and of one data shards, with damaged and contradictory shards and every kind `Valid` refuses; a limit of one partial frame so that evictions happen; expiry after 1 tick and forgetting after 2 keep the order of the code's 450 ms and 2 s. |
| `UdpReceiver` | Does the loop keep strict gating, show what the viewer is promised, and report what it shows? | Three sessions, the last started before the two others, which started at the same time, so that both halves of the order and a session that must never come count; an epoch change; a P frame of two shards that can expire; a lost frame; decode errors. |
| `UdpStream` | Is a recovery entered, held and left as it should be, and is no keyframe request or window lost or used twice? | Two frames, three reports per receiver, one restart, and the last report in flight until the next is sent (any number of times, also across the restart): enough for a recovery to begin, be acknowledged and end, for windows to move the ladder before and after, and for a report of the former receiver to come late. One loss above and one below the 85 percent that require recovery. All five properties are proved for every bound, more reports in flight and any reordering among them included. |
| `SrtSession` | Do references, loss batches and reports stay those of their connection, does the screen keep the promise of `GatedPlayback`, and is a waiting connection served? | Two connections, the first with three frames and two reports: long enough for a stall, a batch after it and a frame that depends on a lost one; the second with one frame and one report, so that what is left over from the first shows. Two frames in flight, to be reordered. A stall after one quiet second and batches of one packet shorten the waits of 3 s and 400 packets without changing their order. One all-intra profile, one with P-frames. The safety properties and the implementation are proved for every bound. |
| `VideoOutput` | Does the window keep its rate, go forward only, and sample the latency of its own session? | A queue of two with three frames, so that it overflows; an interval of two ticks and a loop period of one, so that frames come within the interval, at it and beyond it; frames of two sizes, which blend or not; one new session at any moment. All four properties are proved for every bound. |
| `VideoSource` | Are encoders told apart, do bursts only make up for what was missed, do late frames of a file cause none, and are blocks decodable? | A file of three pictures with a gap, and a camera; two profiles that change, one all-intra, with intervals above the tolerance and above the sleep of a retry, as in the code; sends that fail and connections that end at any frame; six ticks of time; epochs that wrap at 3; shards of at most 3 bytes and blocks of at most 6 shards, with frames that fit one block, need several, or do not split at all. All four properties are proved for every bound. |
| `AdaptationRttBands`, `UdpReceiverEpochWrap`, `UdpStreamOneAck`, `UdpStreamRestart` | Each refutes one statement of the documents, see [Findings](#5-findings). | Small instances of the above. |

No run bounds the number of steps.  Deadlock is checked except in `VideoOutput` and
`VideoSource`, which end: the window is closed, the sender is stopped, and time
has a bound.

**Fairness** is assumed in three places only.  `FrameAssemblerSpec` (for
`PartialsEnd`): weak fairness of `ExpireOld`, since the receive loop expires after
every packet and every 2 ms without one (`receiver.cpp:359-374`), and of `Tick`,
since time passes; no packet need ever arrive.  `AdaptationSteady` (for
`SteadySettles` only; `SettlesInTime` counts windows and needs none): weak fairness of `Window`, since the main loop calls `update`
for every new feedback sequence (`sender.cpp:186-200`).  `SrtSession` (for
`WaitingIsServed`): weak fairness of `PeerGone`, since a connection that is silent
for 15 s is broken by SRT's idle timeout even if the notice of its close was
lost, and of `Accept`, since `accept` returns when a connection waits.  Nothing is
assumed of the network or of the sender.

Every property of a passing run has a **mutant** in `PROJECT.json`: a plausible
bug in one mapped definition under which TLC finds the property violated.

## 4. Proofs

Proved with TLAPS, from the named assumptions of the modules only
(`AdaptationAssumption`, `AssemblerAssumption`, `PacketAssumption`,
`ReceiverAssumption`, `SenderAssumption`, `LadderAssumption`, `StreamAssumption`,
`SessionAssumption`, `CadenceAssumption`, `OutputAssumption`, `FecAssumption`,
`SourceAssumption`); TLC evaluates them in the runs.  Nearly all of them only
type the constants.  Those that say more: there is a profile that is not all
intra, and an epoch base larger than any epoch (`SessionAssumption`, 2^16 in the
code); the times of a file do not go back and the epoch has at least three values
(`SourceAssumption`, 65535 in the code).

**`AdaptationProofs`**: the type invariant and all the safety and action
properties of the runs `Adaptation` and `AdaptationSteady`, for every set of losses
and RTTs and every configured maximum.  The inductive invariant is
`IInv == TypeOK /\ LossConfirmationConsistent /\ RttFloorHeld`, the last two being
`ConfirmationsHold`.  None of the three is inductive alone: the loss counter stays
at most 3 only because a candidate that reached three windows has moved the
level, and the confirmed RTT level stays under the level only while it is also
under what the RTT windows ask for.  A second invariant relates the code's
counters to the README's: each history count is at least the counter the code
keeps.

`LadderSettlesInTime` proves that the ladder has no cycle by a bound: 40 windows
after the network became steady the level is what this network asks for and does
not move again.  The invariant `SettleInv` says in three parts what the windows
since then have done.  `RttSettles`: the RTT counter has counted them all, so
after five the RTT is confirmed.  `LossSettles`: a loss the level does not answer yet
has been the candidate in every window since, so after three it is in force.
`LevelSettles`: after five windows the level is never below what the network asks
for at that level, and at any time a level above it has
`elapsed <= 5 * (8 - level) + healthy_windows`: every window counts as healthy, and
the fifth brings the level down.  With the level at least 1 and at most four healthy
windows counted, the right-hand side is at most 39.  That the target does not move away while the level
comes down is the lemma `NeedMonotone`, which is where the hysteresis bands enter.

**`UdpReceiverProofs`**: the type invariant, `StrictGating`,
`SynchronizedConsistent`, `SessionNeverReturns` and the implementation of
`GatedPlayback`, for every set of shards and sessions.  The assembler enters
through two lemmas only (a push returns nothing or the frame of the shard's key,
and keeps the maps well-formed), so nothing depends on the coding.  The argument
is `Standing`: where a gate stands towards the picture on the screen.  Every piece
`handle_frame` is made of keeps it, hence an iteration does.
`SessionNeverReturns` is about a history, `left`, of the sessions that were ever
active and are not any more.  `LeftInv` says that the active session is newer
than all of them; it is kept because the order of the code, start time first and
id second, is transitive and no session is newer than itself (`NewerIsAnOrder`).

Two properties need more of the stream: `KeyframeUnfreezes`, which the wrap of the
epochs refutes (finding 2), and `ReportsAreTrue`, which is what `UdpStream` takes
for granted of its receiver.  Both are proved under the hypothesis that excludes
the wrap, `EpochsGrow`: the epochs of a session do not decrease with its frame
ids.  `EpochNamesTheEncoder` of `VideoSource` says that the sender keeps to it until
the 16 bits wrap.  For the first the argument is `Past`: the gate's epoch and last
frame are those of frames up to the newest id, so a newer keyframe is neither old
nor late.  For the second it is `Reports` (a gate that remembers a decoded frame
has it on the screen) with the order in which `GatedPlayback` shows pictures.

**`FrameAssemblerProofs`**: all five safety properties of the assembler, for every
set of shards, late, repeated, damaged or contradictory, and every limit.
`Sound` says what the two maps may hold (no key in both, every partial frame has
a block that is not recovered, no block has more shards than recover it), and is
kept by each of the returns of `push`.  `ArrivedInv` ties the blocks to the history
of what arrived: a block that is not recovered has exactly the slots that came, all
of one layout and too few; with `Sound` this is `PartialIsIncomplete`.  `Remembered` ties the age of a completed key to the time
since its delivery, which is what makes `DeliveredOnce` inductive.  That the
eviction leaves at most the limit and keeps the newest is a counting argument: it
drops the keys by their rank.

**`UdpStreamProofs`**: the type invariant, `RecoveryStaysRobust`,
`OwedIsKnown`, `RecoveryExitEarned` and `WindowUsedOnce`, for any number of
frames, reports, delayed reports and restarts.  The invariant `SInv` has one
part per question.  `Knowledge`: what the reports and the sender know of decoded
frames is true, whatever receiver they came from; this is why late and repeated
reports cannot end a recovery.  `Recovery`: the recovery frame and all later
frames are at Level 8.  `Windows`: a report counted since a snapshot or since
the recovery baseline has a sequence above the last window used; without it the
exit of a recovery could use a window that `update` used before.  Of the ladder
these four use only that `force_emergency` sets level 8; the type invariant uses
the ladder's own inductive invariant, instantiated from `AdaptationProofs`.

**`SrtSessionProofs`**: the type invariant, the four safety properties of
`SrtSession` and its implementation of `GatedPlayback`, for any number of connections, frames and reports.  `IInv` has one
part for each place something of an older connection could hide.  `EncoderInv`:
where no keyframe is asked for, the encoder refers to the frame before, and that
was sent in full; hence `PFramesHaveTheirReference`.  `MediaInv` and `GateInv`: a
P-frame on its way was predicted from the frame with the id before its own, and
a synchronized gate has the references of the last id; the strict gate lets only
the successor pass, hence `DecodesIntact`.  `StatisticsInv`: a batch that counts
losses of a stall exists only during the stall, and is dropped when it ends.
`ReportsInv`: a report on its way, and the one the sender took, say what was
reported under their sequence.  `PlaybackInv` carries the implementation: the
picture on the screen is of the served connection or an older one and `Behind` the
gate, and the connections that wait are newer than what is shown, so nothing a
new connection plays is before it.

**`VideoOutputProofs`**: all four properties of the output, for every interval,
queue length and loop period.  `FramesInv` orders the frames from the oldest to
the newest (`previous`, `current`, `pending`, the queue) and ties generations to
sessions.  `PendingInv`: the cadence controller has a real frame pending exactly
while the current frame was not shown.  `ScheduleInv`: the schedule is never more
than an interval ahead of the last output, so the round of the loop that finds it
due presents something.  `ScreenInv`: the screen is between the
frame shown as itself last and the current one, and before the current one while
a blend is pending; so a frame is presented as itself once, and its blend before
it.

**`FecLayoutProofs`** and **`VideoSourceProofs`**: every block of every frame that
encodes can be decoded and the blocks are the frame, for all sizes, parity ratios
and limits; and bursts are bounded.  `PaceInv` says that the schedule of the rate
gate is the first picture's time plus one interval per frame, which gives
`BurstsOnlyCatchUp`, and that the pacer's deadline is not before `earliest`, the
time any frame of a file was paced at plus the intervals of those paced since,
which gives `LateFramesDoNotBurst`.  Neither says that two frames are an interval
apart: a camera may burst after a stall, and frames whose send failed are not
paced (see the observations in
[Findings](#5-findings)).  Encoders have different epochs across the wrap (`EpochInv`: the
epoch is at most two ahead of the last frame's, and two only when a file ended
before its encoder gave a frame), which grow except at the wrap.

**Only model-checked**: the liveness properties `PartialsEnd`, `SteadySettles` and
`WaitingIsServed`, which fairness puts out of the prover's reach.  What is safety
in `SteadySettles`, that the windows bring the ladder to rest if they come, is
`SettlesInTime` and proved.

## 5. Findings

1. **RTT confirmation restarts at a band** (`AdaptationRttBands`,
   `SustainedRttDegrades`).  README.md:148-149: "RTT-only degradation starts above
   160 ms and requires five consecutive high-RTT feedback windows."  The code
   counts windows of the same level band (`adaptation.cpp:167-172`): an RTT that
   alternates between 200 and 250 ms never degrades the profile.
2. **The epoch wraps** (`UdpReceiverEpochWrap`, `KeyframeUnfreezes`).
   README.md:285-286: the receiver "freezes until a complete keyframe is
   recovered."  The 16-bit encoder epoch returns to 1 after 65535 encoder
   restarts, and the receiver drops frames of a lower epoch
   (`receiver.cpp:494-498`), keyframes included.
3. **One acknowledgement is enough** (`UdpStreamOneAck`,
   `ExitAcknowledgedTwice`).  development-parameters.yaml:365: "A recovery frame is
   acknowledged by at least two fresh feedback reports."  The code counts every
   report of a receiver that has decoded anything (`sender.cpp:810-812`); only the
   last needs to be of the recovery frame.
4. **A restarted receiver is not heard** (`UdpStreamRestart`, `ReceiverIsHeard`).
   README.md:114-115: UDP "has no handshake, connection state, or reconnect
   delay."  The sender drops reports below the highest sequence it has seen
   (`sender.cpp:732`), and a restarted receiver counts from 1.

What the proofs show of 3 and 4: neither lets a recovery end too early.  A
recovery is always left on a frame of that recovery that a receiver decoded.

Observations that contradict no document, met while modelling:

- In blend mode a frame that comes while the one before still waits for its tick
  takes its place (`output_processor.cpp:275-283`).  When frames come a little
  slower than the output interval the window may show blends mostly, and the
  replaced frames give no latency sample.
- The branch `output_processor.cpp:294-297` cannot be taken: outside low-rate
  mode the next output is one interval after the last frame
  (`ScheduleInv`), so a tick that is due is never within the interval.
- The frame-rate gate of a camera advances its schedule from where it was
  (`video_source_reader.cpp:597`), the pacer of a file restarts it: after a stall
  a camera may burst, a file may not.  `BurstsOnlyCatchUp` bounds the burst by what
  was missed; `LateFramesDoNotBurst` is the pacer's half.
- A frame of a file whose send fails is not paced.  Before the receiver was heard
  in UDP mode (a full buffer, a port nobody listens on yet, a frame that does not
  split) the loop sleeps 20 ms and continues past the pacer
  (`sender.cpp:289-294`); no profile has an interval below 33 ms, so the file runs
  faster than its profile until a send works.  In SRT mode the sleep is 100 ms,
  no shorter than any interval (`sender.cpp:461-474`).  The frames that are paced
  keep their rate all the same: a failed send leaves the deadline where it was.
- A sender that reconnects takes the loss of the connection before for new for
  another 12 s (`sender.cpp:431`); `LossIsOfThisConnection` holds from the first
  report of the new connection on.

## 6. Not modelled

- System calls, FFmpeg, x264, SDL and ISA-L: decoding and encoding are choices
  between success and failure; the arithmetic of GF(256) is replaced by the
  guarantee of the code.
- Byte formats and configuration files: sequential and without state.  The
  validity checks of shards are in the models where they matter (`Valid`).
- Pixel processing, statistics and log lines.
- Numbers that decide nothing or are any value in the models: the loss average
  of UDP mode (`UdpSender` lets a window have any loss), the bandwidth estimate,
  packet counters and the spacing of redundant reports, waits and backoff.
- Errors of FFmpeg, x264 and V4L2, which end the program or the connection;
  `VideoSource` takes a reset to succeed, and every picture of a file to have a
  timestamp (one without is always due, `video_source_reader.cpp:586-588`).

## 7. Plan

Written so far, in this order: `Adaptation` with its history, steady run and
proofs; `FrameAssembler`, `ReceiverGate`, `UdpReceiver` with `GatedPlayback` and
proofs; `UdpSender`, `UdpStream` and proofs; `SrtSession` and proofs;
`OutputCadence`, `VideoOutput` and proofs; `FecLayout`, `VideoSource` and proofs;
the proofs of the assembler.

What could follow, the most important first:

1. `FeedbackReporter`: the reporting half of `run_udp` (packet counters, the
   history of 20000 sequences, probe responses that displace periodic reports
   and their copies), composed with the feedback thread.  Property: the counters
   never claim more than arrived.
2. `LossEstimator`: the average of `sender.cpp:740-775` on the reporter's
   counters.  Property: the estimate never understates what the counters show.
3. Liveness of the UDP stream: stale feedback leads to recovery, a recovered path
   leads out of it, a frozen picture comes back.
