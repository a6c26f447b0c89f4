------------------------------ MODULE SrtSession ------------------------------
(***************************************************************************)
(* SRT mode: the sender's connections (SenderApp::run_srt and              *)
(* run_srt_connection of src/sender.cpp), the receiver's                   *)
(* (ReceiverApp::run_srt and run_srt_connection of src/receiver.cpp), the  *)
(* sockets between them (src/transport/srt_transport.cpp) and the loss     *)
(* reports that flow back (NetworkLossEstimator).                          *)
(*                                                                         *)
(* The listener completes a handshake by itself and holds one connection   *)
(* the application has not accepted: the sender may be sending to it while *)
(* the receiver still reads an older connection whose peer is gone.  Only  *)
(* the notice of the peer's close, which may be lost, or the idle timeout  *)
(* ends that.                                                              *)
(*                                                                         *)
(* A frame is one packet.  A frame of which only some shards were put on   *)
(* the socket is not `whole`: it is never completed, and expires.  A frame *)
(* of several shards that arrives in part only expires too, so `Discard`   *)
(* may freeze the gate.  The gate is module ReceiverGate, the ladder is    *)
(* reduced to the profile it selects (its theorems are in                  *)
(* AdaptationProofs), waits and backoff to the order of the steps.         *)
(***************************************************************************)
EXTENDS ReceiverGate, FiniteSets, Sequences

CONSTANTS
  Profiles, IntraProfiles,  \* encoder profiles; those whose frames are all keyframes
  MinResolved,     \* minimum_resolved_packets of the loss estimator (400)
  StallTicks,      \* seconds without progress that are a stall (3)
  EpochBase,       \* 2^16: stream_epoch = connection_epoch * EpochBase + epoch
  \* Bounds of the model.
  MaxConnections, MaxEpochs, Capacity,
  MaxFrames, MaxReports     \* of each connection

ASSUME SessionAssumption ==
  /\ IntraProfiles \subseteq Profiles
  /\ Profiles \ IntraProfiles # {}
  /\ MinResolved \in Nat \ {0}
  /\ StallTicks \in Nat \ {0}
  /\ MaxEpochs \in Nat /\ EpochBase \in Nat /\ EpochBase > MaxEpochs
  /\ {MaxConnections, Capacity} \subseteq Nat
  /\ {MaxFrames, MaxReports} \subseteq [1..MaxConnections -> Nat]

VARIABLES
  \* the sender
  connection,          \* connection_epoch of its open socket, 0 without one
  connection_epoch,    \* how many connections were opened
  frame_id,            \* id of the next frame
  keyframe_requested,
  profile,
  encoder,             \* [epoch, last]: the encoder's epoch, and the frame the
                       \* next P-frame refers to: {} or {its profile and key}
  network_report_sequence,
  receiver_loss,       \* receiver_loss_percent_, {} before the first report
  loss_fresh,          \* it was received, or kept at a connect, within 12 s
  last_sent,           \* history: the key of the last frame, if sent in full
                       \* on this connection
  \* the network
  media,               \* frames sent and neither received nor discarded
  reports,             \* reports sent and not received
  \* the receiver
  serving,             \* the connection run_srt_connection reads, 0 in accept
  backlog,             \* the connection the listener holds, if any
  gate,
  shown,               \* history: {} or the key of the last picture decoded
  highest,             \* highest frame id received on the connection
  estimator,           \* what resolved and lost packets add up to since the
                       \* baseline, {} without one; `stalled` (history): some
                       \* were found lost while the receiver called it a stall
  resolved_any,        \* some packet was resolved: the snapshot is valid
  progress,            \* packets were resolved since the last statistics
  quiet,               \* statistics without progress in a row
  receive_stalled,
  reliable_loss,       \* {} or the last batch's [loss, stalled]
  sent_reports         \* the losses reported on this connection, in order

senderVars ==
  <<connection, connection_epoch, frame_id, keyframe_requested, profile, encoder,
    network_report_sequence, receiver_loss, loss_fresh, last_sent>>
statisticsVars ==
  <<estimator, resolved_any, progress, quiet, receive_stalled, reliable_loss,
    sent_reports>>
receiverVars == <<serving, backlog, gate, shown, highest, statisticsVars>>
vars == <<senderVars, media, reports, receiverVars>>

Init ==
  /\ connection = 0
  /\ connection_epoch = 0
  /\ frame_id = 1
  /\ keyframe_requested = TRUE
  /\ profile \in Profiles \ IntraProfiles
  /\ encoder = [epoch |-> 0, last |-> {}]
  /\ network_report_sequence = 0
  /\ receiver_loss = {}
  /\ loss_fresh = FALSE
  /\ last_sent = {}
  /\ media = {}
  /\ reports = {}
  /\ serving = 0
  /\ backlog = {}
  /\ gate = InitialGate
  /\ shown = {}
  /\ highest = 0
  /\ estimator = {}
  /\ resolved_any = FALSE
  /\ progress = FALSE
  /\ quiet = 0
  /\ receive_stalled = FALSE
  /\ reliable_loss = {}
  /\ sent_reports = <<>>

-----------------------------------------------------------------------------
(* The sender. *)

\* Mutant: a connection has the epoch of the one before.
SameEpoch == IF connection_epoch = 0 THEN 1 ELSE connection_epoch

NextEpoch == connection_epoch + 1

\* Mutant: the sequence of the last connection's reports is kept.
KeepSequence == UNCHANGED network_report_sequence

ResetSequence == network_report_sequence' = 0

\* Mutant: the keyframe is not asked for.
AskForNothing == keyframe_requested' = FALSE

AskForKeyframe == keyframe_requested' = TRUE

\* connect_to succeeds: the listener had room.  The loss the receiver reported
\* last is kept and counts as new.
Connect ==
  /\ connection = 0
  /\ backlog = {}
  /\ connection_epoch < MaxConnections
  /\ connection_epoch' = NextEpoch
  /\ connection' = connection_epoch'
  /\ backlog' = {connection'}
  /\ AskForKeyframe
  /\ ResetSequence
  /\ loss_fresh' = (receiver_loss # {})
  /\ last_sent' = {}
  /\ UNCHANGED <<frame_id, profile, encoder, receiver_loss, media, reports, serving, gate,
                 shown, highest, statisticsVars>>

\* connect_to fails: run_srt waits and tries again.
ConnectFails == connection = 0 /\ UNCHANGED vars

\* receive_srt_network_reports takes one report of this connection.
TakeReport(report) ==
  /\ connection # 0 /\ connection = serving
  /\ reports' = reports \ {report}
  /\ IF report.sequence > network_report_sequence
     THEN /\ network_report_sequence' = report.sequence
          /\ receiver_loss' = {report.loss}
          /\ loss_fresh' = TRUE
     ELSE UNCHANGED <<network_report_sequence, receiver_loss, loss_fresh>>
  /\ UNCHANGED <<connection, connection_epoch, frame_id, keyframe_requested,
                 profile, encoder, last_sent, media, receiverVars>>

\* 12 s passed since.
LossAges ==
  /\ loss_fresh
  /\ loss_fresh' = FALSE
  /\ UNCHANGED <<connection, connection_epoch, frame_id, keyframe_requested,
                 profile, encoder, network_report_sequence, receiver_loss,
                 last_sent, media, reports, receiverVars>>

\* The encoder has to be opened for the profile: next_frame, lines 76-80.
Reopens == \A last \in encoder.last : last.profile # profile

Epoch == IF Reopens THEN encoder.epoch + 1 ELSE encoder.epoch

Key == [connection |-> connection, epoch |-> connection * EpochBase + Epoch,
        frame_id |-> frame_id]

\* The frames next_frame may give: a keyframe where one is forced or due.
EncodedFrames ==
  {[key |-> Key, keyframe |-> keyframe,
    reference |-> IF keyframe THEN {} ELSE {last.key : last \in encoder.last}] :
     keyframe \in IF keyframe_requested \/ profile \in IntraProfiles \/ Reopens
                  THEN {TRUE} ELSE BOOLEAN}

Encode ==
  /\ connection # 0
  /\ frame_id <= MaxFrames[connection]
  /\ Epoch <= MaxEpochs
  /\ encoder' = [epoch |-> Epoch, last |-> {[profile |-> profile, key |-> Key]}]

\* What the receiver dropped is sent to nobody.
PutOnSocket(frame, whole) ==
  IF connection \notin {serving} \cup backlog
  THEN UNCHANGED media
  ELSE /\ Cardinality(media) < Capacity
       /\ media' = media \cup
            {[key |-> frame.key, keyframe |-> frame.keyframe,
              reference |-> frame.reference, whole |-> whole]}

\* The loss the statistics hand to the ladder: the receiver's while it is new,
\* or what SRT counted on this side, any value.
LadderLosses == IF loss_fresh THEN receiver_loss ELSE 0..100

\* AdaptationController::update reduced to its verdict: Level 8 is all-intra
\* and is entered at once on a loss above 85.
Selected(losses) ==
  IF \A loss \in losses : loss > 85 THEN IntraProfiles ELSE Profiles

\* The end of the iteration: each second the ladder is updated.
Statistics(requested) ==
  \/ UNCHANGED profile /\ keyframe_requested' = requested
  \/ /\ profile' \in Selected(LadderLosses)
     /\ keyframe_requested' = (requested \/ profile' # profile)

\* send_frame_srt sends every shard.
SendFrame ==
  /\ Encode
  /\ frame_id' = frame_id + 1
  /\ \E frame \in EncodedFrames : PutOnSocket(frame, TRUE)
  /\ last_sent' = {Key}
  /\ Statistics(FALSE)
  /\ UNCHANGED <<connection, connection_epoch, network_report_sequence,
                 receiver_loss, loss_fresh, reports, receiverVars>>

\* The frame does not split into blocks: nothing is sent, and the iteration goes
\* on as if it were.
SplitFails ==
  /\ Encode
  /\ frame_id' = frame_id + 1
  /\ last_sent' = {}
  /\ Statistics(TRUE)
  /\ UNCHANGED <<connection, connection_epoch, network_report_sequence,
                 receiver_loss, loss_fresh, media, reports, receiverVars>>

SendsSome == UNCHANGED media \/ \E frame \in EncodedFrames : PutOnSocket(frame, FALSE)

\* A shard finds the send buffer full for 20 attempts: the rest is given up and
\* the ladder is told of a loss of 100 percent.
SendBlocked ==
  /\ Encode
  /\ frame_id' = frame_id + 1
  /\ SendsSome
  /\ last_sent' = {}
  /\ profile' \in Selected({100})
  /\ AskForKeyframe
  /\ UNCHANGED <<connection, connection_epoch, network_report_sequence,
                 receiver_loss, loss_fresh, reports, receiverVars>>

\* next_frame has nothing: the source is reopened, and with it the encoder.
NoFrame ==
  /\ connection # 0
  /\ encoder' = [encoder EXCEPT !.last = {}]
  /\ AskForKeyframe
  /\ UNCHANGED <<connection, connection_epoch, frame_id, profile,
                 network_report_sequence, receiver_loss, loss_fresh, last_sent,
                 media, reports, receiverVars>>

\* The sender's socket is closed: receive or send find it broken, or the loop
\* ends by an exception.  A frame may have been sent in part.
SenderCloses ==
  /\ connection # 0
  /\ connection' = 0
  /\ \/ UNCHANGED <<encoder, media>>
     \/ Encode /\ SendsSome
  /\ frame_id' = 1
  /\ last_sent' = {}
  /\ UNCHANGED <<connection_epoch, keyframe_requested, profile,
                 network_report_sequence, receiver_loss, loss_fresh, reports,
                 receiverVars>>

-----------------------------------------------------------------------------
(* The receiver. *)

Accept ==
  /\ serving = 0
  /\ \E c \in backlog : serving' = c
  /\ backlog' = {}
  /\ gate' = ResetMediaSession(gate)
  /\ UNCHANGED <<senderVars, media, reports, shown, highest, statisticsVars>>

\* receive returns Closed: run_srt_connection ends, its variables with it.
StopServing ==
  /\ serving # 0
  /\ serving' = 0
  /\ media' = {frame \in media : frame.key.connection # serving}
  /\ reports' = {}
  /\ highest' = 0
  /\ estimator' = {}
  /\ resolved_any' = FALSE
  /\ progress' = FALSE
  /\ quiet' = 0
  /\ receive_stalled' = FALSE
  /\ reliable_loss' = {}
  /\ sent_reports' = <<>>
  /\ UNCHANGED <<senderVars, backlog, gate, shown>>

\* Mutant: an idle connection is never given up, and the notice was lost.
PeerGoneNever == serving # 0 /\ connection # serving /\ FALSE /\ StopServing

\* The peer's socket is closed, as its notice says, or 15 s of silence.
PeerGone == connection # serving /\ StopServing

\* The network was cut for 15 s: the sender does not know yet.
ConnectionBreaks == connection = serving /\ StopServing

\* The packets sent before the frame's that are found missing when it arrives.
Missing(frame) ==
  {f \in media : /\ f.key.connection = serving
                 /\ highest < f.key.frame_id /\ f.key.frame_id < frame.key.frame_id}

\* What a packet that arrived, or was given up, adds to the counters: itself,
\* and the packets found missing.
Count(lost) ==
  /\ estimator' = {[resolved |-> e.resolved + 1, lost |-> e.lost + lost,
                    stalled |-> e.stalled \/ (lost > 0 /\ receive_stalled)] :
                      e \in estimator}
  /\ resolved_any' = TRUE
  /\ progress' = TRUE

\* The loop receives a frame's packet.
Receive(frame, ok) ==
  /\ serving # 0 /\ frame.key.connection = serving
  /\ frame.whole
  /\ media' = media \ {frame}
  /\ gate' = HandleFrame(gate, frame, ok)
  /\ shown' = IF Feeds(gate, frame) /\ ok THEN {frame.key} ELSE shown
  /\ IF frame.key.frame_id > highest
     THEN Count(Cardinality(Missing(frame))) /\ highest' = frame.key.frame_id
     ELSE Count(0) /\ UNCHANGED highest
  /\ UNCHANGED <<senderVars, reports, serving, backlog, quiet, receive_stalled,
                 reliable_loss, sent_reports>>

\* A frame that is not complete never will be: it was sent in part, or SRT gives
\* up its packet (TLPKTDROP).  If the assembler has a shard of it, it expires
\* 450 ms later.
Discard(frame) ==
  /\ serving # 0 /\ frame.key.connection = serving
  /\ ~frame.whole \/ frame.key.frame_id < highest
  /\ media' = media \ {frame}
  /\ gate' \in {gate, Freeze(gate)}
  /\ Count(0)
  /\ UNCHANGED <<senderVars, reports, serving, backlog, shown, highest, quiet,
                 receive_stalled, reliable_loss, sent_reports>>

-----------------------------------------------------------------------------
(* The receiver's statistics, each second: lines 155-194. *)

StallsNow == receive_stalled \/ quiet + 1 >= StallTicks

\* Mutant: the estimator goes on with its batch after a stall.
BaselineAfterStallKept ==
  IF estimator = {}
  THEN {[resolved |-> 0, lost |-> 0, stalled |-> FALSE]} ELSE estimator

\* The estimator as update finds it: the first update only gives the baseline,
\* and so does a reset when a stall ends.
BaselineAfterStall ==
  IF estimator = {} \/ (progress /\ receive_stalled)
  THEN {[resolved |-> 0, lost |-> 0, stalled |-> FALSE]} ELSE estimator

LossPercent(batch) ==
  LET percent == (batch.lost * 100) \div batch.resolved
  IN  IF percent > 100 THEN 100 ELSE percent

\* NetworkLossEstimator::update.
UpdateEstimate(batch) ==
  IF batch.resolved < MinResolved
  THEN estimator' = {batch} /\ UNCHANGED reliable_loss
  ELSE /\ estimator' = {[resolved |-> 0, lost |-> 0, stalled |-> FALSE]}
       /\ reliable_loss' = {[loss |-> LossPercent(batch), stalled |-> batch.stalled]}

ReportedLoss ==
  IF receive_stalled' THEN {100} ELSE {batch.loss : batch \in reliable_loss'}

\* The report may arrive after a later one, or never (it lives 1500 ms).
SendReport ==
  IF ReportedLoss = {}
  THEN UNCHANGED <<sent_reports, reports>>
  ELSE \E loss \in ReportedLoss :
         /\ Len(sent_reports) < MaxReports[serving]
         /\ sent_reports' = Append(sent_reports, loss)
         /\ reports' = reports \cup
              {[sequence |-> Len(sent_reports) + 1, loss |-> loss]}

ReceiverStatistics ==
  /\ serving # 0
  /\ resolved_any
  /\ IF progress
     THEN quiet' = 0 /\ receive_stalled' = FALSE
     ELSE /\ quiet' = IF quiet < StallTicks THEN quiet + 1 ELSE quiet
          /\ receive_stalled' = StallsNow
  /\ progress' = FALSE
  /\ \E batch \in BaselineAfterStall : UpdateEstimate(batch)
  /\ SendReport
  /\ UNCHANGED <<senderVars, media, serving, backlog, gate, shown, highest, resolved_any>>

-----------------------------------------------------------------------------
Next ==
  \/ Connect
  \/ ConnectFails
  \/ \E report \in reports : TakeReport(report)
  \/ LossAges
  \/ SendFrame
  \/ SplitFails
  \/ SendBlocked
  \/ NoFrame
  \/ SenderCloses
  \/ Accept
  \/ PeerGone
  \/ ConnectionBreaks
  \/ \E frame \in media : (\E ok \in BOOLEAN : Receive(frame, ok)) \/ Discard(frame)
  \/ ReceiverStatistics

\* A dead peer is always found out, and accept returns when there is a
\* connection.  Nothing is assumed of the network or of the sender.
Spec == Init /\ [][Next]_vars /\ WF_vars(PeerGone) /\ WF_vars(Accept)

-----------------------------------------------------------------------------
(* Type correctness, and the orders the connections are in: at most one is *)
(* served, one waits, and the sender has none newer than the last.         *)
TypeOK ==
  /\ {connection, serving} \cup backlog \subseteq 0..connection_epoch
  /\ \A c \in backlog : serving < c
  /\ \A frame \in media :
       frame.key.connection \in {connection, serving} \cup backlog
  /\ profile \in Profiles
  /\ quiet \in 0..StallTicks
  /\ receive_stalled \in BOOLEAN
  /\ \A batch \in estimator : batch.resolved \in Nat /\ batch.lost \in Nat
  /\ network_report_sequence \in Nat

(* The receiver cannot ask for a keyframe over SRT: after a frame that was *)
(* not sent in full, a reconnection, a reopened source or a new profile,   *)
(* the sender itself must start over.  Every P-frame it sends follows, on  *)
(* the same connection, a frame it sent in full and that is the one the    *)
(* encoder predicted it from.                                              *)
PFramesHaveTheirReference ==
  [][ \A frame \in media' \ media :
        frame.keyframe \/ frame.reference = last_sent ]_vars

(* Whatever was lost, cut short, reordered or sent before a reconnection,  *)
(* a picture is decoded from a keyframe or on top of the very picture it   *)
(* was predicted from (README.md:10 "strict complete-frame/keyframe        *)
(* gating").                                                               *)
DecodesIntact ==
  [][ \A frame \in media \ media' :
        gate'.references = {frame.key}
          => frame.keyframe \/ gate.references = frame.reference ]_vars

\* A connection is a session of the playback, and the later one is the newer.
Sessions == 1..MaxConnections

Picture(key) ==
  [session |-> key.connection, epoch |-> key.epoch, frame_id |-> key.frame_id]

OnScreen == {Picture(key) : key \in shown}

Pictures ==
  [key : UNION {[session : {c}, epoch : {c * EpochBase + e : e \in 0..MaxEpochs},
                 frame_id : 1..MaxFrames[c]] : c \in Sessions},
   keyframe : BOOLEAN]

Playback == INSTANCE GatedPlayback WITH
              Started <- [c \in Sessions |-> 0],
              shown <- OnScreen,
              live <- gate.synchronized

(* The receiver over SRT keeps the playback it promises the viewer, over   *)
(* every reconnection of the sender: a new connection starts frozen and is *)
(* shown from a keyframe, and nothing older comes back.                    *)
ImplementsPlayback == Playback!PlaybackSpec

(* The loss the sender adapts to, once a report came on the connection, is *)
(* what the receiver of this very connection reported under that sequence: *)
(* no report of an earlier connection hides a newer one.                   *)
LossIsOfThisConnection ==
  connection # 0 /\ network_report_sequence > 0 =>
    /\ connection = serving => network_report_sequence <= Len(sent_reports)
    /\ connection = serving =>
         receiver_loss = {sent_reports[network_report_sequence]}
    /\ connection \notin backlog

(* development-parameters.yaml:114 reset_batch_after_stall: packets found  *)
(* missing when a stall ends were reported as the stall's 100 percent; no  *)
(* later batch counts them again.                                          *)
StallIsNotCountedTwice == \A batch \in reliable_loss : ~batch.stalled

(* A connection that the listener completed is not left waiting behind an  *)
(* older one whose sender is gone: it is accepted, or its sender gives up. *)
WaitingIsServed ==
  \A c \in 1..MaxConnections :
    (c \in backlog /\ connection = c) ~> (serving = c \/ connection # c)
=============================================================================
