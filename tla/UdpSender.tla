------------------------------- MODULE UdpSender -------------------------------
(***************************************************************************)
(* The sender in UDP mode (SenderApp of src/sender.cpp): the main loop of  *)
(* run_udp, which decides on a snapshot of the feedback and then encodes   *)
(* and sends one frame, and the feedback thread (udp_feedback_loop), which *)
(* takes reports in meanwhile.  The profile ladder is module Adaptation.   *)
(*                                                                         *)
(* A frame is its id and its profile; shards, epochs and pacing are left   *)
(* out.  Times are reduced to the two comparisons made of them: whether    *)
(* the feedback is stale (feedback_timeout_ms) and whether the receiver    *)
(* reported a frame age above 1500 ms (`stalled`).  The loss average of    *)
(* the feedback thread is reduced to any value of Losses.                  *)
(***************************************************************************)
EXTENDS Integers

CONSTANTS
  Losses, Rtts, MaxVideoKbps, RttWindowBound,   \* see Adaptation
  NoLoss        \* loss_percent before the first sample

ASSUME SenderAssumption ==
  /\ NoLoss \notin Losses
  /\ 0 \in Rtts     \* rtt_ms before the first probe response

VARIABLES
  \* adaptation_, used by the main loop only
  level, healthy_windows, rtt_candidate_level, rtt_high_windows,
  confirmed_rtt_required_level, loss_candidate_level, loss_candidate_windows,
  emergency_recovery_active,
  \* udp_feedback_, shared by the threads under udp_feedback_mutex_
  feedback,
  \* the feedback thread
  baseline_valid,          \* udp_feedback_baseline_valid_
  \* the main loop
  held,                    \* {} at the top of the loop; between the snapshot
                           \* and the send, what the send still uses of it
  profile,                 \* level of the profile of the last frame
  recovering,
  last_recovery_frame_id,
  recovery_report_baseline,
  last_adaptation_feedback_sequence,
  keyframe_requested,
  frame_id                 \* id of the next frame

controllerVars ==
  <<level, healthy_windows, rtt_candidate_level, rtt_high_windows,
    confirmed_rtt_required_level, loss_candidate_level, loss_candidate_windows,
    emergency_recovery_active>>
recoveryVars == <<recovering, last_recovery_frame_id, recovery_report_baseline>>
mainVars ==
  <<held, profile, recoveryVars, last_adaptation_feedback_sequence,
    keyframe_requested, frame_id>>
senderVars == <<controllerVars, feedback, baseline_valid, mainVars>>

Controller == INSTANCE Adaptation

ASSUME LadderAssumption == Controller!AdaptationAssumption

\* Levels 7 and 8 encode every frame as a keyframe (kProfiles).
AllIntra(l) == l >= 7

SenderInit ==
  /\ Controller!Init
  /\ feedback = [have |-> FALSE, stale |-> FALSE, sequence |-> 0,
                 loss |-> NoLoss, rtt |-> 0, last_complete_frame_id |-> 0,
                 complete_report_count |-> 0, stalled |-> FALSE,
                 request_keyframe |-> FALSE]
  /\ baseline_valid = FALSE
  /\ held = {}
  /\ profile = level
  /\ recovering = FALSE
  /\ last_recovery_frame_id = 0
  /\ recovery_report_baseline = 0
  /\ last_adaptation_feedback_sequence = 0
  /\ keyframe_requested = TRUE
  /\ frame_id = 1

-----------------------------------------------------------------------------
(* The main loop from the snapshot to the encoder: lines 124-267.          *)

\* udp_recovery_required (adaptation.cpp:328-335).
RecoveryRequired ==
  \/ feedback.have /\ feedback.stale
  \/ feedback.stalled
  \/ feedback.loss \in Losses /\ feedback.loss > 85

\* No feedback came within the timeout since the start.
StartupProbe == ~feedback.have /\ feedback.stale

Window == [valid |-> TRUE, loss |-> feedback.loss, rtt |-> feedback.rtt]

EnterRecovery ==
  /\ RecoveryRequired /\ ~recovering
  /\ Controller!ForceEmergency
  /\ recovering' = TRUE
  /\ last_recovery_frame_id' = 0
  /\ recovery_report_baseline' = feedback.complete_report_count
  /\ UNCHANGED last_adaptation_feedback_sequence

\* Mutant: any frame the receiver decoded acknowledges the recovery.
AcknowledgedByAnyFrame ==
  /\ last_recovery_frame_id # 0
  /\ ~feedback.stale
  /\ ~feedback.stalled
  /\ feedback.complete_report_count >= recovery_report_baseline + 2
  /\ feedback.loss \in Losses /\ feedback.loss <= 85

RecoveryAcknowledged ==
  /\ last_recovery_frame_id # 0
  /\ ~feedback.stale
  /\ ~feedback.stalled
  /\ feedback.last_complete_frame_id >= last_recovery_frame_id
  /\ feedback.complete_report_count >= recovery_report_baseline + 2
  /\ feedback.loss \in Losses /\ feedback.loss <= 85

\* Mutant: the window that ended the recovery counts again.
ExitKeepsSequence ==
  /\ recovering /\ RecoveryAcknowledged
  /\ Controller!ResetToNetwork(Window)
  /\ recovering' = FALSE
  /\ last_recovery_frame_id' = 0
  /\ UNCHANGED <<recovery_report_baseline, last_adaptation_feedback_sequence>>

ExitRecovery ==
  /\ recovering /\ RecoveryAcknowledged
  /\ Controller!ResetToNetwork(Window)
  /\ recovering' = FALSE
  /\ last_recovery_frame_id' = 0
  /\ last_adaptation_feedback_sequence' = feedback.sequence
  /\ UNCHANGED recovery_report_baseline

StayInRecovery ==
  /\ recovering /\ ~RecoveryAcknowledged
  /\ UNCHANGED <<controllerVars, recoveryVars, last_adaptation_feedback_sequence>>

NewWindow ==
  /\ feedback.loss \in Losses
  /\ feedback.sequence > last_adaptation_feedback_sequence

Adapt ==
  /\ ~recovering /\ ~RecoveryRequired /\ NewWindow
  /\ Controller!Update(Window)
  /\ last_adaptation_feedback_sequence' = feedback.sequence
  /\ UNCHANGED recoveryVars

KeepProfile ==
  /\ ~recovering /\ ~RecoveryRequired /\ ~NewWindow
  /\ UNCHANGED <<controllerVars, recoveryVars, last_adaptation_feedback_sequence>>

Decide ==
  /\ held = {}
  /\ EnterRecovery \/ ExitRecovery \/ StayInRecovery \/ Adapt \/ KeepProfile
  /\ profile' = IF StartupProbe THEN 8 ELSE level'
  /\ LET requested == \/ keyframe_requested
                      \/ ~recovering' /\ feedback.request_keyframe
                      \/ profile' # profile
     IN  held' = {[have |-> feedback.have,
                   complete_report_count |-> feedback.complete_report_count,
                   force_keyframe |-> requested \/ AllIntra(profile')]}
  /\ keyframe_requested' = FALSE
  /\ UNCHANGED <<feedback, baseline_valid, frame_id>>

-----------------------------------------------------------------------------
(* The main loop from the encoder to the end of the iteration: 268-381.    *)

\* Mutant: the keyframe that was asked for is forgotten.
NoFrameForgetsRequest ==
  /\ held # {}
  /\ held' = {}
  /\ UNCHANGED <<controllerVars, feedback, baseline_valid, profile, recoveryVars,
                 last_adaptation_feedback_sequence, keyframe_requested, frame_id>>

\* next_frame has nothing: the source is reopened.
NoFrame ==
  /\ held # {}
  /\ held' = {}
  /\ keyframe_requested' = TRUE
  /\ UNCHANGED <<controllerVars, feedback, baseline_valid, profile, recoveryVars,
                 last_adaptation_feedback_sequence, frame_id>>

\* The frame the encoder gives for this iteration.
Encoded == [id |-> frame_id, profile |-> profile]

\* Mutant: every frame is taken for a recovery frame.
SendMarksEveryFrame(keyframe) ==
  /\ \E snapshot \in held :
       /\ snapshot.force_keyframe => keyframe
       /\ last_recovery_frame_id' = frame_id
       /\ recovery_report_baseline' = snapshot.complete_report_count
  /\ held' = {}
  /\ frame_id' = frame_id + 1
  /\ UNCHANGED <<controllerVars, feedback, baseline_valid, profile, recovering,
                 last_adaptation_feedback_sequence, keyframe_requested>>

\* Every shard of the frame is sent.  The encoder gives a keyframe when it is
\* forced to, and at other times of its own.
SendFrame(keyframe) ==
  /\ \E snapshot \in held :
       /\ snapshot.force_keyframe => keyframe
       /\ IF recovering /\ last_recovery_frame_id = 0
          THEN /\ last_recovery_frame_id' = frame_id
               /\ recovery_report_baseline' = snapshot.complete_report_count
          ELSE UNCHANGED <<last_recovery_frame_id, recovery_report_baseline>>
  /\ held' = {}
  /\ frame_id' = frame_id + 1
  /\ UNCHANGED <<controllerVars, feedback, baseline_valid, profile, recovering,
                 last_adaptation_feedback_sequence, keyframe_requested>>

\* The frame has too many blocks, or the socket takes only some of its shards.
\* The id is used up all the same.
FailToSend(keyframe) ==
  /\ \E snapshot \in held :
       /\ snapshot.force_keyframe => keyframe
       /\ IF ~snapshot.have
          THEN UNCHANGED <<controllerVars, profile, recoveryVars>>
          ELSE /\ IF recovering THEN UNCHANGED <<controllerVars, profile>>
                  ELSE Controller!ForceEmergency /\ profile' = level'
               /\ recovering' = TRUE
               /\ last_recovery_frame_id' = 0
               /\ recovery_report_baseline' = snapshot.complete_report_count
  /\ held' = {}
  /\ frame_id' = frame_id + 1
  /\ keyframe_requested' = TRUE
  /\ UNCHANGED <<feedback, baseline_valid, last_adaptation_feedback_sequence>>

-----------------------------------------------------------------------------
(* The feedback thread. *)

\* feedback_timeout_ms pass since the last report, or since the start.
FeedbackTimesOut ==
  /\ feedback' = [feedback EXCEPT !.stale = TRUE]
  /\ UNCHANGED <<controllerVars, baseline_valid, mainVars>>

\* What a report says of the receiver's picture.  A receiver that is stalled
\* asks for a keyframe (receiver.cpp:397-399).
Pictures == {picture \in [stalled : BOOLEAN, request_keyframe : BOOLEAN] :
               picture.stalled => picture.request_keyframe}

\* The loss average after a periodic report: the first one gives the baseline
\* only, and so does one whose counters went back; one of fewer than 32 packets
\* gives no sample either (lines 740-778).
LossesAfter ==
  IF baseline_valid THEN Losses \cup {feedback.loss} ELSE {feedback.loss}

\* A report of this session, lines 726-818.  One that is older than the newest
\* taken in is dropped: a stuttering step.  A copy of the newest only shows that
\* the receiver is there.
Heard(report) ==
  [feedback EXCEPT !.have = TRUE, !.stale = FALSE, !.sequence = report.sequence]

ReceiveCopy(report) ==
  /\ report.sequence = feedback.sequence
  /\ feedback' = Heard(report)
  /\ UNCHANGED <<controllerVars, baseline_valid, mainVars>>

\* Mutant: a late answer is taken in too.
ReceiveLateResponse(report, rtt) ==
  /\ report.rtt_probe_response
  /\ feedback' = [Heard(report) EXCEPT !.rtt = rtt]
  /\ UNCHANGED <<controllerVars, baseline_valid, mainVars>>

\* The answer to a probe gives a round trip time.
ReceiveProbeResponse(report, rtt) ==
  /\ report.sequence > feedback.sequence
  /\ report.rtt_probe_response
  /\ feedback' = [Heard(report) EXCEPT !.rtt = rtt]
  /\ UNCHANGED <<controllerVars, baseline_valid, mainVars>>

ReceivePeriodicReport(report, picture, loss) ==
  /\ report.sequence > feedback.sequence
  /\ ~report.rtt_probe_response
  /\ feedback' =
       [Heard(report) EXCEPT
          !.loss = loss,
          !.last_complete_frame_id = report.last_complete_frame_id,
          !.complete_report_count =
             IF report.last_complete_frame_id # 0 THEN @ + 1 ELSE @,
          !.stalled = picture.stalled,
          !.request_keyframe = picture.request_keyframe]
  /\ baseline_valid' = TRUE
  /\ UNCHANGED <<controllerVars, mainVars>>
=============================================================================
