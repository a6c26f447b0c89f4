------------------------------- MODULE UdpStream -------------------------------
(***************************************************************************)
(* The sender of UdpSender and a receiver around a network that loses,     *)
(* repeats and delays: frames one way, feedback reports the other.         *)
(*                                                                         *)
(* Of the receiver (src/receiver.cpp) only what its reports say of the     *)
(* frames is kept: it decodes ever newer frames of those that were sent,   *)
(* and each report says truthfully which was the last, or 0 while no frame *)
(* of a new epoch was decoded (lines 376-398): ReportsAreTrue of module    *)
(* UdpReceiver.  Whether a report asks for a keyframe or finds *)
(* the receiver stalled may be anything.  A receiver that is restarted     *)
(* begins again with report 1.                                             *)
(***************************************************************************)
EXTENDS UdpSender, Sequences

CONSTANTS
  MaxFrames,     \* frames the model sends
  MaxReports,    \* reports one receiver makes
  MaxDelayed,    \* reports that can still arrive: the last so many
  MaxRestarts    \* restarts of the receiver

ASSUME StreamAssumption ==
  /\ MaxFrames \in Nat
  /\ MaxReports \in Nat
  /\ MaxDelayed \in Nat
  /\ MaxRestarts \in Nat

VARIABLES
  frames,              \* the frames the receiver may decode
  last_decoded,        \* the last frame decoded, 0 before the first
  feedback_sequence,
  reports,             \* the reports that may still arrive, in sending order
  restarts,
  decoded,             \* history: the newest frame any receiver decoded
  owed,                \* history: a keyframe is owed to the receiver
  adapted              \* history: sequence of the newest window that moved
                       \* the ladder

receiverVars == <<last_decoded, feedback_sequence, restarts, decoded>>
networkVars == <<frames, reports>>
historyVars == <<owed, adapted>>
vars == <<senderVars, receiverVars, networkVars, historyVars>>

Init ==
  /\ SenderInit
  /\ frames = {}
  /\ last_decoded = 0 /\ decoded = 0
  /\ feedback_sequence = 0
  /\ reports = << >>
  /\ restarts = 0
  /\ owed = TRUE
  /\ adapted = 0

-----------------------------------------------------------------------------
(* The sender. *)

\* The ladder is moved by a window of the feedback.
UsedWindow ==
  \/ recovering /\ ~recovering'
  \/ last_adaptation_feedback_sequence' # last_adaptation_feedback_sequence

SenderDecides ==
  /\ Decide
  /\ owed' = \/ owed
             \/ ~recovering' /\ feedback.request_keyframe
             \/ profile' # profile
  /\ adapted' = IF UsedWindow THEN feedback.sequence ELSE adapted
  /\ UNCHANGED <<receiverVars, networkVars>>

SenderHasNoFrame ==
  /\ NoFrame
  /\ owed' = TRUE
  /\ UNCHANGED <<receiverVars, networkVars, adapted>>

SenderSends(keyframe) ==
  /\ frame_id <= MaxFrames
  /\ SendFrame(keyframe)
  /\ frames' = frames \cup {Encoded}
  /\ owed' = (owed /\ ~keyframe)
  /\ UNCHANGED <<receiverVars, reports, adapted>>

\* The shards that were sent may be enough for the receiver, or may not.
SenderFails(keyframe) ==
  /\ frame_id <= MaxFrames
  /\ FailToSend(keyframe)
  /\ frames' = frames \cup {Encoded}
  /\ owed' = TRUE
  /\ UNCHANGED <<receiverVars, reports, adapted>>

SenderTimesOut ==
  /\ FeedbackTimesOut
  /\ UNCHANGED <<receiverVars, networkVars, historyVars>>

DeliverCopy(report) ==
  /\ ReceiveCopy(report)
  /\ UNCHANGED <<receiverVars, networkVars, historyVars>>

DeliverProbeResponse(report, rtt) ==
  /\ ReceiveProbeResponse(report, rtt)
  /\ UNCHANGED <<receiverVars, networkVars, historyVars>>

DeliverPeriodicReport(report, picture, loss) ==
  /\ ReceivePeriodicReport(report, picture, loss)
  /\ UNCHANGED <<receiverVars, networkVars, historyVars>>

-----------------------------------------------------------------------------
(* The receiver. *)

Kept(seq) == IF Len(seq) <= MaxDelayed THEN seq
             ELSE SubSeq(seq, Len(seq) - MaxDelayed + 1, Len(seq))

SendReport(probe_response, last_complete_frame_id) ==
  /\ feedback_sequence < MaxReports
  /\ feedback_sequence' = feedback_sequence + 1
  /\ reports' = Kept(Append(reports,
       [sequence |-> feedback_sequence + 1,
        rtt_probe_response |-> probe_response,
        last_complete_frame_id |-> last_complete_frame_id]))
  /\ UNCHANGED <<senderVars, historyVars, frames, restarts>>

\* The periodic report, after frames up to `id` were decoded since the last
\* one, if any were.
Report(id, last_complete_frame_id) ==
  /\ id = last_decoded \/ (id > last_decoded /\ id \in {frame.id : frame \in frames})
  /\ last_complete_frame_id \in {0, id}
  /\ last_decoded' = id
  /\ decoded' = Controller!Larger(id, decoded)
  /\ SendReport(FALSE, last_complete_frame_id)

\* The answer to a probe.  Of its fields the sender reads no other.
AnswerProbe ==
  /\ SendReport(TRUE, 0)
  /\ UNCHANGED <<last_decoded, decoded>>

\* Before its first report a restart changes nothing.
Restart ==
  /\ restarts < MaxRestarts
  /\ feedback_sequence > 0
  /\ restarts' = restarts + 1
  /\ last_decoded' = 0
  /\ feedback_sequence' = 0
  /\ UNCHANGED <<senderVars, networkVars, historyVars, decoded>>

-----------------------------------------------------------------------------
InFlight == {reports[i] : i \in DOMAIN reports}

Next ==
  \/ SenderDecides
  \/ SenderHasNoFrame
  \/ \E keyframe \in BOOLEAN : SenderSends(keyframe) \/ SenderFails(keyframe)
  \/ SenderTimesOut
  \/ \E report \in InFlight :
       \/ DeliverCopy(report)
       \/ \E rtt \in Rtts : DeliverProbeResponse(report, rtt)
       \/ \E picture \in Pictures, loss \in LossesAfter :
            DeliverPeriodicReport(report, picture, loss)
  \/ \E id, last_complete_frame_id \in 0..MaxFrames :
       Report(id, last_complete_frame_id)
  \/ AnswerProbe
  \/ Restart

Spec == Init /\ [][Next]_vars

-----------------------------------------------------------------------------
(* Type correctness, and the orders the ids and counts are always in: the  *)
(* sender knows of no frame that was not decoded, and of no report or      *)
(* window it has not taken in.                                             *)
TypeOK ==
  /\ Controller!TypeOK
  /\ profile \in Controller!Levels
  /\ feedback.loss \in Losses \cup {NoLoss}
  /\ feedback.rtt \in Rtts
  /\ feedback.last_complete_frame_id <= decoded
  /\ decoded < frame_id
  /\ recovery_report_baseline <= feedback.complete_report_count
  /\ last_adaptation_feedback_sequence <= feedback.sequence

(* README.md:118-122: from the moment a recovery is entered, by the main   *)
(* loop's verdict or by a send that failed, until it is left, the ladder   *)
(* is at Level 8 and so is every frame: no window moves it meanwhile.      *)
RecoveringAtLevel8 == recovering => level = 8 /\ profile = 8

(* The recovery frame the acknowledgement is compared with is one of this  *)
(* recovery: it and every later frame was encoded at Level 8, whatever     *)
(* recoveries began, failed and ended before.                              *)
RecoveryFrameIsRobust ==
  last_recovery_frame_id # 0 =>
    /\ recovering
    /\ \A frame \in frames : frame.id >= last_recovery_frame_id => frame.profile = 8

(* README.md:118-124: both, over every order of reports, failed sends and  *)
(* restarts: a recovery is at Level 8 and is ended by a frame of its own.  *)
RecoveryStaysRobust == RecoveringAtLevel8 /\ RecoveryFrameIsRobust

(* README.md:121 "A recovery frame keeps Level 8 until it is               *)
(* acknowledged": a recovery is left only after the receiver has decoded a *)
(* frame of this recovery, though reports are late, repeated or lost and   *)
(* the receiver restarts.                                                  *)
RecoveryExitEarned ==
  [][ recovering /\ ~recovering'
      => last_recovery_frame_id # 0 /\ decoded >= last_recovery_frame_id ]_vars

(* A keyframe that is owed is never forgotten: since the receiver asked,   *)
(* the profile changed or a frame was lost at the source or at the socket, *)
(* the request is pending, or this very frame is forced, until a keyframe  *)
(* was sent in full.                                                       *)
OwedIsKnown ==
  owed => keyframe_requested \/ \E snapshot \in held : snapshot.force_keyframe

(* development-parameters.yaml:420 "Each UDP feedback sequence updates     *)
(* adaptation at most once": neither update nor the exit of a recovery     *)
(* uses a window that moved the ladder before.                             *)
WindowUsedOnce ==
  [][ UsedWindow => feedback.sequence > adapted ]_vars

-----------------------------------------------------------------------------
(* What the documents say and the code does not do. *)

(* README.md:114-115 UDP "has no handshake, connection state, or          *)
(* reconnect delay": the sender is ready for the next report of the        *)
(* receiver, whatever was restarted.  The code keeps the highest sequence  *)
(* of all receivers and drops the reports of a restarted one until they    *)
(* reach it.                                                               *)
ReceiverIsHeard == feedback.sequence <= feedback_sequence
=============================================================================
