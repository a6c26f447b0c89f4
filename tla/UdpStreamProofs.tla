--------------------------- MODULE UdpStreamProofs ---------------------------
(***************************************************************************)
(* Proofs about UdpStream for every number of frames, reports, delayed     *)
(* reports and restarts.  The invariant has one part per question:         *)
(*   Types       the variables the other parts compare;                    *)
(*   Knowledge   what is known of decoded frames, by the reports and by    *)
(*               the sender, is true;                                      *)
(*   Recovery    a recovery is at Level 8 and so is its recovery frame;    *)
(*   Windows     reports counted since a snapshot or a baseline are newer  *)
(*               than the last window the ladder used.                     *)
(* Of the ladder they use only that force_emergency sets level 8; the type *)
(* invariant (the last part) uses the ladder's own invariant.              *)
(***************************************************************************)
EXTENDS UdpStream, SequenceTheorems, TLAPS

Feedbacks ==
  [have : BOOLEAN, stale : BOOLEAN, sequence : Nat, loss : Losses \cup {NoLoss},
   rtt : Rtts, last_complete_frame_id : Nat, complete_report_count : Nat,
   stalled : BOOLEAN, request_keyframe : BOOLEAN]

Snapshots ==
  [have : BOOLEAN, complete_report_count : Nat, force_keyframe : BOOLEAN]

ReportsUpTo(id) ==
  [sequence : Nat, rtt_probe_response : BOOLEAN, last_complete_frame_id : 0..id]

Types ==
  /\ feedback \in Feedbacks
  /\ held \in SUBSET Snapshots
  /\ \A snapshot, other \in held : snapshot = other
  /\ recovering \in BOOLEAN
  /\ last_recovery_frame_id \in Nat
  /\ recovery_report_baseline \in Nat
  /\ last_adaptation_feedback_sequence \in Nat
  /\ adapted \in Nat
  /\ frame_id \in Nat \ {0}
  /\ last_decoded \in Nat
  /\ decoded \in Nat
  /\ feedback_sequence \in Nat

Knowledge ==
  /\ reports \in Seq(ReportsUpTo(decoded))
  /\ feedback.last_complete_frame_id <= decoded
  /\ last_decoded <= decoded
  /\ decoded < frame_id
  /\ \A frame \in frames : frame.id \in Nat /\ frame.id < frame_id

Recovery ==
  /\ RecoveringAtLevel8
  /\ RecoveryFrameIsRobust
  /\ last_recovery_frame_id < frame_id

NewerThan(count) ==
  /\ count <= feedback.complete_report_count
  /\ count < feedback.complete_report_count
       => last_adaptation_feedback_sequence < feedback.sequence

Windows ==
  /\ last_adaptation_feedback_sequence <= feedback.sequence
  /\ \A snapshot \in held : NewerThan(snapshot.complete_report_count)
  /\ recovering => NewerThan(recovery_report_baseline)
  /\ adapted <= last_adaptation_feedback_sequence

SInv == Types /\ Knowledge /\ Recovery /\ OwedIsKnown /\ Windows

-----------------------------------------------------------------------------
(* A report that may still arrive tells of frames that were decoded.       *)
LEMMA InFlightType ==
  ASSUME SInv, NEW report \in InFlight
  PROVE  report \in ReportsUpTo(decoded)
  BY ElementOfSeq, LenProperties DEF SInv, Knowledge, InFlight

(* The network keeps of the reports only such as were sent.                *)
LEMMA KeptType ==
  ASSUME NEW S, NEW seq \in Seq(S), NEW elt \in S
  PROVE  Kept(Append(seq, elt)) \in Seq(S)
<1> DEFINE all == Append(seq, elt)
<1>1. all \in Seq(S) /\ Len(all) \in Nat
  BY AppendProperties, LenProperties
<1> HIDE DEF all
<1>2. CASE Len(all) <= MaxDelayed
  BY <1>1, <1>2 DEF Kept, all
<1>3. CASE ~(Len(all) <= MaxDelayed)
  <2>1. /\ Len(all) - MaxDelayed + 1 \in Int
        /\ Len(all) - MaxDelayed + 1 >= 1
    BY <1>1, <1>3, StreamAssumption
  <2>2. \A i \in (Len(all) - MaxDelayed + 1)..Len(all) : all[i] \in S
    BY <1>1, <2>1, ElementOfSeq
  <2>3. SubSeq(all, Len(all) - MaxDelayed + 1, Len(all)) \in Seq(S)
    BY <1>1, <2>1, <2>2, SubSeqProperties
  <2> QED BY <1>3, <2>3 DEF Kept, all
<1> QED BY <1>2, <1>3

(* What was true of the reports stays true when more is decoded.           *)
LEMMA ReportsMonotone ==
  ASSUME NEW i \in Nat, NEW j \in Nat, i <= j, NEW seq \in Seq(ReportsUpTo(i))
  PROVE  seq \in Seq(ReportsUpTo(j))
<1>1. ReportsUpTo(i) \subseteq ReportsUpTo(j)
  BY DEF ReportsUpTo
<1>2. Len(seq) \in Nat /\ seq \in [1..Len(seq) -> ReportsUpTo(j)]
  BY <1>1, LenProperties
<1> QED BY <1>2, SeqDef

LEMMA InitSInv == Init => SInv
<1> SUFFICES ASSUME Init PROVE SInv
  OBVIOUS
<1>1. Types
  <2>1. feedback \in Feedbacks
    BY SenderAssumption DEF Init, SenderInit, Feedbacks
  <2>2. held \in SUBSET Snapshots
    BY DEF Init, SenderInit
  <2>3. recovering \in BOOLEAN
    BY DEF Init, SenderInit
  <2> QED BY <2>1, <2>2, <2>3 DEF Init, SenderInit, Types
<1>2. Knowledge
  BY EmptySeq DEF Init, SenderInit, Knowledge
<1>3. Recovery
  BY DEF Init, SenderInit, Recovery, RecoveringAtLevel8, RecoveryFrameIsRobust
<1>4. OwedIsKnown
  BY DEF Init, SenderInit, OwedIsKnown
<1>5. Windows
  BY DEF Init, SenderInit, Windows
<1> QED BY <1>1, <1>2, <1>3, <1>4, <1>5 DEF SInv

-----------------------------------------------------------------------------
(* The decision. *)

(* What each branch of the decision does to the recovery and the windows.  *)
LEMMA DecideRecovery ==
  ASSUME SInv, Decide
  PROVE  /\ recovering' \in BOOLEAN
         /\ last_recovery_frame_id' \in {0, last_recovery_frame_id}
         /\ last_recovery_frame_id' # 0 => recovering'
         /\ recovering' => level' = 8
         /\ recovery_report_baseline' \in
              {recovery_report_baseline, feedback.complete_report_count}
         /\ recovering' => \/ recovering /\ recovery_report_baseline' = recovery_report_baseline
                           \/ recovery_report_baseline' = feedback.complete_report_count
         /\ recovering /\ ~recovering' => RecoveryAcknowledged
         /\ \/ last_adaptation_feedback_sequence' = last_adaptation_feedback_sequence
               /\ ~(recovering /\ ~recovering')
            \/ /\ last_adaptation_feedback_sequence' = feedback.sequence
               /\ last_adaptation_feedback_sequence < feedback.sequence
               /\ ~recovering'
<1> USE DEF SInv, Types, Recovery, RecoveringAtLevel8, RecoveryFrameIsRobust
<1>1. CASE EnterRecovery
  BY <1>1 DEF EnterRecovery, Controller!ForceEmergency
<1>2. CASE ExitRecovery
  <2>1. recovering /\ RecoveryAcknowledged
    BY <1>2 DEF ExitRecovery
  <2>2. recovery_report_baseline < feedback.complete_report_count
    BY <2>1 DEF RecoveryAcknowledged, Feedbacks
  <2>3. last_adaptation_feedback_sequence < feedback.sequence
    BY <2>1, <2>2 DEF Windows, NewerThan
  <2> QED BY <1>2, <2>1, <2>3 DEF ExitRecovery
<1>3. CASE StayInRecovery
  BY <1>3 DEF StayInRecovery, recoveryVars, controllerVars
<1>4. CASE Adapt
  BY <1>4 DEF Adapt, NewWindow, recoveryVars
<1>5. CASE KeepProfile
  BY <1>5 DEF KeepProfile, recoveryVars
<1> QED BY <1>1, <1>2, <1>3, <1>4, <1>5 DEF Decide

LEMMA DecideSInv ==
  ASSUME SInv, SenderDecides
  PROVE  SInv'
<1>1. Decide /\ UNCHANGED <<feedback, baseline_valid, frame_id, receiverVars, networkVars>>
  BY DEF SenderDecides, Decide
<1> DEFINE snapshot == CHOOSE s : held' = {s}
<1>2. /\ held' = {snapshot}
      /\ snapshot \in Snapshots
      /\ snapshot.complete_report_count = feedback.complete_report_count
      /\ ~snapshot.force_keyframe =>
           /\ ~keyframe_requested
           /\ ~(~recovering' /\ feedback.request_keyframe)
           /\ profile' = profile
  <2> DEFINE requested == \/ keyframe_requested
                          \/ ~recovering' /\ feedback.request_keyframe
                          \/ profile' # profile
             s == [have |-> feedback.have,
                   complete_report_count |-> feedback.complete_report_count,
                   force_keyframe |-> requested \/ AllIntra(profile')]
  <2>1. held' = {s}
    BY <1>1 DEF Decide
  <2>2. snapshot = s
    BY <2>1
  <2>3. (requested \/ AllIntra(profile')) \in BOOLEAN
    BY Zenon
  <2>4. s \in Snapshots
    BY <2>3 DEF SInv, Types, Feedbacks, Snapshots
  <2>5. s.force_keyframe = (requested \/ AllIntra(profile'))
    OBVIOUS
  <2>6. s.complete_report_count = feedback.complete_report_count
    OBVIOUS
  <2> HIDE DEF s
  <2>7. ~s.force_keyframe => ~requested
    BY <2>5
  <2> QED BY <2>1, <2>2, <2>4, <2>6, <2>7
<1> HIDE DEF snapshot
<1>3. Types'
  BY <1>1, <1>2, DecideRecovery
  DEF SInv, Types, receiverVars, Feedbacks, SenderDecides
<1>4. Knowledge'
  BY <1>1 DEF SInv, Knowledge, receiverVars, networkVars
<1>5. Recovery'
  <2>1. recovering' => level' = 8 /\ profile' = 8
    BY <1>1, DecideRecovery DEF Decide
  <2> QED BY <1>1, <2>1, DecideRecovery
          DEF SInv, Types, Recovery, RecoveringAtLevel8, RecoveryFrameIsRobust, networkVars
<1>6. OwedIsKnown'
  <2>1. SUFFICES ASSUME owed', ~snapshot.force_keyframe PROVE FALSE
    BY <1>2 DEF OwedIsKnown
  <2>2. owed => keyframe_requested
    BY <1>1 DEF SInv, OwedIsKnown, Decide
  <2> QED BY <1>2, <2>1, <2>2 DEF SenderDecides
<1>7. Windows'
  <2>1. /\ feedback.sequence \in Nat /\ feedback.complete_report_count \in Nat
        /\ last_adaptation_feedback_sequence \in Nat
        /\ last_adaptation_feedback_sequence <= feedback.sequence
    BY DEF SInv, Types, Feedbacks, Windows
  <2>2. last_adaptation_feedback_sequence' <= feedback'.sequence
    BY <1>1, <2>1, DecideRecovery
  <2>3. \A s \in held' : NewerThan(s.complete_report_count)'
    BY <1>1, <1>2, <2>1 DEF NewerThan
  <2>4. recovering' => NewerThan(recovery_report_baseline)'
    <3>1. CASE recovery_report_baseline' = feedback.complete_report_count
      BY <1>1, <2>1, <3>1 DEF NewerThan
    <3>2. CASE /\ recovering /\ recovering'
               /\ recovery_report_baseline' = recovery_report_baseline
      BY <1>1, <2>1, <3>2, DecideRecovery DEF SInv, Windows, NewerThan
    <3> QED BY <1>1, <3>1, <3>2, DecideRecovery
  <2>5. adapted' <= last_adaptation_feedback_sequence'
    BY <1>1, <2>1, DecideRecovery DEF SInv, Types, Windows, SenderDecides, UsedWindow
  <2> QED BY <2>2, <2>3, <2>4, <2>5 DEF Windows
<1> QED BY <1>3, <1>4, <1>5, <1>6, <1>7 DEF SInv

-----------------------------------------------------------------------------
(* The end of an iteration. *)

LEMMA NoFrameSInv ==
  ASSUME SInv, SenderHasNoFrame
  PROVE  SInv'
<1> USE DEF SenderHasNoFrame, NoFrame, recoveryVars, controllerVars, receiverVars, networkVars
<1>1. Types'
  BY DEF SInv, Types
<1>2. Knowledge'
  BY DEF SInv, Knowledge
<1>3. Recovery'
  BY DEF SInv, Recovery, RecoveringAtLevel8, RecoveryFrameIsRobust
<1>4. OwedIsKnown'
  BY DEF OwedIsKnown
<1>5. Windows'
  BY DEF SInv, Windows, NewerThan
<1> QED BY <1>1, <1>2, <1>3, <1>4, <1>5 DEF SInv

(* A frame that leaves the encoder during a recovery is at Level 8, and    *)
(* all the frames before it have lower ids.                                *)
LEMMA FramesAfter ==
  ASSUME SInv, frames' = frames \cup {Encoded}, frame_id' = frame_id + 1,
         last_recovery_frame_id' \in {0, frame_id, last_recovery_frame_id},
         last_recovery_frame_id' # 0 => recovering /\ recovering'
  PROVE  /\ RecoveryFrameIsRobust'
         /\ last_recovery_frame_id' < frame_id'
         /\ \A frame \in frames' : frame.id \in Nat /\ frame.id < frame_id'
<1>1. /\ frame_id \in Nat \ {0} /\ last_recovery_frame_id \in Nat
      /\ last_recovery_frame_id < frame_id
      /\ \A frame \in frames : frame.id \in Nat /\ frame.id < frame_id
  BY DEF SInv, Types, Recovery, Knowledge
<1>2. last_recovery_frame_id' < frame_id'
  BY <1>1
<1>3. \A frame \in frames' : frame.id \in Nat /\ frame.id < frame_id'
  BY <1>1 DEF Encoded
<1>4. ASSUME last_recovery_frame_id' # 0, NEW frame \in frames',
             frame.id >= last_recovery_frame_id'
      PROVE  frame.profile = 8
  <2>1. recovering /\ profile = 8
    BY <1>4 DEF SInv, Recovery, RecoveringAtLevel8
  <2>2. CASE frame = Encoded
    BY <2>1, <2>2 DEF Encoded
  <2>3. CASE frame \in frames
    <3>1. last_recovery_frame_id' = last_recovery_frame_id
      BY <1>1, <1>4, <2>3
    <3> QED BY <1>4, <2>3, <3>1 DEF SInv, Recovery, RecoveryFrameIsRobust
  <2> QED BY <2>2, <2>3
<1>5. RecoveryFrameIsRobust'
  BY <1>4 DEF RecoveryFrameIsRobust
<1> QED BY <1>2, <1>3, <1>5

LEMMA SendSInv ==
  ASSUME SInv, NEW keyframe \in BOOLEAN, SenderSends(keyframe)
  PROVE  SInv'
<1>1. PICK snapshot \in held :
        /\ snapshot.force_keyframe => keyframe
        /\ IF recovering /\ last_recovery_frame_id = 0
           THEN /\ last_recovery_frame_id' = frame_id
                /\ recovery_report_baseline' = snapshot.complete_report_count
           ELSE UNCHANGED <<last_recovery_frame_id, recovery_report_baseline>>
  BY DEF SenderSends, SendFrame
<1>2. /\ held' = {} /\ frame_id' = frame_id + 1
      /\ UNCHANGED <<controllerVars, feedback, profile, recovering, receiverVars, reports,
                     last_adaptation_feedback_sequence, keyframe_requested, adapted>>
      /\ frames' = frames \cup {Encoded}
      /\ owed' = (owed /\ ~keyframe)
  BY DEF SenderSends, SendFrame
<1>3. snapshot \in Snapshots
  BY DEF SInv, Types
<1>4. /\ RecoveryFrameIsRobust'
      /\ last_recovery_frame_id' < frame_id'
      /\ \A frame \in frames' : frame.id \in Nat /\ frame.id < frame_id'
  <2>1. last_recovery_frame_id' \in {0, frame_id, last_recovery_frame_id}
    BY <1>1
  <2>2. last_recovery_frame_id' # 0 => recovering /\ recovering'
    BY <1>1, <1>2 DEF SInv, Recovery, RecoveryFrameIsRobust
  <2> QED BY <1>2, <2>1, <2>2, FramesAfter
<1>5. Types'
  BY <1>1, <1>2, <1>3 DEF SInv, Types, Snapshots, receiverVars
<1>6. Knowledge'
  BY <1>2, <1>4 DEF SInv, Types, Knowledge, receiverVars
<1>7. Recovery'
  BY <1>2, <1>4 DEF SInv, Recovery, RecoveringAtLevel8, controllerVars
<1>8. OwedIsKnown'
  <2>1. snapshot.force_keyframe \/ keyframe_requested \/ ~owed
    BY DEF SInv, Types, OwedIsKnown
  <2> QED BY <1>1, <1>2, <2>1 DEF OwedIsKnown
<1>9. Windows'
  BY <1>1, <1>2 DEF SInv, Windows, NewerThan
<1> QED BY <1>5, <1>6, <1>7, <1>8, <1>9 DEF SInv

LEMMA FailSInv ==
  ASSUME SInv, NEW keyframe \in BOOLEAN, SenderFails(keyframe)
  PROVE  SInv'
<1>1. PICK snapshot \in held :
        IF ~snapshot.have
        THEN UNCHANGED <<controllerVars, profile, recoveryVars>>
        ELSE /\ IF recovering THEN UNCHANGED <<controllerVars, profile>>
                ELSE Controller!ForceEmergency /\ profile' = level'
             /\ recovering' = TRUE
             /\ last_recovery_frame_id' = 0
             /\ recovery_report_baseline' = snapshot.complete_report_count
  BY DEF SenderFails, FailToSend
<1>2. /\ held' = {} /\ frame_id' = frame_id + 1 /\ keyframe_requested' = TRUE
      /\ UNCHANGED <<feedback, receiverVars, reports,
                     last_adaptation_feedback_sequence, adapted>>
      /\ frames' = frames \cup {Encoded}
  BY DEF SenderFails, FailToSend
<1>3. snapshot \in Snapshots
  BY DEF SInv, Types
<1>4. /\ recovering' \in BOOLEAN
      /\ recovering' => level' = 8 /\ profile' = 8
      /\ last_recovery_frame_id' \in {0, last_recovery_frame_id}
      /\ last_recovery_frame_id' # 0 => recovering /\ recovering'
      /\ \/ UNCHANGED recoveryVars
         \/ recovery_report_baseline' = snapshot.complete_report_count
  <2>1. CASE ~snapshot.have
    BY <1>1, <2>1 DEF SInv, Types, Recovery, RecoveringAtLevel8, RecoveryFrameIsRobust,
                      recoveryVars, controllerVars
  <2>2. CASE snapshot.have /\ recovering
    BY <1>1, <2>2 DEF SInv, Recovery, RecoveringAtLevel8, controllerVars
  <2>3. CASE snapshot.have /\ ~recovering
    BY <1>1, <2>3 DEF Controller!ForceEmergency
  <2> QED BY <2>1, <2>2, <2>3 DEF SInv, Types
<1>5. /\ RecoveryFrameIsRobust'
      /\ last_recovery_frame_id' < frame_id'
      /\ \A frame \in frames' : frame.id \in Nat /\ frame.id < frame_id'
  BY <1>2, <1>4, FramesAfter
<1>6. Types'
  BY <1>2, <1>3, <1>4 DEF SInv, Types, Snapshots, recoveryVars, receiverVars
<1>7. Knowledge'
  BY <1>2, <1>5 DEF SInv, Types, Knowledge, receiverVars
<1>8. Recovery'
  BY <1>4, <1>5 DEF Recovery, RecoveringAtLevel8
<1>9. OwedIsKnown'
  BY <1>2 DEF OwedIsKnown
<1>10. Windows'
  BY <1>2, <1>4 DEF SInv, Windows, NewerThan, recoveryVars
<1> QED BY <1>6, <1>7, <1>8, <1>9, <1>10 DEF SInv

-----------------------------------------------------------------------------
(* The feedback thread. *)

(* What the feedback thread leaves alone, and what it may change of the    *)
(* feedback: the counts only grow, and only with the sequence.             *)
LEMMA FeedbackSInv ==
  ASSUME SInv, feedback' \in Feedbacks,
         feedback'.last_complete_frame_id <= decoded,
         \/ /\ feedback'.sequence = feedback.sequence
            /\ feedback'.complete_report_count = feedback.complete_report_count
         \/ /\ feedback'.sequence > feedback.sequence
            /\ feedback'.complete_report_count >= feedback.complete_report_count,
         UNCHANGED <<controllerVars, mainVars, receiverVars, networkVars, owed, adapted>>
  PROVE  SInv'
<1> USE DEF controllerVars, mainVars, recoveryVars, receiverVars, networkVars
<1>1. Types'
  BY DEF SInv, Types
<1>2. Knowledge'
  BY DEF SInv, Knowledge
<1>3. Recovery'
  BY DEF SInv, Recovery, RecoveringAtLevel8, RecoveryFrameIsRobust
<1>4. OwedIsKnown'
  <2>1. OwedIsKnown /\ UNCHANGED <<owed, keyframe_requested, held>>
    BY DEF SInv
  <2> QED BY <2>1 DEF OwedIsKnown
<1>5. Windows'
  <2>1. /\ feedback.sequence \in Nat /\ feedback'.sequence \in Nat
        /\ feedback.complete_report_count \in Nat
        /\ feedback'.complete_report_count \in Nat
        /\ last_adaptation_feedback_sequence \in Nat
        /\ recovery_report_baseline \in Nat
        /\ last_adaptation_feedback_sequence <= feedback.sequence
    BY DEF SInv, Types, Windows, Feedbacks
  <2>2. ASSUME NEW count \in Nat, NewerThan(count)
        PROVE  NewerThan(count)'
    BY <2>1, <2>2 DEF NewerThan
  <2>3. \A snapshot \in held : snapshot.complete_report_count \in Nat
    BY DEF SInv, Types, Snapshots
  <2>4. \A snapshot \in held' : NewerThan(snapshot.complete_report_count)'
    BY <2>2, <2>3 DEF SInv, Windows
  <2>5. recovering' => NewerThan(recovery_report_baseline)'
    BY <2>1, <2>2 DEF SInv, Windows
  <2> QED BY <2>1, <2>4, <2>5 DEF SInv, Windows
<1> QED BY <1>1, <1>2, <1>3, <1>4, <1>5 DEF SInv

LEMMA TimeOutSInv ==
  ASSUME SInv, SenderTimesOut
  PROVE  SInv'
<1>1. /\ feedback' \in Feedbacks
      /\ feedback'.sequence = feedback.sequence
      /\ feedback'.complete_report_count = feedback.complete_report_count
      /\ feedback'.last_complete_frame_id = feedback.last_complete_frame_id
  BY DEF SInv, Types, Feedbacks, SenderTimesOut, FeedbackTimesOut
<1>2. UNCHANGED <<controllerVars, mainVars, receiverVars, networkVars, owed, adapted>>
  BY DEF SenderTimesOut, FeedbackTimesOut, historyVars
<1> QED BY <1>1, <1>2, FeedbackSInv DEF SInv, Knowledge

LEMMA CopySInv ==
  ASSUME SInv, NEW report \in InFlight, DeliverCopy(report)
  PROVE  SInv'
<1>1. /\ feedback' \in Feedbacks
      /\ feedback'.sequence = feedback.sequence
      /\ feedback'.complete_report_count = feedback.complete_report_count
      /\ feedback'.last_complete_frame_id = feedback.last_complete_frame_id
  BY DEF SInv, Types, Feedbacks, DeliverCopy, ReceiveCopy, Heard
<1>2. UNCHANGED <<controllerVars, mainVars, receiverVars, networkVars, owed, adapted>>
  BY DEF DeliverCopy, ReceiveCopy, historyVars
<1> QED BY <1>1, <1>2, FeedbackSInv DEF SInv, Knowledge

LEMMA ProbeResponseSInv ==
  ASSUME SInv, NEW report \in InFlight, NEW rtt \in Rtts,
         DeliverProbeResponse(report, rtt)
  PROVE  SInv'
<1>1. report.sequence \in Nat
  BY InFlightType DEF ReportsUpTo
<1>2. /\ feedback' \in Feedbacks
      /\ feedback'.sequence > feedback.sequence
      /\ feedback'.complete_report_count = feedback.complete_report_count
      /\ feedback'.last_complete_frame_id = feedback.last_complete_frame_id
  BY <1>1 DEF SInv, Types, Feedbacks, DeliverProbeResponse, ReceiveProbeResponse, Heard
<1>3. UNCHANGED <<controllerVars, mainVars, receiverVars, networkVars, owed, adapted>>
  BY DEF DeliverProbeResponse, ReceiveProbeResponse, historyVars
<1>4. feedback.complete_report_count >= feedback.complete_report_count
  BY DEF SInv, Types, Feedbacks
<1> QED BY <1>2, <1>3, <1>4, FeedbackSInv DEF SInv, Knowledge

LEMMA PeriodicReportSInv ==
  ASSUME SInv, NEW report \in InFlight, NEW picture \in Pictures,
         NEW loss \in LossesAfter, DeliverPeriodicReport(report, picture, loss)
  PROVE  SInv'
<1>1. /\ report.sequence \in Nat
      /\ report.last_complete_frame_id \in 0..decoded
      /\ decoded \in Nat
  BY InFlightType DEF ReportsUpTo, SInv, Types
<1>2. loss \in Losses \cup {NoLoss} /\ picture \in [stalled : BOOLEAN, request_keyframe : BOOLEAN]
  BY DEF LossesAfter, Pictures, SInv, Types, Feedbacks
<1>3. /\ feedback' \in Feedbacks
      /\ feedback'.sequence > feedback.sequence
      /\ feedback'.complete_report_count >= feedback.complete_report_count
      /\ feedback'.last_complete_frame_id = report.last_complete_frame_id
  <2> DEFINE count == IF report.last_complete_frame_id # 0
                      THEN feedback.complete_report_count + 1
                      ELSE feedback.complete_report_count
  <2>1. /\ report.sequence > feedback.sequence
        /\ feedback' =
             [Heard(report) EXCEPT
                !.loss = loss,
                !.last_complete_frame_id = report.last_complete_frame_id,
                !.complete_report_count = count,
                !.stalled = picture.stalled,
                !.request_keyframe = picture.request_keyframe]
    BY DEF DeliverPeriodicReport, ReceivePeriodicReport, Heard, SInv, Types, Feedbacks
  <2>2. Heard(report) \in Feedbacks /\ Heard(report).sequence = report.sequence
    BY <1>1 DEF SInv, Types, Feedbacks, Heard
  <2>3. count \in Nat /\ count >= feedback.complete_report_count
    BY DEF SInv, Types, Feedbacks
  <2>4. report.last_complete_frame_id \in Nat
    BY <1>1
  <2> HIDE DEF count
  <2> QED BY <1>2, <2>1, <2>2, <2>3, <2>4 DEF Feedbacks
<1>4. UNCHANGED <<controllerVars, mainVars, receiverVars, networkVars, owed, adapted>>
  BY DEF DeliverPeriodicReport, ReceivePeriodicReport, historyVars
<1> QED BY <1>1, <1>3, <1>4, FeedbackSInv

-----------------------------------------------------------------------------
(* The receiver. *)

(* The receiver touches nothing of the sender.  It may decode frames that  *)
(* were sent, and send reports of those it decoded.                        *)
LEMMA ReceiverSInv ==
  ASSUME SInv, decoded' \in Nat, decoded <= decoded', decoded' < frame_id,
         last_decoded' \in 0..decoded', feedback_sequence' \in Nat,
         reports' \in Seq(ReportsUpTo(decoded')),
         UNCHANGED <<senderVars, historyVars, frames>>
  PROVE  SInv'
<1> USE DEF senderVars, controllerVars, mainVars, recoveryVars, historyVars
<1>1. Types'
  BY DEF SInv, Types
<1>2. Knowledge'
  BY DEF SInv, Types, Feedbacks, Knowledge
<1>3. Recovery'
  BY DEF SInv, Recovery, RecoveringAtLevel8, RecoveryFrameIsRobust
<1>4. OwedIsKnown'
  <2>1. OwedIsKnown /\ UNCHANGED <<owed, keyframe_requested, held>>
    BY DEF SInv
  <2> QED BY <2>1 DEF OwedIsKnown
<1>5. Windows'
  BY DEF SInv, Windows, NewerThan
<1> QED BY <1>1, <1>2, <1>3, <1>4, <1>5 DEF SInv

(* A report that is sent is of frames decoded by then.                     *)
LEMMA SendReportType ==
  ASSUME SInv, decoded' \in Nat, decoded <= decoded',
         NEW probe_response \in BOOLEAN, NEW id \in 0..decoded',
         SendReport(probe_response, id)
  PROVE  /\ reports' \in Seq(ReportsUpTo(decoded'))
         /\ feedback_sequence' \in Nat
         /\ UNCHANGED <<senderVars, historyVars, frames>>
<1>1. feedback_sequence \in Nat /\ decoded \in Nat
  BY DEF SInv, Types
<1>2. reports \in Seq(ReportsUpTo(decoded'))
  BY <1>1, ReportsMonotone DEF SInv, Knowledge
<1>3. [sequence |-> feedback_sequence + 1, rtt_probe_response |-> probe_response,
       last_complete_frame_id |-> id] \in ReportsUpTo(decoded')
  BY <1>1 DEF ReportsUpTo
<1>4. reports' \in Seq(ReportsUpTo(decoded'))
  BY <1>2, <1>3, KeptType DEF SendReport
<1> QED BY <1>1, <1>4 DEF SendReport

LEMMA ReportSInv ==
  ASSUME SInv, NEW id \in 0..MaxFrames, NEW last_complete_frame_id \in 0..MaxFrames,
         Report(id, last_complete_frame_id)
  PROVE  SInv'
<1>1. /\ last_decoded \in Nat /\ decoded \in Nat /\ frame_id \in Nat \ {0}
      /\ last_decoded <= decoded /\ decoded < frame_id
      /\ \A frame \in frames : frame.id \in Nat /\ frame.id < frame_id
  BY DEF SInv, Types, Knowledge
<1>2. id \in Nat /\ id < frame_id
  BY <1>1 DEF Report
<1>3. /\ decoded' \in Nat /\ decoded <= decoded' /\ decoded' < frame_id
      /\ last_decoded' \in 0..decoded'
      /\ last_complete_frame_id \in 0..decoded'
  BY <1>1, <1>2 DEF Report, Controller!Larger
<1>4. SendReport(FALSE, last_complete_frame_id)
  BY DEF Report
<1> QED BY <1>3, <1>4, SendReportType, ReceiverSInv

LEMMA AnswerProbeSInv ==
  ASSUME SInv, AnswerProbe
  PROVE  SInv'
<1>1. /\ decoded' \in Nat /\ decoded <= decoded' /\ decoded' < frame_id
      /\ last_decoded' \in 0..decoded' /\ 0 \in 0..decoded'
  BY DEF SInv, Types, Knowledge, AnswerProbe
<1>2. SendReport(TRUE, 0)
  BY DEF AnswerProbe
<1> QED BY <1>1, <1>2, SendReportType, ReceiverSInv

LEMMA RestartSInv ==
  ASSUME SInv, Restart
  PROVE  SInv'
<1>1. /\ decoded' \in Nat /\ decoded <= decoded' /\ decoded' < frame_id
      /\ last_decoded' \in 0..decoded' /\ feedback_sequence' \in Nat
      /\ reports' \in Seq(ReportsUpTo(decoded'))
  BY DEF SInv, Types, Knowledge, Restart, networkVars
<1>2. UNCHANGED <<senderVars, historyVars, frames>>
  BY DEF Restart, networkVars
<1> QED BY <1>1, <1>2, ReceiverSInv

-----------------------------------------------------------------------------
LEMMA StutterSInv ==
  ASSUME SInv, UNCHANGED vars
  PROVE  SInv'
<1>1. /\ decoded' \in Nat /\ decoded <= decoded' /\ decoded' < frame_id
      /\ last_decoded' \in 0..decoded' /\ feedback_sequence' \in Nat
      /\ reports' \in Seq(ReportsUpTo(decoded'))
  BY DEF SInv, Types, Knowledge, vars, receiverVars, networkVars
<1>2. UNCHANGED <<senderVars, historyVars, frames>>
  BY DEF vars, networkVars
<1> QED BY <1>1, <1>2, ReceiverSInv

LEMMA NextSInv ==
  ASSUME SInv, [Next]_vars
  PROVE  SInv'
<1>1. CASE SenderDecides
  BY <1>1, DecideSInv
<1>2. CASE SenderHasNoFrame
  BY <1>2, NoFrameSInv
<1>3. ASSUME NEW keyframe \in BOOLEAN, SenderSends(keyframe) \/ SenderFails(keyframe)
      PROVE  SInv'
  BY <1>3, SendSInv, FailSInv
<1>4. CASE SenderTimesOut
  BY <1>4, TimeOutSInv
<1>5. ASSUME NEW report \in InFlight,
             \/ DeliverCopy(report)
             \/ \E rtt \in Rtts : DeliverProbeResponse(report, rtt)
             \/ \E picture \in Pictures, loss \in LossesAfter :
                  DeliverPeriodicReport(report, picture, loss)
      PROVE  SInv'
  BY <1>5, CopySInv, ProbeResponseSInv, PeriodicReportSInv
<1>6. ASSUME NEW id \in 0..MaxFrames, NEW last_complete_frame_id \in 0..MaxFrames,
             Report(id, last_complete_frame_id)
      PROVE  SInv'
  BY <1>6, ReportSInv
<1>7. CASE AnswerProbe
  BY <1>7, AnswerProbeSInv
<1>8. CASE Restart
  BY <1>8, RestartSInv
<1>9. CASE UNCHANGED vars
  BY <1>9, StutterSInv
<1> QED BY <1>1, <1>2, <1>3, <1>4, <1>5, <1>6, <1>7, <1>8, <1>9 DEF Next

LEMMA StreamInductive == Spec => []SInv
<1>1. Init => SInv
  BY InitSInv
<1>2. SInv /\ [Next]_vars => SInv'
  BY NextSInv
<1> QED BY <1>1, <1>2, PTL DEF Spec

(* README.md:118-124: a recovery is at Level 8, and the frame an           *)
(* acknowledgement is compared with belongs to the recovery it would end,  *)
(* for any network and any interleaving of the two threads.                *)
THEOREM RecoveryAlwaysRobust == Spec => []RecoveryStaysRobust
<1>1. SInv => RecoveryStaysRobust
  BY DEF SInv, Recovery, RecoveryStaysRobust
<1> QED BY <1>1, StreamInductive, PTL

(* No request for a keyframe is lost between the threads, the source and   *)
(* the socket.                                                             *)
THEOREM OwedAlwaysKnown == Spec => []OwedIsKnown
<1>1. SInv => OwedIsKnown
  BY DEF SInv
<1> QED BY <1>1, StreamInductive, PTL

(* A step that ends a recovery or uses a window is a decision.             *)
LEMMA OnlyByDecision ==
  ASSUME SInv, [Next]_vars, UsedWindow
  PROVE  SenderDecides
<1> USE DEF SInv, Types, UsedWindow, mainVars, recoveryVars, senderVars
<1>1. ASSUME NEW keyframe \in BOOLEAN PROVE ~SenderSends(keyframe)
  BY DEF SenderSends, SendFrame
<1>2. ASSUME NEW keyframe \in BOOLEAN PROVE ~SenderFails(keyframe)
  BY DEF SenderFails, FailToSend
<1>3. ~SenderHasNoFrame /\ ~SenderTimesOut /\ ~Restart /\ ~AnswerProbe
  BY DEF SenderHasNoFrame, NoFrame, SenderTimesOut, FeedbackTimesOut, Restart,
         AnswerProbe, SendReport
<1>4. ASSUME NEW report PROVE ~DeliverCopy(report)
  BY DEF DeliverCopy, ReceiveCopy
<1>5. ASSUME NEW report, NEW rtt PROVE ~DeliverProbeResponse(report, rtt)
  BY DEF DeliverProbeResponse, ReceiveProbeResponse
<1>6. ASSUME NEW report, NEW picture, NEW loss
      PROVE  ~DeliverPeriodicReport(report, picture, loss)
  BY DEF DeliverPeriodicReport, ReceivePeriodicReport
<1>7. ASSUME NEW id, NEW last PROVE ~Report(id, last)
  BY DEF Report, SendReport
<1>8. ~UNCHANGED vars
  BY DEF vars
<1> QED BY <1>1, <1>2, <1>3, <1>4, <1>5, <1>6, <1>7, <1>8 DEF Next

(* README.md:121: a recovery ends only after the receiver has decoded one  *)
(* of its frames, whatever reports are lost, repeated, late or of an       *)
(* earlier receiver.                                                       *)
THEOREM RecoveryExitAlwaysEarned == Spec => RecoveryExitEarned
<1>1. ASSUME SInv, [Next]_vars, recovering, ~recovering'
      PROVE  last_recovery_frame_id # 0 /\ decoded >= last_recovery_frame_id
  <2>1. SenderDecides
    BY <1>1, OnlyByDecision DEF UsedWindow
  <2>2. RecoveryAcknowledged
    BY <1>1, <2>1, DecideRecovery DEF SenderDecides
  <2> QED BY <1>1, <2>2 DEF RecoveryAcknowledged, SInv, Knowledge, Types, Feedbacks
<1>2. SInv /\ [Next]_vars =>
        [recovering /\ ~recovering'
         => last_recovery_frame_id # 0 /\ decoded >= last_recovery_frame_id]_vars
  BY <1>1
<1> QED BY <1>2, StreamInductive, PTL DEF Spec, RecoveryExitEarned

(* development-parameters.yaml:420: neither updates nor exits of a         *)
(* recovery use a window twice.                                            *)
THEOREM WindowAlwaysUsedOnce == Spec => WindowUsedOnce
<1>1. ASSUME SInv, [Next]_vars, UsedWindow
      PROVE  feedback.sequence > adapted
  <2>1. SenderDecides
    BY <1>1, OnlyByDecision
  <2>2. last_adaptation_feedback_sequence < feedback.sequence
    BY <1>1, <2>1, DecideRecovery DEF SenderDecides, UsedWindow
  <2> QED BY <1>1, <2>2 DEF SInv, Windows, Types, Feedbacks
<1>2. SInv /\ [Next]_vars => [UsedWindow => feedback.sequence > adapted]_vars
  BY <1>1
<1> QED BY <1>2, StreamInductive, PTL DEF Spec, WindowUsedOnce

-----------------------------------------------------------------------------
(* Type correctness.  The fields of the ladder are in range by its own     *)
(* invariant (AdaptationProofs), since every step of the stream is one of  *)
(* the ladder's or leaves it alone; its history has no part here.          *)

Ladder == INSTANCE AdaptationProofs
            WITH cause <- 0, sample <- 0, rtt_run <- 0, calm_run <- 0, loss_run <- 0,
                 steady_network <- 0, steady <- 0, elapsed <- 0

LInv ==
  /\ Ladder!IInv
  /\ profile \in Controller!Levels
  /\ recovery_report_baseline <= feedback.complete_report_count

LEMMA SameAssumption == Ladder!AdaptationAssumption
BY LadderAssumption DEF Ladder!AdaptationAssumption, Controller!AdaptationAssumption

LEMMA SameForce == Controller!ForceEmergency <=> Ladder!ForceEmergency
BY DEF Ladder!ForceEmergency, Ladder!ResetRttConfirmation, Ladder!lossVars,
       Controller!ForceEmergency, Controller!ResetRttConfirmation, Controller!lossVars

LEMMA SameVerdict ==
  ASSUME NEW loss, NEW at, NEW candidate, NEW windows, NEW counted
  PROVE  Controller!LossVerdict(loss, at, candidate, windows, counted)
           = Ladder!LossVerdict(loss, at, candidate, windows, counted)
BY DEF Ladder!LossVerdict, Ladder!Confirming, Ladder!Verdict, Ladder!LossRequiredLevel,
       Controller!LossVerdict, Controller!Confirming, Controller!Verdict,
       Controller!LossRequiredLevel

LEMMA SameCap ==
  ASSUME NEW l
  PROVE  Controller!CapLevel(l) = Ladder!CapLevel(l)
BY DEF Ladder!CapLevel, Ladder!Levels, Ladder!BitrateKbps, Ladder!MaxKbps,
       Controller!CapLevel, Controller!Levels, Controller!BitrateKbps, Controller!MaxKbps

LEMMA SameReset ==
  ASSUME NEW network
  PROVE  Controller!ResetToNetwork(network) <=> Ladder!ResetToNetwork(network)
BY SameVerdict, SameCap
   DEF Ladder!ResetToNetwork, Ladder!ResetRttConfirmation, Ladder!ResetLossConfirmation,
       Ladder!adaptationVars, Ladder!rttVars, Ladder!lossVars,
       Controller!ResetToNetwork, Controller!ResetRttConfirmation,
       Controller!ResetLossConfirmation, Controller!adaptationVars,
       Controller!rttVars, Controller!lossVars

LEMMA SameRttVerdict ==
  ASSUME NEW rtt
  PROVE  Controller!RttVerdict(rtt) = Ladder!RttVerdict(rtt)
BY DEF Ladder!RttVerdict, Ladder!RttRequiredLevel, Controller!RttVerdict,
       Controller!RttRequiredLevel

LEMMA SameMove ==
  ASSUME NEW required
  PROVE  /\ Controller!Degrade(required) <=> Ladder!Degrade(required)
         /\ Controller!Recover(required) <=> Ladder!Recover(required)
         /\ Controller!Hold(required) <=> Ladder!Hold(required)
BY DEF Ladder!Degrade, Ladder!Recover, Ladder!Hold,
       Controller!Degrade, Controller!Recover, Controller!Hold

LEMMA SameUpdate ==
  ASSUME NEW network
  PROVE  Controller!Update(network) <=> Ladder!Update(network)
BY SameVerdict, SameRttVerdict, SameMove
   DEF Ladder!Update, Ladder!Larger, Ladder!adaptationVars, Ladder!rttVars,
       Ladder!lossVars, Controller!Update, Controller!Larger,
       Controller!adaptationVars, Controller!rttVars, Controller!lossVars

LEMMA InitLInv == Init => LInv
<1> SUFFICES ASSUME Init PROVE LInv
  OBVIOUS
<1>1. Controller!Init => Ladder!Init
  BY SameCap DEF Controller!Init, Ladder!Init
<1>2. Ladder!IInv
  BY <1>1, SameAssumption, Ladder!InitIInv DEF Init, SenderInit
<1>3. profile \in Controller!Levels
  BY <1>2 DEF Init, SenderInit, Ladder!IInv, Ladder!TypeOK, Ladder!Levels,
              Controller!Levels
<1> QED BY <1>2, <1>3 DEF Init, SenderInit, LInv

\* What leaves the controller alone leaves its invariant.
LEMMA LadderRests ==
  ASSUME Ladder!IInv, UNCHANGED controllerVars
  PROVE  Ladder!IInv'
BY DEF controllerVars, Ladder!IInv, Ladder!TypeOK, Ladder!LossConfirmationConsistent,
       Ladder!RttFloorHeld

LEMMA LadderForced ==
  ASSUME Ladder!IInv, Controller!ForceEmergency
  PROVE  Ladder!IInv'
BY SameAssumption, SameForce, Ladder!ForceIInv

\* The decision gives the ladder a window of the feedback, if any.
LEMMA LadderDecides ==
  ASSUME SInv, Ladder!IInv, Decide
  PROVE  Ladder!IInv'
<1>1. ASSUME feedback.loss \in Losses PROVE Window \in Ladder!Networks
  BY <1>1 DEF SInv, Types, Feedbacks, Window, Ladder!Networks
<1>2. CASE EnterRecovery
  BY <1>2, LadderForced DEF EnterRecovery
<1>3. CASE ExitRecovery
  <2>1. Window \in Ladder!Networks /\ Controller!ResetToNetwork(Window)
    BY <1>1, <1>3 DEF ExitRecovery, RecoveryAcknowledged
  <2> QED BY <2>1, SameReset, SameAssumption, Ladder!ResetIInv
<1>4. CASE StayInRecovery \/ KeepProfile
  BY <1>4, LadderRests DEF StayInRecovery, KeepProfile
<1>5. CASE Adapt
  <2>1. Window \in Ladder!Networks /\ Controller!Update(Window)
    BY <1>1, <1>5 DEF Adapt, NewWindow
  <2> QED BY <2>1, SameUpdate, SameAssumption, Ladder!UpdateIInv
<1> QED BY <1>2, <1>3, <1>4, <1>5 DEF Decide

LEMMA DecideLInv ==
  ASSUME SInv, LInv, SenderDecides
  PROVE  LInv'
<1>1. Ladder!IInv'
  BY LadderDecides DEF SenderDecides, LInv
<1>2. level' \in Controller!Levels
  BY <1>1 DEF Ladder!IInv, Ladder!TypeOK, Ladder!Levels, Controller!Levels
<1>3. profile' \in Controller!Levels
  BY <1>2 DEF SenderDecides, Decide, Controller!Levels
<1>4. feedback' = feedback /\ feedback.complete_report_count \in Nat
  BY DEF SenderDecides, Decide, SInv, Types, Feedbacks
<1>5. recovery_report_baseline' \in
        {recovery_report_baseline, feedback.complete_report_count}
  BY DecideRecovery DEF SenderDecides
<1> QED BY <1>1, <1>3, <1>4, <1>5 DEF LInv, Controller!Levels

LEMMA SendLInv ==
  ASSUME SInv, LInv, NEW keyframe, SenderSends(keyframe) \/ SenderFails(keyframe)
  PROVE  LInv'
<1>1. PICK snapshot \in held :
        recovery_report_baseline' \in
          {recovery_report_baseline, snapshot.complete_report_count}
  BY DEF SenderSends, SenderFails, SendFrame, FailToSend, recoveryVars
<1>2. /\ snapshot.complete_report_count <= feedback.complete_report_count
      /\ feedback' = feedback
  BY DEF SenderSends, SenderFails, SendFrame, FailToSend, SInv, Windows, NewerThan
<1>3. Ladder!IInv' /\ profile' \in Controller!Levels
  <2>1. CASE UNCHANGED <<controllerVars, profile>>
    BY <2>1, LadderRests DEF LInv, Controller!Levels
  <2>2. CASE Controller!ForceEmergency /\ profile' = level'
    <3>1. Ladder!IInv'
      BY <2>2, LadderForced DEF LInv
    <3> QED BY <2>2, <3>1 DEF Ladder!IInv, Ladder!TypeOK, Ladder!Levels, Controller!Levels
  <2> QED BY <2>1, <2>2 DEF SenderSends, SenderFails, SendFrame, FailToSend
<1> QED BY <1>1, <1>2, <1>3 DEF LInv, Controller!Levels

\* No other step touches the ladder, the profile or the baseline.
LEMMA OtherLInv ==
  ASSUME SInv, LInv, UNCHANGED <<controllerVars, profile, recoveryVars>>,
         feedback.complete_report_count <= feedback'.complete_report_count,
         feedback'.complete_report_count \in Nat
  PROVE  LInv'
<1>1. Ladder!IInv'
  BY LadderRests DEF LInv
<1>2. recovery_report_baseline' <= feedback'.complete_report_count
  BY DEF SInv, Types, Feedbacks, LInv, recoveryVars
<1> QED BY <1>1, <1>2 DEF LInv, Controller!Levels

LEMMA NextLInv ==
  ASSUME SInv, LInv, [Next]_vars
  PROVE  LInv'
<1> DEFINE Counted ==
      feedback.complete_report_count <= feedback'.complete_report_count
<1>1. CASE SenderDecides
  BY <1>1, DecideLInv
<1>2. ASSUME NEW keyframe \in BOOLEAN, SenderSends(keyframe) \/ SenderFails(keyframe)
      PROVE  LInv'
  BY <1>2, SendLInv
<1>3. feedback'.complete_report_count \in Nat
  BY NextSInv DEF SInv, Types, Feedbacks
<1>4. feedback \in Feedbacks
  BY DEF SInv, Types
<1>5. CASE UNCHANGED <<controllerVars, profile, recoveryVars, feedback>>
  BY <1>3, <1>4, <1>5, OtherLInv DEF Feedbacks
<1>6. SenderHasNoFrame \/ AnswerProbe \/ Restart \/ UNCHANGED vars
        => UNCHANGED <<controllerVars, profile, recoveryVars, feedback>>
  BY DEF SenderHasNoFrame, NoFrame, AnswerProbe, SendReport, Restart, vars, senderVars,
         mainVars
<1>7. ASSUME NEW id, NEW last, Report(id, last)
      PROVE  UNCHANGED <<controllerVars, profile, recoveryVars, feedback>>
  BY <1>7 DEF Report, SendReport, senderVars, mainVars
<1>8. CASE SenderTimesOut
  <2>1. Counted
    BY <1>4, <1>8 DEF SenderTimesOut, FeedbackTimesOut, Feedbacks
  <2> QED BY <1>3, <1>8, <2>1, OtherLInv DEF SenderTimesOut, FeedbackTimesOut, mainVars
<1>9. ASSUME NEW report \in InFlight, DeliverCopy(report)
      PROVE  LInv'
  <2>1. Counted
    BY <1>4, <1>9 DEF DeliverCopy, ReceiveCopy, Heard, Feedbacks
  <2> QED BY <1>3, <1>9, <2>1, OtherLInv DEF DeliverCopy, ReceiveCopy, mainVars
<1>10. ASSUME NEW report \in InFlight, NEW rtt \in Rtts, DeliverProbeResponse(report, rtt)
       PROVE  LInv'
  <2>1. Counted
    BY <1>4, <1>10 DEF DeliverProbeResponse, ReceiveProbeResponse, Heard, Feedbacks
  <2> QED BY <1>3, <1>10, <2>1, OtherLInv
         DEF DeliverProbeResponse, ReceiveProbeResponse, mainVars
<1>11. ASSUME NEW report \in InFlight, NEW picture \in Pictures, NEW loss \in LossesAfter,
              DeliverPeriodicReport(report, picture, loss)
       PROVE  LInv'
  <2>1. Counted
    BY <1>4, <1>11 DEF DeliverPeriodicReport, ReceivePeriodicReport, Heard, Feedbacks
  <2> QED BY <1>3, <1>11, <2>1, OtherLInv
         DEF DeliverPeriodicReport, ReceivePeriodicReport, mainVars
<1> QED BY <1>1, <1>2, <1>5, <1>6, <1>7, <1>8, <1>9, <1>10, <1>11 DEF Next

(* The ladder keeps its types and the sender its orders, whatever reports  *)
(* come (sender.cpp:123-381, 655-820).                                     *)
THEOREM StreamTypes == Spec => []TypeOK
<1>1. Spec => []LInv
  BY InitLInv, NextLInv, StreamInductive, PTL DEF Spec
<1>2. SInv /\ LInv => TypeOK
  <2> SUFFICES ASSUME SInv, LInv PROVE TypeOK
    OBVIOUS
  <2>1. Controller!TypeOK
    BY DEF LInv, Ladder!IInv, Ladder!TypeOK, Ladder!Levels, Controller!TypeOK,
           Controller!Levels
  <2>2. feedback.loss \in Losses \cup {NoLoss} /\ feedback.rtt \in Rtts
    BY DEF SInv, Types, Feedbacks
  <2> QED BY <2>1, <2>2 DEF SInv, Knowledge, Windows, LInv, TypeOK
<1> QED BY <1>1, <1>2, StreamInductive, PTL
=============================================================================
