--------------------------- MODULE SrtSessionProofs ---------------------------
(***************************************************************************)
(* The safety properties of SrtSession for any number of connections,      *)
(* frames, reports and profiles.  The invariant has a part for each side:  *)
(* what the encoder refers to, which connections there are, what the       *)
(* network holds, where the gate stands, what the loss batches count and   *)
(* what the reports say.                                                   *)
(***************************************************************************)
EXTENDS SrtSession, SequenceTheorems, FiniteSetTheorems, TLAPS

Keys == [connection : Nat \ {0}, epoch : Nat, frame_id : Nat]

\* The key of the frame before.
Before(key) == [key EXCEPT !.frame_id = @ - 1]

\* The key of the frame the encoder encoded last.
EncodedKey ==
  [connection |-> connection, epoch |-> connection * EpochBase + encoder.epoch,
   frame_id |-> frame_id - 1]

SenderTyped ==
  /\ connection \in Nat
  /\ connection_epoch \in Nat
  /\ connection <= connection_epoch
  /\ frame_id \in Nat \ {0}
  /\ profile \in Profiles
  /\ encoder \in [epoch : Nat, last : SUBSET [profile : Profiles, key : Keys]]
  /\ network_report_sequence \in Nat

\* Where no keyframe is asked for, the encoder refers to the frame before, and
\* that was sent in full.
EncoderInv ==
  connection # 0 /\ ~keyframe_requested =>
    last_sent = {EncodedKey} /\ \A last \in encoder.last : last.key = EncodedKey

\* The connection that is served, the one that waits, and the sender's.
ConnectionsInv ==
  /\ serving \in Nat
  /\ serving <= connection_epoch
  /\ backlog \subseteq Nat
  /\ \A c \in backlog : serving < c /\ c <= connection_epoch
  /\ \A c, d \in backlog : c = d

\* A key is of a connection that was opened, and of a frame that was encoded.
Used(key) ==
  /\ key \in Keys
  /\ key.connection <= connection_epoch
  /\ key.connection = connection => key.frame_id < frame_id

\* A frame on its way is of a connection the receiver still has, no other frame
\* has its key, and it was predicted from the frame before.
MediaInv ==
  /\ IsFiniteSet(media)
  /\ \A frame \in media :
       /\ Used(frame.key)
       /\ frame.key.connection \in {serving} \cup backlog
       /\ frame.keyframe \in BOOLEAN
       /\ frame.keyframe \/ frame.reference = {Before(frame.key)}
  /\ \A frame, other \in media : frame.key = other.key => frame = other

Gates == [synchronized : BOOLEAN, keyframe_request_pending : BOOLEAN,
          have_decoded_frame_id : BOOLEAN, stream_epoch : Nat,
          last_decoded_frame_id : Nat, references : SUBSET Keys]

LastKey(g, c) ==
  [connection |-> c, epoch |-> g.stream_epoch, frame_id |-> g.last_decoded_frame_id]

\* A gate that follows connection c: the decoder refers to the last frame.
Follows(g, c) ==
  g.synchronized => g.have_decoded_frame_id /\ g.references = {LastKey(g, c)}

\* What was decoded does not come again.
GateInv ==
  /\ gate \in Gates
  /\ serving # 0 => Follows(gate, serving)
  /\ \A key \in gate.references : Used(key) /\ \A frame \in media : frame.key # key

\* A batch that counts losses of a stall is dropped when the stall ends.
StatisticsInv ==
  /\ estimator \subseteq [resolved : Nat, lost : Nat, stalled : BOOLEAN]
  /\ quiet \in 0..StallTicks
  /\ receive_stalled \in BOOLEAN
  /\ \A batch \in estimator : batch.stalled => progress /\ receive_stalled
  /\ \A batch \in reliable_loss : ~batch.stalled

\* What is on its way, and what the sender took, is what was reported.
ReportsInv ==
  /\ sent_reports \in Seq(0..100)
  /\ \A batch \in reliable_loss : batch.loss \in 0..100
  /\ \A report \in reports :
       /\ report.sequence \in 1..Len(sent_reports)
       /\ report.loss = sent_reports[report.sequence]
  /\ connection # 0 /\ network_report_sequence > 0 =>
       /\ connection \notin backlog
       /\ connection = serving =>
            /\ network_report_sequence <= Len(sent_reports)
            /\ receiver_loss = {sent_reports[network_report_sequence]}

IInv ==
  /\ SenderTyped
  /\ EncoderInv
  /\ ConnectionsInv
  /\ MediaInv
  /\ GateInv
  /\ StatisticsInv
  /\ ReportsInv

LEMMA InitIInv == Init => IInv
<1> SUFFICES ASSUME Init PROVE IInv
  OBVIOUS
<1> USE DEF Init
<1>1. SenderTyped /\ EncoderInv /\ ConnectionsInv
  BY DEF SenderTyped, EncoderInv, ConnectionsInv
<1>2. MediaInv
  BY FS_EmptySet DEF MediaInv
<1>3. GateInv
  BY DEF GateInv, Gates, Follows, InitialGate
<1>4. StatisticsInv
  <2>1. quiet \in 0..StallTicks
    BY SessionAssumption
  <2>2. receive_stalled \in BOOLEAN
    BY Zenon
  <2> QED
    BY <2>1, <2>2 DEF StatisticsInv
<1>5. ReportsInv
  <2>1. sent_reports \in Seq(0..100)
    OBVIOUS
  <2>2. connection = 0
    OBVIOUS
  <2> QED
    BY <2>1, <2>2 DEF ReportsInv
<1> QED
  BY <1>1, <1>2, <1>3, <1>4, <1>5 DEF IInv

-----------------------------------------------------------------------------
(* The sender. *)

\* The frames encoded now.
LEMMA EncodedFrame ==
  ASSUME SenderTyped, EncoderInv, Encode, NEW frame \in EncodedFrames
  PROVE  /\ frame.key = Key
         /\ frame.keyframe \in BOOLEAN
         /\ ~frame.keyframe =>
              last_sent = {EncodedKey} /\ frame.reference = {EncodedKey}
                /\ EncodedKey = Before(Key)
<1>1. PICK keyframe \in IF keyframe_requested \/ profile \in IntraProfiles \/ Reopens
                        THEN {TRUE} ELSE BOOLEAN :
        frame = [key |-> Key, keyframe |-> keyframe,
                 reference |-> IF keyframe THEN {} ELSE {last.key : last \in encoder.last}]
  BY DEF EncodedFrames
<1>2. frame.key = Key /\ frame.keyframe \in BOOLEAN
  BY <1>1
<1>3. ASSUME ~frame.keyframe
      PROVE  last_sent = {EncodedKey} /\ frame.reference = {EncodedKey}
               /\ EncodedKey = Before(Key)
  <2>1. ~keyframe_requested /\ ~Reopens /\ frame.reference = {last.key : last \in encoder.last}
    BY <1>1, <1>3
  <2>2. encoder.last # {} /\ Epoch = encoder.epoch
    BY <2>1 DEF Reopens, Epoch
  <2>3. last_sent = {EncodedKey} /\ \A last \in encoder.last : last.key = EncodedKey
    BY <2>1 DEF EncoderInv, Encode
  <2>4. EncodedKey = Before(Key)
    BY <2>2 DEF EncodedKey, Before, Key, SenderTyped
  <2> QED
    BY <2>1, <2>2, <2>3, <2>4
<1> QED
  BY <1>2, <1>3

\* What encoding leaves.
LEMMA EncodeEffect ==
  ASSUME SenderTyped, Encode
  PROVE  /\ Key \in Keys
         /\ encoder' \in [epoch : Nat, last : SUBSET [profile : Profiles, key : Keys]]
         /\ UNCHANGED connection /\ frame_id' = frame_id + 1 => {Key} = {EncodedKey'}
         /\ \A last \in encoder'.last : last.key = Key
<1>1. Epoch \in Nat
  BY DEF Epoch, SenderTyped
<1>2. Key \in Keys
  BY <1>1, SessionAssumption DEF Key, Keys, Encode, SenderTyped
<1>3. encoder' = [epoch |-> Epoch, last |-> {[profile |-> profile, key |-> Key]}]
  BY DEF Encode
<1>4. encoder' \in [epoch : Nat, last : SUBSET [profile : Profiles, key : Keys]]
  BY <1>1, <1>2, <1>3 DEF SenderTyped
<1>5. ASSUME UNCHANGED connection, frame_id' = frame_id + 1
      PROVE  Key = EncodedKey'
  BY <1>3, <1>5 DEF Key, EncodedKey, SenderTyped
<1>6. \A last \in encoder'.last : last.key = Key
  BY <1>3
<1> QED
  BY <1>2, <1>4, <1>5, <1>6

LEMMA SelectedProfile ==
  ASSUME NEW losses
  PROVE  Selected(losses) \subseteq Profiles
BY SessionAssumption DEF Selected

LEMMA SenderStep ==
  ASSUME IInv, [Next]_vars
  PROVE  SenderTyped' /\ EncoderInv'
<1> USE DEF IInv
<1>1. CASE Connect
  BY <1>1 DEF Connect, NextEpoch, AskForKeyframe, ResetSequence, SenderTyped, EncoderInv
<1>2. ASSUME NEW report \in reports, TakeReport(report)
      PROVE  SenderTyped' /\ EncoderInv'
  <2>1. network_report_sequence' \in Nat
    BY <1>2 DEF TakeReport, ReportsInv, SenderTyped
  <2> QED
    BY <1>2, <2>1 DEF TakeReport, SenderTyped, EncoderInv, EncodedKey
<1>3. CASE LossAges
  BY <1>3 DEF LossAges, SenderTyped, EncoderInv, EncodedKey
<1>4. CASE SendFrame
  <2>1. /\ UNCHANGED <<connection, connection_epoch, network_report_sequence>>
        /\ frame_id' = frame_id + 1 /\ last_sent' = {Key} /\ Encode
        /\ profile' \in Profiles
    BY <1>4, SelectedProfile DEF SendFrame, Statistics, SenderTyped
  <2> QED
    BY <2>1, EncodeEffect DEF SenderTyped, EncoderInv
<1>5. CASE SplitFails
  <2>1. /\ UNCHANGED <<connection, connection_epoch, network_report_sequence>>
        /\ frame_id' = frame_id + 1 /\ Encode
        /\ profile' \in Profiles
        /\ keyframe_requested'
    BY <1>5, SelectedProfile DEF SplitFails, Statistics, SenderTyped
  <2> QED
    BY <2>1, EncodeEffect DEF SenderTyped, EncoderInv
<1>6. CASE SendBlocked
  <2>1. /\ UNCHANGED <<connection, connection_epoch, network_report_sequence>>
        /\ frame_id' = frame_id + 1 /\ Encode
        /\ profile' \in Profiles
        /\ keyframe_requested'
    BY <1>6, SelectedProfile DEF SendBlocked, AskForKeyframe
  <2> QED
    BY <2>1, EncodeEffect DEF SenderTyped, EncoderInv
<1>7. CASE NoFrame
  BY <1>7 DEF NoFrame, AskForKeyframe, SenderTyped, EncoderInv
<1>8. CASE SenderCloses
  <2>1. /\ UNCHANGED <<connection_epoch, profile, network_report_sequence>>
        /\ connection' = 0 /\ frame_id' = 1 /\ (UNCHANGED encoder \/ Encode)
    BY <1>8 DEF SenderCloses
  <2> QED
    BY <2>1, EncodeEffect DEF SenderTyped, EncoderInv
<1>9. CASE UNCHANGED senderVars
  BY <1>9 DEF senderVars, SenderTyped, EncoderInv, EncodedKey
<1>10. CASE UNCHANGED vars
  BY <1>9, <1>10 DEF vars
<1>11. ASSUME NEW frame \in media, (\E ok \in BOOLEAN : Receive(frame, ok)) \/ Discard(frame)
       PROVE  UNCHANGED senderVars
  BY <1>11 DEF Receive, Discard
<1>12. Accept \/ PeerGone \/ ConnectionBreaks \/ ReceiverStatistics => UNCHANGED senderVars
  BY DEF Accept, PeerGone, ConnectionBreaks, StopServing, ReceiverStatistics
<1>13. CASE ConnectFails
  BY <1>10, <1>13 DEF ConnectFails
<1> QED
  BY <1>1, <1>2, <1>3, <1>4, <1>5, <1>6, <1>7, <1>8, <1>9, <1>10, <1>11, <1>12, <1>13 DEF Next

\* The steps that leave the connections alone.
LEMMA ConnectionsStay ==
  ASSUME [Next]_vars
  PROVE  \/ Connect \/ SenderCloses \/ Accept
         \/ StopServing /\ (PeerGone \/ ConnectionBreaks)
         \/ UNCHANGED <<connection, connection_epoch, serving, backlog>>
<1>1. ASSUME NEW report \in reports, TakeReport(report)
      PROVE  UNCHANGED <<connection, connection_epoch, serving, backlog>>
  BY <1>1 DEF TakeReport, receiverVars
<1>2. ASSUME NEW frame \in media, (\E ok \in BOOLEAN : Receive(frame, ok)) \/ Discard(frame)
      PROVE  UNCHANGED <<connection, connection_epoch, serving, backlog>>
  BY <1>2 DEF Receive, Discard, senderVars
<1>3. LossAges \/ SendFrame \/ SplitFails \/ SendBlocked \/ NoFrame \/ ReceiverStatistics
        => UNCHANGED <<connection, connection_epoch, serving, backlog>>
  BY DEF LossAges, SendFrame, SplitFails, SendBlocked, NoFrame, ReceiverStatistics,
         senderVars, receiverVars
<1>4. ConnectFails \/ UNCHANGED vars
        => UNCHANGED <<connection, connection_epoch, serving, backlog>>
  BY DEF ConnectFails, vars, senderVars, receiverVars
<1> QED
  BY <1>1, <1>2, <1>3, <1>4 DEF Next, PeerGone, ConnectionBreaks

LEMMA ConnectionsStep ==
  ASSUME IInv, [Next]_vars
  PROVE  ConnectionsInv'
<1> USE DEF IInv, ConnectionsInv, SenderTyped
<1>1. CASE Connect
  BY <1>1 DEF Connect, NextEpoch
<1>2. CASE SenderCloses
  BY <1>2 DEF SenderCloses, receiverVars
<1>3. CASE Accept
  BY <1>3 DEF Accept, senderVars
<1>4. CASE StopServing
  BY <1>4 DEF StopServing, senderVars
<1>5. CASE UNCHANGED <<connection, connection_epoch, serving, backlog>>
  BY <1>5
<1> QED
  BY <1>1, <1>2, <1>3, <1>4, <1>5, ConnectionsStay

-----------------------------------------------------------------------------
(* The statistics and the reports. *)

Batches == [resolved : Nat, lost : Nat, stalled : BOOLEAN]

LEMMA CountEffect ==
  ASSUME StatisticsInv, NEW lost \in Nat, Count(lost),
         UNCHANGED <<quiet, receive_stalled, reliable_loss>>
  PROVE  StatisticsInv'
<1>1. /\ \A batch \in estimator' : batch \in Batches
      /\ \A batch \in estimator' : batch.stalled => receive_stalled
  <2> SUFFICES ASSUME NEW batch \in estimator'
               PROVE  batch \in Batches /\ (batch.stalled => receive_stalled)
    OBVIOUS
  <2>1. PICK e \in estimator :
          batch = [resolved |-> e.resolved + 1, lost |-> e.lost + lost,
                   stalled |-> e.stalled \/ (lost > 0 /\ receive_stalled)]
    BY DEF Count
  <2>2. e.resolved \in Nat /\ e.lost \in Nat /\ (e.stalled => receive_stalled)
    BY DEF StatisticsInv
  <2>3. (e.stalled \/ (lost > 0 /\ receive_stalled)) \in BOOLEAN
    OBVIOUS
  <2>4. batch.stalled => e.stalled \/ (lost > 0 /\ receive_stalled)
    BY <2>1
  <2> QED
    BY <2>1, <2>2, <2>3, <2>4 DEF Batches
<1>2. progress'
  BY DEF Count
<1> QED
  BY <1>1, <1>2 DEF StatisticsInv, Batches

\* The batch the update finds is empty or counts no stall.
LEMMA BaselineEffect ==
  ASSUME StatisticsInv, NEW batch \in BaselineAfterStall
  PROVE  batch \in Batches /\ ~batch.stalled
<1>1. CASE estimator = {} \/ (progress /\ receive_stalled)
  <2>1. batch = [resolved |-> 0, lost |-> 0, stalled |-> FALSE]
    BY <1>1 DEF BaselineAfterStall
  <2>2. FALSE \in BOOLEAN
    OBVIOUS
  <2> QED
    BY <2>1, <2>2, Zenon DEF Batches
<1>2. CASE ~(estimator = {} \/ (progress /\ receive_stalled))
  BY <1>2 DEF BaselineAfterStall, StatisticsInv, Batches
<1> QED
  BY <1>1, <1>2

LEMMA LossPercentType ==
  ASSUME NEW batch \in Batches, batch.resolved >= MinResolved
  PROVE  LossPercent(batch) \in 0..100
<1>1. batch.resolved \in Nat \ {0} /\ batch.lost \in Nat
  BY SessionAssumption DEF Batches
<1>2. (batch.lost * 100) \div batch.resolved \in Nat
  BY <1>1
<1> QED
  BY <1>2 DEF LossPercent

\* What the update leaves of the batch.
LEMMA UpdateEffect ==
  ASSUME StatisticsInv, NEW batch \in BaselineAfterStall, UpdateEstimate(batch)
  PROVE  /\ \A b \in estimator' : b \in Batches /\ ~b.stalled
         /\ \A b \in reliable_loss' :
              b \in reliable_loss \/ (b.loss \in 0..100 /\ ~b.stalled)
<1>1. batch \in Batches /\ ~batch.stalled
  BY BaselineEffect
<1>2. CASE batch.resolved < MinResolved
  BY <1>1, <1>2 DEF UpdateEstimate
<1>3. CASE ~(batch.resolved < MinResolved)
  <2>1. /\ estimator' = {[resolved |-> 0, lost |-> 0, stalled |-> FALSE]}
        /\ reliable_loss' = {[loss |-> LossPercent(batch), stalled |-> batch.stalled]}
    BY <1>3 DEF UpdateEstimate
  <2>2. [resolved |-> 0, lost |-> 0, stalled |-> FALSE] \in Batches
    BY Zenon DEF Batches
  <2>3. LossPercent(batch) \in 0..100
    <3>1. batch.resolved >= MinResolved
      BY <1>1, <1>3, SessionAssumption DEF Batches
    <3> QED
      BY <1>1, <3>1, LossPercentType
  <2> QED
    BY <1>1, <2>1, <2>2, <2>3
<1> QED
  BY <1>2, <1>3

LEMMA StatisticsTick ==
  ASSUME StatisticsInv, ReceiverStatistics
  PROVE  StatisticsInv'
<1>1. PICK batch \in BaselineAfterStall : UpdateEstimate(batch)
  BY DEF ReceiverStatistics
<1>2. /\ \A b \in estimator' : b \in Batches /\ ~b.stalled
      /\ \A b \in reliable_loss' : b \in reliable_loss \/ ~b.stalled
  BY <1>1, UpdateEffect
<1>3. quiet' \in 0..StallTicks
  BY SessionAssumption DEF ReceiverStatistics, StatisticsInv
<1>4. receive_stalled' \in BOOLEAN
  <2>1. StallsNow \in BOOLEAN /\ FALSE \in BOOLEAN
    BY DEF StallsNow
  <2> QED
    BY <2>1, Zenon DEF ReceiverStatistics
<1> QED
  BY <1>2, <1>3, <1>4 DEF StatisticsInv, Batches

\* The steps that leave the receiver's statistics alone.
LEMMA StatisticsStep ==
  ASSUME IInv, [Next]_vars
  PROVE  StatisticsInv'
<1> USE DEF IInv
<1>1. CASE UNCHANGED statisticsVars
  BY <1>1 DEF statisticsVars, StatisticsInv
<1>2. CASE StopServing
  <2>1. FALSE \in BOOLEAN /\ 0 \in 0..StallTicks
    BY SessionAssumption
  <2>2. receive_stalled' \in BOOLEAN
    BY <1>2, <2>1, Zenon DEF StopServing
  <2> QED
    BY <1>2, <2>1, <2>2 DEF StopServing, StatisticsInv
<1>3. CASE ReceiverStatistics
  BY <1>3, StatisticsTick
<1>4. ASSUME NEW frame \in media, NEW ok \in BOOLEAN, Receive(frame, ok)
      PROVE  StatisticsInv'
  <2>1. Cardinality(Missing(frame)) \in Nat
    <3>1. Missing(frame) \in SUBSET media
      BY DEF Missing
    <3> QED
      BY <3>1, FS_Subset, FS_CardinalityType DEF MediaInv
  <2>2. PICK lost \in Nat : Count(lost)
    BY <1>4, <2>1 DEF Receive
  <2> QED
    BY <1>4, <2>2, CountEffect DEF Receive
<1>5. ASSUME NEW frame \in media, Discard(frame)
      PROVE  StatisticsInv'
  BY <1>5, CountEffect DEF Discard
<1>6. ASSUME NEW report \in reports, TakeReport(report)
      PROVE  UNCHANGED statisticsVars
  BY <1>6 DEF TakeReport, receiverVars
<1>7. \/ Connect \/ LossAges \/ SendFrame \/ SplitFails \/ SendBlocked \/ NoFrame
      \/ SenderCloses \/ Accept
      => UNCHANGED statisticsVars
  BY DEF Connect, LossAges, SendFrame, SplitFails, SendBlocked, NoFrame, SenderCloses,
         Accept, receiverVars
<1>8. ConnectFails \/ UNCHANGED vars => UNCHANGED statisticsVars
  BY DEF ConnectFails, vars, receiverVars
<1> QED
  BY <1>1, <1>2, <1>3, <1>4, <1>5, <1>6, <1>7, <1>8 DEF Next, PeerGone, ConnectionBreaks

\* One report more, or none, and what was reported stays.
LEMMA ReportEffect ==
  ASSUME ReportsInv, SendReport,
         \A batch \in reliable_loss' : batch.loss \in 0..100
  PROVE  /\ sent_reports' \in Seq(0..100)
         /\ Len(sent_reports') \in Nat /\ Len(sent_reports) \in Nat
         /\ Len(sent_reports) <= Len(sent_reports')
         /\ \A i \in 1..Len(sent_reports) : sent_reports'[i] = sent_reports[i]
         /\ \A report \in reports' :
              /\ report.sequence \in 1..Len(sent_reports')
              /\ report.loss = sent_reports'[report.sequence]
<1>1. sent_reports \in Seq(0..100) /\ Len(sent_reports) \in Nat
  BY DEF ReportsInv
<1>2. CASE ReportedLoss = {}
  BY <1>1, <1>2 DEF SendReport, ReportsInv
<1>3. CASE ReportedLoss # {}
  <2>1. PICK loss \in ReportedLoss :
          /\ sent_reports' = Append(sent_reports, loss)
          /\ reports' = reports \cup
               {[sequence |-> Len(sent_reports) + 1, loss |-> loss]}
    BY <1>3 DEF SendReport
  <2>2. loss \in 0..100
    BY DEF ReportedLoss
  <2>3. /\ sent_reports' \in Seq(0..100)
        /\ Len(sent_reports') = Len(sent_reports) + 1
        /\ \A i \in 1..Len(sent_reports) : sent_reports'[i] = sent_reports[i]
        /\ sent_reports'[Len(sent_reports) + 1] = loss
    BY <1>1, <2>1, <2>2
  <2>4. ASSUME NEW report \in reports'
        PROVE  /\ report.sequence \in 1..Len(sent_reports')
               /\ report.loss = sent_reports'[report.sequence]
    <3>1. CASE report \in reports
      BY <1>1, <2>3, <3>1 DEF ReportsInv
    <3>2. CASE report = [sequence |-> Len(sent_reports) + 1, loss |-> loss]
      BY <1>1, <2>3, <3>2
    <3> QED
      BY <2>1, <3>1, <3>2
  <2> QED
    BY <1>1, <2>3, <2>4
<1> QED
  BY <1>2, <1>3

LEMMA ReportsStep ==
  ASSUME IInv, [Next]_vars
  PROVE  ReportsInv'
<1> USE DEF IInv
<1>1. CASE UNCHANGED <<connection, network_report_sequence, receiver_loss, reports, serving,
                       backlog, sent_reports, reliable_loss>>
  BY <1>1 DEF ReportsInv
<1>2. CASE Connect
  BY <1>2 DEF Connect, ResetSequence, statisticsVars, ReportsInv
<1>3. ASSUME NEW report \in reports, TakeReport(report)
      PROVE  ReportsInv'
  <2>1. /\ connection # 0 /\ connection = serving /\ reports' = reports \ {report}
        /\ UNCHANGED <<connection, serving, backlog, sent_reports, reliable_loss>>
    BY <1>3 DEF TakeReport, receiverVars, statisticsVars
  <2>2. connection \notin backlog
    BY <2>1 DEF ConnectionsInv
  <2>3. CASE report.sequence > network_report_sequence
    <3>1. network_report_sequence' = report.sequence /\ receiver_loss' = {report.loss}
      BY <1>3, <2>3 DEF TakeReport
    <3> QED
      BY <2>1, <2>2, <3>1 DEF ReportsInv
  <2>4. CASE ~(report.sequence > network_report_sequence)
    BY <1>3, <2>1, <2>2, <2>4 DEF TakeReport, ReportsInv
  <2> QED
    BY <2>3, <2>4
<1>4. CASE SenderCloses
  BY <1>4 DEF SenderCloses, receiverVars, statisticsVars, ReportsInv
<1>5. CASE Accept
  BY <1>5 DEF Accept, senderVars, statisticsVars, ReportsInv
<1>6. CASE StopServing
  <2>1. <<>> \in Seq(0..100)
    OBVIOUS
  <2>2. /\ UNCHANGED <<connection, network_report_sequence, backlog>>
        /\ serving' = 0 /\ reports' = {} /\ sent_reports' = <<>> /\ reliable_loss' = {}
    BY <1>6 DEF StopServing, senderVars
  <2> QED
    BY <2>1, <2>2 DEF ReportsInv
<1>7. CASE ReceiverStatistics
  <2>1. PICK batch \in BaselineAfterStall : UpdateEstimate(batch)
    BY <1>7 DEF ReceiverStatistics
  <2>2. \A b \in reliable_loss' : b.loss \in 0..100
    BY <2>1, UpdateEffect DEF ReportsInv
  <2>3. /\ SendReport
        /\ UNCHANGED <<connection, network_report_sequence, receiver_loss, serving, backlog>>
    BY <1>7 DEF ReceiverStatistics, senderVars
  <2>4. /\ sent_reports' \in Seq(0..100)
        /\ Len(sent_reports') \in Nat /\ Len(sent_reports) \in Nat
        /\ Len(sent_reports) <= Len(sent_reports')
        /\ \A i \in 1..Len(sent_reports) : sent_reports'[i] = sent_reports[i]
        /\ \A report \in reports' :
             /\ report.sequence \in 1..Len(sent_reports')
             /\ report.loss = sent_reports'[report.sequence]
    BY <2>2, <2>3, ReportEffect
  <2>5. ASSUME connection # 0, network_report_sequence > 0
        PROVE  /\ connection \notin backlog
               /\ connection = serving =>
                    /\ network_report_sequence <= Len(sent_reports')
                    /\ receiver_loss = {sent_reports'[network_report_sequence]}
    <3>1. /\ connection \notin backlog
          /\ connection = serving =>
               /\ network_report_sequence <= Len(sent_reports)
               /\ receiver_loss = {sent_reports[network_report_sequence]}
      BY <2>5 DEF ReportsInv
    <3>2. network_report_sequence <= Len(sent_reports) =>
            network_report_sequence \in 1..Len(sent_reports)
      BY <2>4, <2>5 DEF SenderTyped
    <3> QED
      BY <2>4, <3>1, <3>2 DEF SenderTyped
  <2> QED
    BY <2>2, <2>3, <2>4, <2>5 DEF ReportsInv
<1>8. ASSUME NEW frame \in media, (\E ok \in BOOLEAN : Receive(frame, ok)) \/ Discard(frame)
      PROVE  ReportsInv'
  BY <1>1, <1>8 DEF Receive, Discard, senderVars
<1>9. CASE LossAges \/ SendFrame \/ SplitFails \/ SendBlocked \/ NoFrame
  BY <1>1, <1>9 DEF LossAges, SendFrame, SplitFails, SendBlocked, NoFrame, receiverVars,
                    statisticsVars
<1>10. CASE ConnectFails \/ UNCHANGED vars
  BY <1>1, <1>10 DEF ConnectFails, vars, senderVars, receiverVars, statisticsVars
<1> QED
  BY <1>2, <1>3, <1>4, <1>5, <1>6, <1>7, <1>8, <1>9, <1>10 DEF Next, PeerGone, ConnectionBreaks

-----------------------------------------------------------------------------
(* The gate. *)

LEMMA FreezeEffect ==
  ASSUME NEW g \in Gates
  PROVE  /\ Freeze(g) \in Gates
         /\ ~Freeze(g).synchronized
         /\ Freeze(g).have_decoded_frame_id = g.have_decoded_frame_id
         /\ Freeze(g).stream_epoch = g.stream_epoch
         /\ Freeze(g).last_decoded_frame_id = g.last_decoded_frame_id
         /\ Freeze(g).references = g.references
BY DEF Freeze, Gates

LEMMA ResetDecoderEffect ==
  ASSUME NEW g \in Gates
  PROVE  /\ ResetDecoder(g) \in Gates
         /\ ResetDecoder(g).synchronized = g.synchronized
         /\ ResetDecoder(g).stream_epoch = g.stream_epoch
         /\ ResetDecoder(g).references = {}
BY DEF ResetDecoder, Gates

\* A new session, or a new epoch: no reference, and nothing decoded.
StartedOver(g, epoch) ==
  ResetDecoder([Freeze(g) EXCEPT !.stream_epoch = epoch, !.have_decoded_frame_id = FALSE])

LEMMA StartOver ==
  ASSUME NEW g \in Gates, NEW epoch \in Nat
  PROVE  /\ StartedOver(g, epoch) \in Gates
         /\ ~StartedOver(g, epoch).synchronized
         /\ StartedOver(g, epoch).references = {}
         /\ StartedOver(g, epoch).stream_epoch = epoch
<1> DEFINE h == [Freeze(g) EXCEPT !.stream_epoch = epoch, !.have_decoded_frame_id = FALSE]
<1>1. Freeze(g) \in Gates /\ ~Freeze(g).synchronized
  BY FreezeEffect
<1>2. h \in Gates
  <2>1. FALSE \in BOOLEAN
    OBVIOUS
  <2> QED
    BY <1>1, <2>1, Zenon DEF Gates
<1>3. ~h.synchronized /\ h.stream_epoch = epoch
  BY <1>1 DEF Gates
<1>4. StartedOver(g, epoch) = ResetDecoder(h)
  BY DEF StartedOver
<1> HIDE DEF h
<1> QED
  BY <1>2, <1>3, <1>4, ResetDecoderEffect

LEMMA ResetEffect ==
  ASSUME NEW g \in Gates
  PROVE  /\ ResetMediaSession(g) \in Gates
         /\ ~ResetMediaSession(g).synchronized
         /\ ResetMediaSession(g).references = {}
<1>1. ResetMediaSession(g) = StartedOver(g, 0)
  BY DEF ResetMediaSession, StartedOver, Freeze, Gates
<1>2. 0 \in Nat
  OBVIOUS
<1> QED
  BY <1>1, <1>2, StartOver

\* The frame's epoch and id are checked: a gate that still follows the stream
\* is as it was, and the frame is the next one.
LEMMA CheckedEffect ==
  ASSUME NEW g \in Gates, NEW frame, frame.key \in Keys, NEW c, Follows(g, c)
  PROVE  /\ Checked(g, frame) \in Gates
         /\ Checked(g, frame).references \in {g.references, {}}
         /\ Checked(g, frame).stream_epoch = frame.key.epoch
         /\ Checked(g, frame).synchronized =>
              /\ Checked(g, frame) = g /\ g.have_decoded_frame_id
              /\ g.stream_epoch = frame.key.epoch
              /\ g.last_decoded_frame_id + 1 = frame.key.frame_id
         /\ EnterEpoch(g, frame) \in Gates
         /\ EnterEpoch(g, frame).references \in {g.references, {}}
         /\ EnterEpoch(g, frame).synchronized => EnterEpoch(g, frame) = g
<1> DEFINE e == EnterEpoch(g, frame)
<1>1. /\ e \in Gates /\ e.stream_epoch = frame.key.epoch
      /\ e = g \/ (~e.synchronized /\ e.references = {})
  <2>1. CASE frame.key.epoch = g.stream_epoch
    BY <2>1 DEF EnterEpoch
  <2>2. CASE frame.key.epoch # g.stream_epoch
    BY <2>2, StartOver DEF EnterEpoch, StartedOver, Keys
  <2> QED
    BY <2>1, <2>2
<1> HIDE DEF e
<1>2. Checked(g, frame) = CheckContinuity(e, frame)
  BY DEF Checked, e
<1>3. CASE e.synchronized /\ e.have_decoded_frame_id
             /\ frame.key.frame_id # e.last_decoded_frame_id + 1
  BY <1>1, <1>2, <1>3, FreezeEffect DEF CheckContinuity, e
<1>4. CASE ~(e.synchronized /\ e.have_decoded_frame_id
               /\ frame.key.frame_id # e.last_decoded_frame_id + 1)
  BY <1>1, <1>2, <1>4 DEF CheckContinuity, Follows, e
<1> QED
  BY <1>3, <1>4

LEMMA DecodeEffect ==
  ASSUME NEW g \in Gates, NEW frame, frame.key \in Keys, NEW ok \in BOOLEAN,
         g.stream_epoch = frame.key.epoch
  PROVE  /\ Decode(g, frame, ok) \in Gates
         /\ Decode(g, frame, ok).references \in {{}, {frame.key}}
         /\ Follows(Decode(g, frame, ok), frame.key.connection)
<1>1. CASE ok
  <2> DEFINE h == [g EXCEPT !.synchronized = TRUE, !.keyframe_request_pending = FALSE,
                            !.have_decoded_frame_id = TRUE,
                            !.last_decoded_frame_id = frame.key.frame_id,
                            !.references = {frame.key}]
  <2>1. Decode(g, frame, ok) = h
    BY <1>1 DEF Decode
  <2>2. h \in Gates
    <3>1. TRUE \in BOOLEAN /\ FALSE \in BOOLEAN /\ frame.key.frame_id \in Nat
          /\ {frame.key} \in SUBSET Keys
      BY DEF Keys
    <3> QED
      BY <3>1, Zenon DEF Gates
  <2>3. /\ h.have_decoded_frame_id
        /\ h.references = {frame.key}
        /\ h.stream_epoch = frame.key.epoch
        /\ h.last_decoded_frame_id = frame.key.frame_id
    BY DEF Gates
  <2>4. LastKey(h, frame.key.connection) = frame.key
    BY <2>3 DEF LastKey, Keys
  <2> QED
    BY <2>1, <2>2, <2>3, <2>4 DEF Follows
<1>2. CASE ~ok
  <2>1. Decode(g, frame, ok) = [Freeze(g) EXCEPT !.references = {}]
    BY <1>2 DEF Decode
  <2>2. Freeze(g) \in Gates /\ ~Freeze(g).synchronized
    BY FreezeEffect
  <2>3. [Freeze(g) EXCEPT !.references = {}] \in Gates
    BY <2>2 DEF Gates
  <2> QED
    BY <2>1, <2>2, <2>3 DEF Follows, Gates
<1> QED
  BY <1>1, <1>2

\* A frame the decoder refers to afterwards, and did not before, is a keyframe
\* or the one after the last.
LEMMA HandleFrameEffect ==
  ASSUME NEW g \in Gates, NEW frame, frame.key \in Keys, NEW ok \in BOOLEAN,
         Follows(g, frame.key.connection)
  PROVE  LET h == HandleFrame(g, frame, ok)
         IN  /\ h \in Gates
             /\ Follows(h, frame.key.connection)
             /\ h.references \in {g.references, {}, {frame.key}}
             /\ h.references = {frame.key} /\ g.references # {frame.key} =>
                  \/ frame.keyframe
                  \/ /\ g.synchronized
                     /\ g.stream_epoch = frame.key.epoch
                     /\ g.last_decoded_frame_id + 1 = frame.key.frame_id
<1> DEFINE c == frame.key.connection
           checked == Checked(g, frame)
           e == EnterEpoch(g, frame)
<1>1. /\ checked \in Gates
      /\ checked.references \in {g.references, {}}
      /\ checked.stream_epoch = frame.key.epoch
      /\ checked.synchronized =>
           /\ checked = g /\ g.have_decoded_frame_id
           /\ g.stream_epoch = frame.key.epoch
           /\ g.last_decoded_frame_id + 1 = frame.key.frame_id
      /\ e \in Gates
      /\ e.references \in {g.references, {}}
      /\ e.synchronized => e = g
  BY CheckedEffect
<1> HIDE DEF checked, e
<1>2. CASE OldEpoch(g, frame)
  BY <1>2 DEF HandleFrame
<1>3. CASE ~OldEpoch(g, frame) /\ Late(EnterEpoch(g, frame), frame)
  <2>1. HandleFrame(g, frame, ok) = e
    BY <1>3 DEF HandleFrame, e
  <2> QED
    BY <1>1, <2>1 DEF Follows
<1>4. CASE /\ ~OldEpoch(g, frame) /\ ~Late(EnterEpoch(g, frame), frame)
           /\ Feeds(g, frame)
  <2> DEFINE prepared == Prepared(g, frame)
  <2>1. prepared \in Gates /\ prepared.stream_epoch = frame.key.epoch
    BY <1>1, ResetDecoderEffect DEF Prepared, checked
  <2>2. HandleFrame(g, frame, ok) = Decode(prepared, frame, ok)
    BY <1>4 DEF HandleFrame
  <2>3. checked.synchronized \/ frame.keyframe
    BY <1>4 DEF Feeds, checked
  <2> HIDE DEF prepared
  <2> QED
    BY <1>1, <2>1, <2>2, <2>3, DecodeEffect
<1>5. CASE /\ ~OldEpoch(g, frame) /\ ~Late(EnterEpoch(g, frame), frame)
           /\ ~Feeds(g, frame)
  <2>1. HandleFrame(g, frame, ok) = Freeze(checked)
    BY <1>5 DEF HandleFrame, checked
  <2> QED
    BY <1>1, <2>1, FreezeEffect DEF Follows
<1> QED
  BY <1>2, <1>3, <1>4, <1>5

-----------------------------------------------------------------------------
(* The network, and the gate behind it. *)

\* What putting a frame on the socket does to the network.
Puts ==
  \/ UNCHANGED media
  \/ \E new : /\ media' = media \cup {new}
              /\ new.key = Key /\ new.keyframe \in BOOLEAN
              /\ connection \in {serving} \cup backlog
              /\ new.keyframe \/
                   /\ last_sent = {EncodedKey} /\ new.reference = {EncodedKey}
                   /\ EncodedKey = Before(Key)

LEMMA PutEffect ==
  ASSUME IInv, Encode, NEW frame \in EncodedFrames, NEW whole, PutOnSocket(frame, whole)
  PROVE  Puts
<1>1. /\ frame.key = Key /\ frame.keyframe \in BOOLEAN
      /\ frame.keyframe \/
           /\ last_sent = {EncodedKey} /\ frame.reference = {EncodedKey}
           /\ EncodedKey = Before(Key)
  BY EncodedFrame DEF IInv
<1>2. CASE connection \notin {serving} \cup backlog
  BY <1>2 DEF PutOnSocket, Puts
<1>3. CASE connection \in {serving} \cup backlog
  <2> DEFINE new == [key |-> frame.key, keyframe |-> frame.keyframe,
                     reference |-> frame.reference, whole |-> whole]
  <2>1. media' = media \cup {new}
    BY <1>3 DEF PutOnSocket
  <2>2. /\ new.key = frame.key /\ new.keyframe = frame.keyframe
        /\ new.reference = frame.reference
    OBVIOUS
  <2> HIDE DEF new
  <2> QED
    BY <1>1, <1>3, <2>1, <2>2, Zenon DEF Puts
<1> QED
  BY <1>2, <1>3

LEMMA SendsSomeEffect ==
  ASSUME IInv, Encode, SendsSome
  PROVE  Puts
BY PutEffect DEF SendsSome, Puts

\* The keys of the network and of the gate stay used, and the next one is new.
LEMMA PutsKeeps ==
  ASSUME IInv, Encode, Puts,
         UNCHANGED <<serving, backlog, gate, connection_epoch>>,
         \/ UNCHANGED connection /\ frame_id' = frame_id + 1
         \/ connection' = 0
  PROVE  MediaInv' /\ GateInv'
<1> USE DEF IInv
<1>1. ASSUME NEW key, Used(key) PROVE Used(key)' /\ key # Key
  BY <1>1 DEF Used, Keys, Key, SenderTyped
<1>2. ASSUME NEW key, key = Key PROVE Used(key)'
  <2>1. Key \in Keys
    BY EncodeEffect
  <2> QED
    BY <1>2, <2>1 DEF Used, SenderTyped, Encode, Keys, Key
<1>3. ASSUME NEW frame \in media
      PROVE  Used(frame.key) /\ Used(frame.key)' /\ frame.key # Key
  BY <1>1 DEF MediaInv
<1>4. ASSUME NEW key \in gate.references
      PROVE  Used(key)' /\ key # Key
  BY <1>1 DEF GateInv
<1>5. CASE UNCHANGED media
  BY <1>3, <1>4, <1>5 DEF MediaInv, GateInv
<1>6. ASSUME NEW new, media' = media \cup {new},
             new.key = Key, new.keyframe \in BOOLEAN,
             connection \in {serving} \cup backlog,
             new.keyframe \/ new.reference = {Before(Key)}
      PROVE  MediaInv' /\ GateInv'
  <2>1. Key.connection = connection
    BY DEF Key
  <2>2. IsFiniteSet(media')
    BY <1>6, FS_AddElement DEF MediaInv
  <2>3. ASSUME NEW frame \in media'
        PROVE  /\ Used(frame.key)'
               /\ frame.key.connection \in {serving} \cup backlog
               /\ frame.keyframe \in BOOLEAN
               /\ frame.keyframe \/ frame.reference = {Before(frame.key)}
    <3>1. CASE frame \in media
      BY <1>3, <3>1 DEF MediaInv
    <3>2. CASE frame = new
      BY <1>2, <1>6, <2>1, <3>2
    <3> QED
      BY <1>6, <3>1, <3>2
  <2>4. ASSUME NEW frame \in media', NEW other \in media', frame.key = other.key
        PROVE  frame = other
    BY <1>3, <1>6, <2>4 DEF MediaInv
  <2>5. MediaInv'
    BY <2>2, <2>3, <2>4 DEF MediaInv
  <2>6. GateInv'
    BY <1>4, <1>6 DEF GateInv
  <2> QED
    BY <2>5, <2>6
<1> QED
  BY <1>5, <1>6, Zenon DEF Puts

\* A frame leaves the network.  If the decoder then refers to it and did not
\* before, it is a keyframe or follows on what the decoder referred to.
LEMMA ReceiveEffect ==
  ASSUME IInv, NEW frame \in media, NEW ok \in BOOLEAN, Receive(frame, ok)
  PROVE  /\ MediaInv' /\ GateInv'
         /\ gate'.references = {frame.key} =>
              frame.keyframe \/ gate.references = frame.reference
<1> USE DEF IInv
<1>1. /\ serving # 0 /\ frame.key.connection = serving
      /\ media' = media \ {frame} /\ gate' = HandleFrame(gate, frame, ok)
      /\ UNCHANGED <<connection, connection_epoch, frame_id, serving, backlog>>
  BY DEF Receive, senderVars
<1>2. Used(frame.key) /\ frame.key \in Keys
  BY DEF MediaInv, Used
<1>3. gate \in Gates /\ Follows(gate, serving) /\ gate.references # {frame.key}
  BY <1>1 DEF GateInv
<1>4. /\ gate' \in Gates
      /\ Follows(gate', serving)
      /\ gate'.references \in {gate.references, {}, {frame.key}}
      /\ gate'.references = {frame.key} =>
           \/ frame.keyframe
           \/ /\ gate.synchronized
              /\ gate.stream_epoch = frame.key.epoch
              /\ gate.last_decoded_frame_id + 1 = frame.key.frame_id
  <2>1. Follows(gate, frame.key.connection)
    BY <1>1, <1>3
  <2> QED
    BY <1>1, <1>2, <1>3, <2>1, HandleFrameEffect
<1>5. \A key : Used(key)' <=> Used(key)
  BY <1>1 DEF Used
<1>6. MediaInv'
  BY <1>1, <1>5, FS_RemoveElement DEF MediaInv
<1>7. GateInv'
  <2>1. \A other \in media' : other.key # frame.key
    BY <1>1 DEF MediaInv
  <2>2. \A key \in gate'.references : Used(key) /\ \A other \in media' : other.key # key
    BY <1>1, <1>2, <1>4, <2>1 DEF GateInv
  <2> QED
    BY <1>1, <1>4, <1>5, <2>2 DEF GateInv
<1>8. ASSUME gate'.references = {frame.key}, ~frame.keyframe
      PROVE  gate.references = frame.reference
  <2>1. /\ gate.references = {LastKey(gate, serving)}
        /\ gate.stream_epoch = frame.key.epoch
        /\ gate.last_decoded_frame_id + 1 = frame.key.frame_id
    BY <1>3, <1>4, <1>8 DEF Follows
  <2>2. frame.reference = {Before(frame.key)}
    BY <1>8 DEF MediaInv
  <2>3. LastKey(gate, serving) = Before(frame.key)
    BY <1>1, <1>2, <1>3, <2>1 DEF LastKey, Before, Keys, Gates
  <2> QED
    BY <2>1, <2>2, <2>3
<1> QED
  BY <1>6, <1>7, <1>8

LEMMA DiscardEffect ==
  ASSUME IInv, NEW frame \in media, Discard(frame)
  PROVE  MediaInv' /\ GateInv' /\ gate'.references # {frame.key}
<1> USE DEF IInv
<1>1. /\ media' = media \ {frame} /\ gate' \in {gate, Freeze(gate)}
      /\ UNCHANGED <<connection, connection_epoch, frame_id, serving, backlog>>
  BY DEF Discard, senderVars
<1>2. gate' \in Gates /\ gate'.references = gate.references
      /\ (gate'.synchronized => gate' = gate)
  BY <1>1, FreezeEffect DEF GateInv
<1>3. \A key : Used(key)' <=> Used(key)
  BY <1>1 DEF Used
<1>4. MediaInv'
  BY <1>1, <1>3, FS_RemoveElement DEF MediaInv
<1>5. GateInv'
  BY <1>1, <1>2, <1>3 DEF GateInv, Follows
<1>6. gate'.references # {frame.key}
  BY <1>2 DEF GateInv
<1> QED
  BY <1>4, <1>5, <1>6

LEMMA NetworkStep ==
  ASSUME IInv, [Next]_vars
  PROVE  MediaInv' /\ GateInv'
<1> USE DEF IInv
<1>1. CASE UNCHANGED <<connection, connection_epoch, frame_id, media, serving, backlog, gate>>
  BY <1>1 DEF MediaInv, GateInv, Used
<1>2. CASE Connect
  <2>1. /\ connection = 0 /\ backlog = {} /\ connection' = connection_epoch + 1
        /\ connection_epoch' = connection_epoch + 1
        /\ UNCHANGED <<media, serving, gate>>
    BY <1>2 DEF Connect, NextEpoch
  <2>2. \A key : Used(key) => Used(key)'
    BY <2>1 DEF Used, Keys, SenderTyped
  <2> QED
    BY <2>1, <2>2 DEF MediaInv, GateInv
<1>3. CASE SendFrame
  <2>1. /\ Encode /\ Puts /\ frame_id' = frame_id + 1
        /\ UNCHANGED <<connection, connection_epoch, serving, backlog, gate>>
    BY <1>3, PutEffect DEF SendFrame, receiverVars
  <2> QED
    BY <2>1, PutsKeeps
<1>4. CASE SplitFails
  <2>1. /\ Encode /\ Puts /\ frame_id' = frame_id + 1
        /\ UNCHANGED <<connection, connection_epoch, serving, backlog, gate>>
    BY <1>4 DEF SplitFails, receiverVars, Puts
  <2> QED
    BY <2>1, PutsKeeps
<1>5. CASE SendBlocked
  <2>1. /\ Encode /\ Puts /\ frame_id' = frame_id + 1
        /\ UNCHANGED <<connection, connection_epoch, serving, backlog, gate>>
    BY <1>5, SendsSomeEffect DEF SendBlocked, receiverVars
  <2> QED
    BY <2>1, PutsKeeps
<1>6. CASE SenderCloses
  <2>1. /\ connection' = 0
        /\ UNCHANGED <<connection_epoch, serving, backlog, gate>>
    BY <1>6 DEF SenderCloses, receiverVars
  <2>2. CASE Encode /\ SendsSome
    BY <2>1, <2>2, SendsSomeEffect, PutsKeeps
  <2>3. CASE UNCHANGED media
    <3>1. \A key : Used(key) => Used(key)'
      BY <2>1 DEF Used, Keys
    <3> QED
      BY <2>1, <2>3, <3>1 DEF MediaInv, GateInv
  <2> QED
    BY <1>6, <2>2, <2>3 DEF SenderCloses
<1>7. CASE Accept
  <2>1. /\ serving = 0 /\ serving' \in backlog /\ backlog' = {}
        /\ gate' = ResetMediaSession(gate)
        /\ UNCHANGED <<connection, connection_epoch, frame_id, media>>
    BY <1>7 DEF Accept, senderVars
  <2>2. \A key : Used(key) => Used(key)' /\ key.connection # 0
    BY <2>1 DEF Used, Keys
  <2>3. \A c \in backlog : c = serving'
    BY <2>1 DEF ConnectionsInv
  <2>4. MediaInv'
    BY <2>1, <2>2, <2>3 DEF MediaInv
  <2>5. GateInv'
    BY <2>1, ResetEffect DEF GateInv, Follows
  <2> QED
    BY <2>4, <2>5
<1>8. CASE StopServing
  <2>1. /\ serving' = 0
        /\ media' = {frame \in media : frame.key.connection # serving}
        /\ UNCHANGED <<connection, connection_epoch, frame_id, backlog, gate>>
    BY <1>8 DEF StopServing, senderVars
  <2>2. \A key : Used(key) => Used(key)'
    BY <2>1 DEF Used
  <2>3. media' \in SUBSET media
    BY <2>1
  <2>4. IsFiniteSet(media')
    BY <2>3, FS_Subset DEF MediaInv
  <2> QED
    BY <2>1, <2>2, <2>4 DEF MediaInv, GateInv
<1>9. ASSUME NEW frame \in media, (\E ok \in BOOLEAN : Receive(frame, ok)) \/ Discard(frame)
      PROVE  MediaInv' /\ GateInv'
  BY <1>9, ReceiveEffect, DiscardEffect
<1>10. ASSUME NEW report \in reports, TakeReport(report)
       PROVE  MediaInv' /\ GateInv'
  BY <1>1, <1>10 DEF TakeReport, receiverVars
<1>11. CASE LossAges \/ NoFrame \/ ReceiverStatistics
  BY <1>1, <1>11 DEF LossAges, NoFrame, ReceiverStatistics, senderVars, receiverVars
<1>12. CASE ConnectFails \/ UNCHANGED vars
  BY <1>1, <1>12 DEF ConnectFails, vars, senderVars, receiverVars
<1> QED
  BY <1>2, <1>3, <1>4, <1>5, <1>6, <1>7, <1>8, <1>9, <1>10, <1>11, <1>12
  DEF Next, PeerGone, ConnectionBreaks

LEMMA NextIInv == IInv /\ [Next]_vars => IInv'
BY SenderStep, ConnectionsStep, NetworkStep, StatisticsStep, ReportsStep DEF IInv

LEMMA IInvHolds == Spec => []IInv
BY InitIInv, NextIInv, PTL DEF Spec

-----------------------------------------------------------------------------
(* The types, and the order of the connections: the one that waits is      *)
(* newer than the one that is served.                                      *)
THEOREM SessionTypes == Spec => []TypeOK
<1>1. IInv => TypeOK
  <2> SUFFICES ASSUME IInv PROVE TypeOK
    OBVIOUS
  <2>1. {connection, serving} \cup backlog \subseteq 0..connection_epoch
    BY DEF IInv, SenderTyped, ConnectionsInv
  <2>2. /\ \A c \in backlog : serving < c
        /\ \A frame \in media : frame.key.connection \in {connection, serving} \cup backlog
    BY DEF IInv, ConnectionsInv, MediaInv
  <2>3. \A batch \in estimator : batch.resolved \in Nat /\ batch.lost \in Nat
    BY DEF IInv, StatisticsInv
  <2> QED
    BY <2>1, <2>2, <2>3 DEF IInv, SenderTyped, StatisticsInv, TypeOK
<1> QED
  BY <1>1, IInvHolds, PTL

(* The loss the sender adapts to is the one the receiver of its very       *)
(* connection reported under that sequence.                                *)
THEOREM LossAlwaysOfThisConnection == Spec => []LossIsOfThisConnection
<1>1. IInv => LossIsOfThisConnection
  BY DEF IInv, ReportsInv, LossIsOfThisConnection
<1> QED
  BY <1>1, IInvHolds, PTL

(* No batch of the loss estimator counts packets that were found missing   *)
(* while the receiver called it a stall.                                   *)
THEOREM StallNeverCountedTwice == Spec => []StallIsNotCountedTwice
<1>1. IInv => StallIsNotCountedTwice
  BY DEF IInv, StatisticsInv, StallIsNotCountedTwice
<1> QED
  BY <1>1, IInvHolds, PTL

(* A P-frame is sent only after the frame it was predicted from was sent   *)
(* in full on the same connection.                                         *)
THEOREM PFramesAlwaysHaveTheirReference == Spec => PFramesHaveTheirReference
<1> DEFINE New == \A frame \in media' \ media :
                    frame.keyframe \/ frame.reference = last_sent
<1>1. IInv /\ [Next]_vars => New
  <2> SUFFICES ASSUME IInv, [Next]_vars PROVE New
    OBVIOUS
  <2>1. CASE Puts
    BY <2>1 DEF Puts
  <2>2. SendFrame \/ SendBlocked \/ SenderCloses => Puts
    BY PutEffect, SendsSomeEffect DEF SendFrame, SendBlocked, SenderCloses, Puts
  <2>3. ASSUME NEW frame \in media, (\E ok \in BOOLEAN : Receive(frame, ok)) \/ Discard(frame)
        PROVE  media' \subseteq media
    BY <2>3 DEF Receive, Discard
  <2>4. ASSUME NEW report \in reports, TakeReport(report)
        PROVE  media' \subseteq media
    BY <2>4 DEF TakeReport
  <2>5. \/ Connect \/ ConnectFails \/ LossAges \/ SplitFails \/ NoFrame \/ Accept
        \/ PeerGone \/ ConnectionBreaks \/ ReceiverStatistics \/ UNCHANGED vars
        => media' \subseteq media
    BY DEF Connect, ConnectFails, LossAges, SplitFails, NoFrame, Accept, PeerGone,
           ConnectionBreaks, StopServing, ReceiverStatistics, vars
  <2> QED
    BY <2>1, <2>2, <2>3, <2>4, <2>5 DEF Next
<1> QED
  BY <1>1, IInvHolds, PTL DEF Spec, PFramesHaveTheirReference

(* Whatever was lost, cut short, reordered or sent before a reconnection,  *)
(* a picture is decoded from a keyframe or on top of the picture it was    *)
(* predicted from.                                                         *)
THEOREM AlwaysDecodesIntact == Spec => DecodesIntact
<1> DEFINE Intact == \A frame \in media \ media' :
                       gate'.references = {frame.key}
                         => frame.keyframe \/ gate.references = frame.reference
<1>1. IInv /\ [Next]_vars => Intact
  <2> SUFFICES ASSUME IInv, [Next]_vars PROVE Intact
    OBVIOUS
  <2>1. CASE gate' = gate
    BY <2>1 DEF IInv, GateInv
  <2>2. CASE media \subseteq media'
    BY <2>2
  <2>3. ASSUME NEW frame \in media, NEW ok \in BOOLEAN, Receive(frame, ok)
        PROVE  Intact
    <3>1. media' = media \ {frame}
      BY <2>3 DEF Receive
    <3> QED
      BY <2>3, <3>1, ReceiveEffect
  <2>4. ASSUME NEW frame \in media, Discard(frame)
        PROVE  Intact
    <3>1. media' = media \ {frame}
      BY <2>4 DEF Discard
    <3> QED
      BY <2>4, <3>1, DiscardEffect
  <2>5. Accept => media \subseteq media'
    BY DEF Accept
  <2>6. ASSUME NEW report \in reports, TakeReport(report)
        PROVE  gate' = gate
    BY <2>6 DEF TakeReport, receiverVars
  <2>7. \/ Connect \/ ConnectFails \/ LossAges \/ SendFrame \/ SplitFails \/ SendBlocked
        \/ NoFrame \/ SenderCloses \/ PeerGone \/ ConnectionBreaks \/ ReceiverStatistics
        \/ UNCHANGED vars
        => gate' = gate
    BY DEF Connect, ConnectFails, LossAges, SendFrame, SplitFails, SendBlocked, NoFrame,
           SenderCloses, PeerGone, ConnectionBreaks, StopServing, ReceiverStatistics, vars,
           receiverVars
  <2> QED
    BY <2>1, <2>2, <2>3, <2>4, <2>5, <2>6, <2>7 DEF Next
<1> QED
  BY <1>1, IInvHolds, PTL DEF Spec, DecodesIntact
-----------------------------------------------------------------------------
(* What the viewer sees: the receiver implements GatedPlayback.  A picture *)
(* on screen is of an earlier connection, or stands behind the gate.       *)

Behind(j, g, c) ==
  \/ j.connection < c
  \/ /\ j.connection = c
     /\ \/ j.epoch < g.stream_epoch
        \/ /\ j.epoch = g.stream_epoch
           /\ g.have_decoded_frame_id
           /\ j.frame_id <= g.last_decoded_frame_id

\* The gate g of connection c while the screen shows `picture`.
Standing(g, c, picture) ==
  /\ g \in Gates
  /\ picture \subseteq Keys
  /\ \A j \in picture : Behind(j, g, c)
  /\ g.synchronized => g.have_decoded_frame_id /\ picture = {LastKey(g, c)}

\* The keys of the pictures of the playback.
Sendable(key) ==
  /\ key.connection \in Sessions
  /\ \E e \in 0..MaxEpochs : key.epoch = key.connection * EpochBase + e
  /\ key.frame_id \in 1..MaxFrames[key.connection]

PlaybackInv ==
  /\ connection_epoch <= MaxConnections
  /\ \A frame \in media : Sendable(frame.key)
  /\ shown \subseteq Keys
  /\ \A j \in shown :
       j.connection <= connection_epoch /\ \A c \in backlog : j.connection < c
  /\ serving # 0 => Standing(gate, serving, shown)

PlayStep ==
  \/ \E picture \in Pictures : Playback!Show(picture)
  \/ Playback!FreezePicture
  \/ UNCHANGED <<shown, gate.synchronized>>

LEMMA FreezeStanding ==
  ASSUME NEW g, NEW c, NEW picture, Standing(g, c, picture)
  PROVE  Standing(Freeze(g), c, picture) /\ ~Freeze(g).synchronized
BY FreezeEffect DEF Standing, Behind

LEMMA ResetDecoderStanding ==
  ASSUME NEW g, NEW c, NEW picture, Standing(g, c, picture), ~g.synchronized
  PROVE  Standing(ResetDecoder(g), c, picture)
<1>1. /\ ResetDecoder(g) \in Gates
      /\ ResetDecoder(g).synchronized = g.synchronized
      /\ ResetDecoder(g).have_decoded_frame_id = g.have_decoded_frame_id
      /\ ResetDecoder(g).stream_epoch = g.stream_epoch
      /\ ResetDecoder(g).last_decoded_frame_id = g.last_decoded_frame_id
  BY DEF ResetDecoder, Gates, Standing
<1> QED
  BY <1>1 DEF Standing, Behind

\* The gate once the frame's epoch is entered, its id compared, and the decoder
\* prepared for it.
LEMMA PreparedStanding ==
  ASSUME NEW g, NEW frame, frame.key \in Keys, NEW picture,
         Standing(g, frame.key.connection, picture), ~OldEpoch(g, frame)
  PROVE  LET c == frame.key.connection
             e == EnterEpoch(g, frame)
             checked == Checked(g, frame)
         IN  /\ Standing(e, c, picture) /\ e.stream_epoch = frame.key.epoch
             /\ e.synchronized => e = g
             /\ Standing(checked, c, picture) /\ checked.stream_epoch = frame.key.epoch
             /\ checked.synchronized => /\ checked = g
                                        /\ g.last_decoded_frame_id + 1 = frame.key.frame_id
                                        /\ g.stream_epoch = frame.key.epoch
             /\ Standing(Prepared(g, frame), c, picture)
             /\ Prepared(g, frame).stream_epoch = frame.key.epoch
<1> DEFINE c == frame.key.connection
           e == EnterEpoch(g, frame)
           checked == Checked(g, frame)
<1>1. /\ g \in Gates /\ picture \subseteq Keys /\ \A j \in picture : Behind(j, g, c)
  BY DEF Standing
<1>2. /\ Standing(e, c, picture) /\ e.stream_epoch = frame.key.epoch
      /\ e.synchronized => e = g
  <2>1. CASE frame.key.epoch = g.stream_epoch
    BY <2>1 DEF EnterEpoch
  <2>2. CASE frame.key.epoch # g.stream_epoch
    <3>1. e = StartedOver(g, frame.key.epoch)
      BY <2>2 DEF EnterEpoch, StartedOver
    <3>2. /\ e \in Gates /\ ~e.synchronized /\ e.stream_epoch = frame.key.epoch
      <4>1. frame.key.epoch \in Nat
        BY DEF Keys
      <4> HIDE DEF e
      <4> QED
        BY <1>1, <3>1, <4>1, StartOver
    <3>3. g.stream_epoch < frame.key.epoch
      BY <1>1, <2>2 DEF OldEpoch, Gates, Keys
    <3>4. \A j \in picture : Behind(j, e, c)
      BY <1>1, <3>2, <3>3 DEF Behind, Gates, Keys
    <3> QED
      BY <1>1, <3>2, <3>4 DEF Standing
  <2> QED
    BY <2>1, <2>2
<1> HIDE DEF e
<1>3. /\ Standing(checked, c, picture) /\ checked.stream_epoch = frame.key.epoch
      /\ checked.synchronized => /\ checked = g
                                 /\ g.last_decoded_frame_id + 1 = frame.key.frame_id
                                 /\ g.stream_epoch = frame.key.epoch
  <2>1. checked = CheckContinuity(e, frame)
    BY DEF Checked, e
  <2>2. CASE e.synchronized /\ e.have_decoded_frame_id
             /\ frame.key.frame_id # e.last_decoded_frame_id + 1
    <3>1. checked = Freeze(e) /\ e \in Gates
      BY <1>2, <2>1, <2>2 DEF CheckContinuity, Standing
    <3> QED
      BY <1>2, <3>1, FreezeStanding, FreezeEffect
  <2>3. CASE ~(e.synchronized /\ e.have_decoded_frame_id
               /\ frame.key.frame_id # e.last_decoded_frame_id + 1)
    <3>1. checked = e
      BY <2>1, <2>3 DEF CheckContinuity
    <3> QED
      BY <1>2, <2>3, <3>1 DEF Standing
  <2> QED
    BY <2>2, <2>3
<1> HIDE DEF checked
<1>4. /\ Standing(Prepared(g, frame), c, picture)
      /\ Prepared(g, frame).stream_epoch = frame.key.epoch
  <2>1. Prepared(g, frame) = IF checked.synchronized THEN checked ELSE ResetDecoder(checked)
    BY DEF Prepared, checked
  <2>2. checked \in Gates
    BY <1>3 DEF Standing
  <2> QED
    BY <1>3, <2>1, <2>2, ResetDecoderStanding, ResetDecoderEffect
<1> QED
  BY <1>2, <1>3, <1>4 DEF e, checked

LEMMA DecodeStanding ==
  ASSUME NEW g, NEW frame, frame.key \in Keys, NEW picture, NEW ok \in BOOLEAN,
         Standing(g, frame.key.connection, picture), g.stream_epoch = frame.key.epoch
  PROVE  /\ Standing(Decode(g, frame, ok), frame.key.connection,
                     IF ok THEN {frame.key} ELSE picture)
         /\ ~ok => ~Decode(g, frame, ok).synchronized
<1> DEFINE c == frame.key.connection
           d == Decode(g, frame, ok)
<1>1. g \in Gates
  BY DEF Standing
<1>2. d \in Gates
  BY <1>1, DecodeEffect
<1>3. CASE ok
  <2>1. /\ d.have_decoded_frame_id
        /\ d.stream_epoch = frame.key.epoch
        /\ d.last_decoded_frame_id = frame.key.frame_id
    BY <1>1, <1>3 DEF Decode, Gates
  <2>2. LastKey(d, c) = frame.key
    BY <2>1 DEF LastKey, Keys
  <2>3. Behind(frame.key, d, c)
    BY <2>1 DEF Behind, Keys
  <2> QED
    BY <1>2, <1>3, <2>1, <2>2, <2>3 DEF Standing
<1>4. CASE ~ok
  <2>1. d = [Freeze(g) EXCEPT !.references = {}]
    BY <1>4 DEF Decode
  <2>2. Freeze(g) \in Gates /\ ~Freeze(g).synchronized /\ Standing(Freeze(g), c, picture)
    BY <1>1, FreezeEffect, FreezeStanding
  <2>3. d = ResetDecoder(Freeze(g))
    BY <2>1 DEF ResetDecoder
  <2> QED
    BY <1>4, <2>2, <2>3, ResetDecoderStanding, ResetDecoderEffect
<1> QED
  BY <1>3, <1>4

\* What the viewer is shown is after what is on screen, and a keyframe or the
\* frame that follows it.
LEMMA HandleFrameStanding ==
  ASSUME NEW g, NEW frame, frame.key \in Keys, NEW picture, NEW ok \in BOOLEAN,
         Standing(g, frame.key.connection, picture)
  PROVE  LET c == frame.key.connection
             h == HandleFrame(g, frame, ok)
         IN  /\ Standing(h, c, IF Feeds(g, frame) /\ ok THEN {frame.key} ELSE picture)
             /\ ~(Feeds(g, frame) /\ ok) /\ h.synchronized => g.synchronized
             /\ Feeds(g, frame) =>
                  /\ \A j \in picture :
                       \/ j.connection < c
                       \/ /\ j.connection = c
                          /\ \/ frame.key.epoch > j.epoch
                             \/ /\ frame.key.epoch = j.epoch
                                /\ frame.key.frame_id > j.frame_id
                  /\ \/ frame.keyframe
                     \/ /\ g.synchronized
                        /\ picture = {LastKey(g, c)}
                        /\ g.last_decoded_frame_id + 1 = frame.key.frame_id
                        /\ g.stream_epoch = frame.key.epoch
<1> DEFINE c == frame.key.connection
           h == HandleFrame(g, frame, ok)
           e == EnterEpoch(g, frame)
           checked == Checked(g, frame)
           prepared == Prepared(g, frame)
<1>1. CASE OldEpoch(g, frame)
  BY <1>1 DEF HandleFrame, Feeds
<1>2. CASE ~OldEpoch(g, frame)
  <2>1. /\ Standing(e, c, picture) /\ e.stream_epoch = frame.key.epoch
        /\ e.synchronized => e = g
        /\ Standing(checked, c, picture) /\ checked.stream_epoch = frame.key.epoch
        /\ checked.synchronized => /\ checked = g
                                   /\ g.last_decoded_frame_id + 1 = frame.key.frame_id
                                   /\ g.stream_epoch = frame.key.epoch
        /\ Standing(prepared, c, picture) /\ prepared.stream_epoch = frame.key.epoch
    BY <1>2, PreparedStanding
  <2>2. Feeds(g, frame) <=> ~Late(e, frame) /\ (checked.synchronized \/ frame.keyframe)
    BY <1>2 DEF Feeds
  <2>3. h = IF Late(e, frame) THEN e
            ELSE IF Feeds(g, frame) THEN Decode(prepared, frame, ok)
            ELSE Freeze(checked)
    BY <1>2 DEF HandleFrame
  <2> HIDE DEF e, checked, prepared, h
  <2>4. CASE Late(e, frame)
    BY <2>1, <2>2, <2>3, <2>4 DEF h
  <2>5. CASE ~Late(e, frame) /\ ~Feeds(g, frame)
    BY <2>1, <2>3, <2>5, FreezeStanding DEF h
  <2>6. CASE ~Late(e, frame) /\ Feeds(g, frame)
    <3>1. h = Decode(prepared, frame, ok)
      BY <2>3, <2>6
    <3>2. /\ Standing(h, c, IF ok THEN {frame.key} ELSE picture)
          /\ ~ok => ~h.synchronized
      BY <2>1, <3>1, DecodeStanding
    <3>3. ASSUME NEW j \in picture
          PROVE  \/ j.connection < c
                 \/ /\ j.connection = c
                    /\ \/ frame.key.epoch > j.epoch
                       \/ /\ frame.key.epoch = j.epoch
                          /\ frame.key.frame_id > j.frame_id
      <4>1. Behind(j, e, c) /\ j \in Keys /\ e \in Gates
        BY <2>1 DEF Standing
      <4>2. e.have_decoded_frame_id => frame.key.frame_id > e.last_decoded_frame_id
        BY <2>6, <4>1 DEF Late, Keys, Gates
      <4> QED
        BY <2>1, <4>1, <4>2 DEF Behind, Keys, Gates
    <3>4. \/ frame.keyframe
          \/ /\ g.synchronized
             /\ picture = {LastKey(g, c)}
             /\ g.last_decoded_frame_id + 1 = frame.key.frame_id
             /\ g.stream_epoch = frame.key.epoch
      BY <2>1, <2>2, <2>6 DEF Standing
    <3> QED
      BY <2>6, <3>2, <3>3, <3>4 DEF h
  <2> QED
    BY <2>4, <2>5, <2>6
<1> QED
  BY <1>1, <1>2

\* The step when nothing is shown: the picture stays, and freezes or goes on.
LEMMA NothingShown ==
  ASSUME shown' = shown, gate.synchronized \in BOOLEAN, gate'.synchronized \in BOOLEAN,
         gate'.synchronized => gate.synchronized
  PROVE  PlayStep
<1>1. CASE gate'.synchronized
  <2>1. gate'.synchronized = gate.synchronized
    BY <1>1
  <2> QED
    BY <2>1 DEF PlayStep
<1>2. CASE ~gate'.synchronized
  <2>1. gate'.synchronized = FALSE
    BY <1>2
  <2> QED
    BY <2>1 DEF PlayStep, Playback!FreezePicture, OnScreen
<1> QED
  BY <1>1, <1>2

LEMMA ReceivePlays ==
  ASSUME IInv, PlaybackInv, NEW frame \in media, NEW ok \in BOOLEAN, Receive(frame, ok)
  PROVE  /\ Standing(gate', serving, shown')
         /\ \A j \in shown' : j \in shown \/ j = frame.key
         /\ PlayStep
<1> DEFINE key == frame.key
           picture == [key |-> Picture(key), keyframe |-> frame.keyframe]
<1>1. /\ serving # 0 /\ key.connection = serving
      /\ gate' = HandleFrame(gate, frame, ok)
      /\ shown' = IF Feeds(gate, frame) /\ ok THEN {key} ELSE shown
  BY DEF Receive
<1>2. /\ key \in Keys /\ frame.keyframe \in BOOLEAN /\ Sendable(key)
      /\ Standing(gate, key.connection, shown)
  BY <1>1 DEF IInv, MediaInv, Used, PlaybackInv
<1>3. /\ Standing(gate', key.connection, shown')
      /\ ~(Feeds(gate, frame) /\ ok) /\ gate'.synchronized => gate.synchronized
      /\ Feeds(gate, frame) =>
           /\ \A j \in shown :
                \/ j.connection < key.connection
                \/ /\ j.connection = key.connection
                   /\ \/ key.epoch > j.epoch
                      \/ key.epoch = j.epoch /\ key.frame_id > j.frame_id
           /\ \/ frame.keyframe
              \/ /\ gate.synchronized
                 /\ shown = {LastKey(gate, key.connection)}
                 /\ gate.last_decoded_frame_id + 1 = key.frame_id
                 /\ gate.stream_epoch = key.epoch
  BY <1>1, <1>2, HandleFrameStanding
<1>4. gate.synchronized \in BOOLEAN /\ gate'.synchronized \in BOOLEAN
  BY <1>2, <1>3 DEF Standing, Gates
<1>5. CASE ~(Feeds(gate, frame) /\ ok)
  <2>1. shown' = shown
    BY <1>1, <1>5
  <2> QED
    BY <1>1, <1>3, <1>4, <1>5, <2>1, NothingShown
<1>6. CASE Feeds(gate, frame) /\ ok
  <2>1. shown' = {key}
    BY <1>1, <1>6
  <2>2. picture \in Pictures
    <3>1. key.connection \in Sessions /\ key.frame_id \in 1..MaxFrames[key.connection]
      BY <1>2 DEF Sendable
    <3>2. key.epoch \in {key.connection * EpochBase + e : e \in 0..MaxEpochs}
      BY <1>2 DEF Sendable
    <3> HIDE DEF key
    <3>3. Picture(key) \in [session : {key.connection},
                            epoch : {key.connection * EpochBase + e : e \in 0..MaxEpochs},
                            frame_id : 1..MaxFrames[key.connection]]
      BY <3>1, <3>2 DEF Picture
    <3> QED
      BY <1>2, <3>1, <3>3, Zenon DEF Pictures
  <2>3. OnScreen' = {picture.key}
    BY <2>1 DEF OnScreen
  <2>4. ASSUME NEW k \in OnScreen PROVE Playback!After(picture.key, k)
    <3>1. PICK j \in shown : k = Picture(j)
      BY <2>4 DEF OnScreen
    <3>2. j \in Keys
      BY DEF PlaybackInv
    <3>3. /\ k.session = j.connection /\ k.epoch = j.epoch /\ k.frame_id = j.frame_id
          /\ picture.key.session = key.connection
          /\ picture.key.epoch = key.epoch /\ picture.key.frame_id = key.frame_id
      BY <3>1 DEF Picture
    <3>4. CASE j.connection = key.connection
      BY <1>3, <1>6, <3>2, <3>3, <3>4 DEF Playback!After, Keys
    <3>5. CASE j.connection # key.connection
      <4>1. j.connection < key.connection
        BY <1>3, <1>6, <3>5
      <4>2. j.connection \in Sessions /\ key.connection \in Sessions
        BY <1>2, <3>2, <4>1, SessionAssumption DEF Sendable, Sessions, Keys
      <4> QED
        BY <1>2, <3>2, <3>3, <4>1, <4>2 DEF Playback!After, Playback!NewerSession, Keys
    <3> QED
      BY <3>4, <3>5
  <2>5. ASSUME ~frame.keyframe
        PROVE  gate.synchronized /\ \E k \in OnScreen :
                                      Playback!Follows(picture.key, k)
    <3> DEFINE last == LastKey(gate, key.connection)
    <3>1. last \in shown /\ gate.synchronized
      BY <1>3, <1>6, <2>5
    <3>2. /\ Picture(last).session = key.connection
          /\ Picture(last).epoch = key.epoch
          /\ Picture(last).frame_id + 1 = key.frame_id
      BY <1>3, <1>6, <2>5 DEF LastKey, Picture
    <3>3. Playback!Follows(picture.key, Picture(last))
      BY <3>2 DEF Playback!Follows, Picture
    <3> QED
      BY <3>1, <3>3 DEF OnScreen
  <2>6. Playback!Show(picture)
    <3>1. picture.keyframe = frame.keyframe
      OBVIOUS
    <3> HIDE DEF picture
    <3> QED
      BY <1>4, <2>3, <2>4, <2>5, <3>1 DEF Playback!Show
  <2> QED
    BY <1>1, <1>3, <2>1, <2>2, <2>6 DEF PlayStep
<1> QED
  BY <1>5, <1>6

\* What the network may hold after a step.
LEMMA MediaOfStep ==
  ASSUME IInv, [Next]_vars
  PROVE  media' \subseteq media \/ (Encode /\ Puts)
<1>1. SendFrame \/ SendBlocked => Encode /\ Puts
  BY PutEffect, SendsSomeEffect DEF SendFrame, SendBlocked
<1>2. SenderCloses => media' \subseteq media \/ (Encode /\ Puts)
  BY SendsSomeEffect DEF SenderCloses
<1>3. ASSUME NEW frame \in media, (\E ok \in BOOLEAN : Receive(frame, ok)) \/ Discard(frame)
      PROVE  media' \subseteq media
  BY <1>3 DEF Receive, Discard
<1>4. ASSUME NEW report \in reports, TakeReport(report)
      PROVE  media' \subseteq media
  BY <1>4 DEF TakeReport
<1>5. \/ Connect \/ ConnectFails \/ LossAges \/ SplitFails \/ NoFrame \/ Accept
      \/ PeerGone \/ ConnectionBreaks \/ ReceiverStatistics \/ UNCHANGED vars
      => media' \subseteq media
  BY DEF Connect, ConnectFails, LossAges, SplitFails, NoFrame, Accept, PeerGone,
         ConnectionBreaks, StopServing, ReceiverStatistics, vars
<1> QED
  BY <1>1, <1>2, <1>3, <1>4, <1>5 DEF Next

LEMMA MediaIsSendable ==
  ASSUME IInv, PlaybackInv, [Next]_vars
  PROVE  \A frame \in media' : Sendable(frame.key)
<1>1. CASE media' \subseteq media
  BY <1>1 DEF PlaybackInv
<1>2. CASE Encode /\ Puts
  <2>1. connection \in Sessions /\ frame_id \in 1..MaxFrames[connection]
    <3>1. /\ connection \in Nat \ {0} /\ connection <= connection_epoch
          /\ connection_epoch \in Nat /\ connection_epoch <= MaxConnections
          /\ frame_id \in Nat \ {0} /\ frame_id <= MaxFrames[connection]
      BY <1>2 DEF Encode, IInv, SenderTyped, PlaybackInv
    <3>2. connection \in Sessions
      BY <3>1, SessionAssumption DEF Sessions
    <3>3. MaxFrames[connection] \in Nat
      BY <3>2, SessionAssumption DEF Sessions
    <3> QED
      BY <3>1, <3>2, <3>3
  <2>2. Epoch \in 0..MaxEpochs
    BY <1>2, SessionAssumption DEF Encode, Epoch, IInv, SenderTyped
  <2>3. Sendable(Key)
    BY <2>1, <2>2 DEF Sendable, Key
  <2>4. \A frame \in media' : frame \in media \/ frame.key = Key
    BY <1>2 DEF Puts
  <2> QED
    BY <2>3, <2>4 DEF PlaybackInv
<1> QED
  BY <1>1, <1>2, MediaOfStep

LEMMA PlaybackStep ==
  ASSUME IInv, PlaybackInv, [Next]_vars
  PROVE  PlaybackInv' /\ PlayStep
<1>1. /\ gate \in Gates /\ gate' \in Gates
      /\ gate.synchronized \in BOOLEAN /\ gate'.synchronized \in BOOLEAN
  BY NextIInv DEF IInv, GateInv, Gates
<1>2. /\ serving \in Nat /\ connection_epoch \in Nat /\ backlog \subseteq Nat
      /\ \A c \in backlog : serving < c /\ c <= connection_epoch
  BY DEF IInv, ConnectionsInv, SenderTyped
<1>3. /\ shown \subseteq Keys
      /\ \A j \in shown : /\ j.connection \in Nat /\ j.connection <= connection_epoch
                          /\ \A c \in backlog : j.connection < c
  BY DEF PlaybackInv, Keys
<1>4. \A frame \in media' : Sendable(frame.key)
  BY MediaIsSendable
<1>5. CASE Connect
  <2>1. /\ connection_epoch' = connection_epoch + 1 /\ connection_epoch < MaxConnections
        /\ backlog' = {connection_epoch + 1}
        /\ UNCHANGED <<serving, gate, shown>>
    BY <1>5 DEF Connect, NextEpoch
  <2>2. connection_epoch' <= MaxConnections
    BY <1>2, <2>1, SessionAssumption
  <2>3. \A j \in shown' :
          j.connection <= connection_epoch' /\ \A c \in backlog' : j.connection < c
    BY <1>2, <1>3, <2>1
  <2> QED
    BY <1>1, <1>4, <2>1, <2>2, <2>3, NothingShown DEF PlaybackInv
<1>6. CASE Accept
  <2>1. /\ serving' \in backlog /\ backlog' = {} /\ gate' = ResetMediaSession(gate)
        /\ UNCHANGED <<connection_epoch, shown>>
    BY <1>6 DEF Accept, senderVars
  <2>2. ~gate'.synchronized
    BY <1>1, <2>1, ResetEffect
  <2>3. Standing(gate', serving', shown')
    BY <1>1, <1>3, <2>1, <2>2 DEF Standing, Behind
  <2> QED
    BY <1>1, <1>4, <2>1, <2>2, <2>3, NothingShown DEF PlaybackInv
<1>7. CASE StopServing
  <2>1. serving' = 0 /\ UNCHANGED <<connection_epoch, backlog, gate, shown>>
    BY <1>7 DEF StopServing, senderVars
  <2> QED
    BY <1>1, <1>4, <2>1, NothingShown DEF PlaybackInv
<1>8. ASSUME NEW frame \in media, NEW ok \in BOOLEAN, Receive(frame, ok)
      PROVE  PlaybackInv' /\ PlayStep
  <2>1. /\ serving # 0 /\ frame.key.connection = serving
        /\ UNCHANGED <<connection_epoch, serving, backlog>>
    BY <1>8 DEF Receive, senderVars
  <2>2. /\ Standing(gate', serving, shown')
        /\ \A j \in shown' : j \in shown \/ j = frame.key
        /\ PlayStep
    BY <1>8, ReceivePlays
  <2>3. frame.key \in Keys /\ frame.key.connection <= connection_epoch
    BY DEF IInv, MediaInv, Used
  <2>4. \A j \in shown' : /\ j \in Keys /\ j.connection <= connection_epoch
                          /\ \A c \in backlog : j.connection < c
    BY <1>2, <1>3, <2>1, <2>2, <2>3
  <2> QED
    BY <1>4, <2>1, <2>2, <2>4 DEF PlaybackInv
<1>9. ASSUME NEW frame \in media, Discard(frame)
      PROVE  PlaybackInv' /\ PlayStep
  <2>1. /\ serving # 0 /\ gate' \in {gate, Freeze(gate)}
        /\ UNCHANGED <<connection_epoch, serving, backlog, shown>>
    BY <1>9 DEF Discard, senderVars
  <2>2. Standing(gate', serving, shown) /\ (gate'.synchronized => gate.synchronized)
    BY <2>1, FreezeStanding DEF PlaybackInv
  <2> QED
    BY <1>1, <1>4, <2>1, <2>2, NothingShown DEF PlaybackInv
<1>10. CASE UNCHANGED <<connection_epoch, serving, backlog, gate, shown>>
  BY <1>1, <1>4, <1>10, NothingShown DEF PlaybackInv
<1>11. ASSUME NEW report \in reports, TakeReport(report)
       PROVE  UNCHANGED <<connection_epoch, serving, backlog, gate, shown>>
  BY <1>11 DEF TakeReport, receiverVars
<1>12. \/ ConnectFails \/ LossAges \/ SendFrame \/ SplitFails \/ SendBlocked \/ NoFrame
       \/ SenderCloses \/ ReceiverStatistics \/ UNCHANGED vars
       => UNCHANGED <<connection_epoch, serving, backlog, gate, shown>>
  BY DEF ConnectFails, LossAges, SendFrame, SplitFails, SendBlocked, NoFrame, SenderCloses,
         ReceiverStatistics, vars, senderVars, receiverVars
<1> QED
  BY <1>5, <1>6, <1>7, <1>8, <1>9, <1>10, <1>11, <1>12 DEF Next, PeerGone, ConnectionBreaks

(* Over SRT too the receiver implements GatedPlayback, across every        *)
(* reconnection, stall and frame sent in part.                             *)
THEOREM SrtImplementsPlayback == Spec => ImplementsPlayback
<1>1. Init => PlaybackInv /\ Playback!PlaybackInit
  BY SessionAssumption DEF Init, InitialGate, PlaybackInv, Playback!PlaybackInit, OnScreen
<1>2. IInv /\ PlaybackInv /\ [Next]_vars
        => PlaybackInv' /\ [Playback!PlaybackNext]_<<OnScreen, gate.synchronized>>
  <2>1. PlayStep => [Playback!PlaybackNext]_<<OnScreen, gate.synchronized>>
    BY DEF PlayStep, Playback!PlaybackNext, OnScreen
  <2> QED
    BY <2>1, PlaybackStep
<1>3. Spec => /\ Playback!PlaybackInit
              /\ [][Playback!PlaybackNext]_<<OnScreen, gate.synchronized>>
  BY <1>1, <1>2, IInvHolds, PTL DEF Spec
<1> QED
  BY <1>3 DEF ImplementsPlayback, Playback!PlaybackSpec, Playback!playbackVars
=============================================================================
