--------------------------- MODULE VideoSourceProofs ---------------------------
(***************************************************************************)
(* The properties of VideoSource for every set of profiles, every file and *)
(* every size of a frame.                                                  *)
(***************************************************************************)
EXTENDS VideoSource, FecLayoutProofs

\* The values of the variables the properties read.
Typed ==
  /\ now \in Nat
  /\ input \in {"file", "camera"}
  /\ profile \in Profiles
  /\ encoder_pts \in Nat
  /\ next_output \in Int
  /\ first_output \in Nat
  /\ last_output \in Nat
  /\ position \in Nat
  /\ held \in Seq(Nat)
  /\ next_frame_at \in Nat
  /\ earliest \in Nat

\* While it decodes, the encoder is the one for the profile.
Configured ==
  /\ configured \in {{}, {profile}}
  /\ step = "decodes" => configured = {profile}

\* The schedule of an encoder is counted from its first picture, and its last
\* picture came no earlier than it was due, but for the tolerance.
Scheduled ==
  configured = {profile} =>
    IF encoder_pts = 0
    THEN next_output = -1
    ELSE /\ next_output = first_output + encoder_pts * profile.interval
         /\ next_output <= last_output + profile.interval + Tolerance

\* The pacer's deadline covers every frame that was paced, and the loop waits
\* for it.
Paced ==
  /\ earliest <= next_frame_at
  /\ step # "sleeps" => next_frame_at <= now

\* The blocks of the last frame that was split.
Blocks ==
  /\ Len(blocks) <= MaxBlocks
  /\ \A i \in 1..Len(blocks) : Decodable(blocks[i])

PaceInv == Typed /\ Configured /\ Scheduled /\ Paced

-----------------------------------------------------------------------------
LEMMA ProfileType ==
  ASSUME NEW p \in Profiles
  PROVE  /\ p.interval \in Nat /\ p.ratio \in Nat /\ p.keyframe_ratio \in Nat
         /\ p.min_data_shards \in Nat \ {0}
BY SourceAssumption

LEMMA FileTimesType == FileTimes \in Seq(Nat) /\ Len(FileTimes) \in Nat
BY SourceAssumption

LEMMA InitPaceInv == Init => PaceInv
<1> SUFFICES ASSUME Init PROVE PaceInv
  OBVIOUS
<1>1. profile \in Profiles /\ profile.interval \in Nat
  BY ProfileType DEF Init
<1>2. Typed
  BY <1>1, SourceAssumption DEF Init, Typed
<1>3. Configured
  BY DEF Init, Configured
<1>4. Scheduled
  BY DEF Init, Scheduled
<1>5. Paced
  BY DEF Init, Paced
<1> QED
  BY <1>2, <1>3, <1>4, <1>5 DEF PaceInv

\* A picture that is dropped changes nothing the schedule is about; one that is
\* encoded moves it on by one interval.
LEMMA PictureKeepsSchedule ==
  ASSUME NEW at \in Nat, PaceInv, step = "decodes", profile' = profile,
         DropPicture(at) \/ EncodePicture(at)
  PROVE  /\ encoder_pts' \in Nat /\ next_output' \in Int
         /\ first_output' \in Nat /\ last_output' \in Nat
         /\ configured' = configured
         /\ step' \in {"decodes", "sends"}
         /\ Scheduled'
<1>1. /\ profile.interval \in Nat /\ encoder_pts \in Nat /\ next_output \in Int
      /\ first_output \in Nat /\ last_output \in Nat
      /\ configured = {profile} /\ Tolerance \in Nat
  BY ProfileType, SourceAssumption DEF PaceInv, Typed, Configured
<1>2. CASE DropPicture(at)
  BY <1>1, <1>2 DEF PaceInv, Scheduled, DropPicture, encoderVars, outputVars
<1>3. CASE EncodePicture(at) /\ encoder_pts = 0
  <2>1. Schedule(at) = at
    BY <1>1, <1>3 DEF PaceInv, Scheduled, Schedule
  <2> QED
    BY <1>1, <1>3, <2>1 DEF Scheduled, EncodePicture, ScheduleAfter
<1>4. CASE EncodePicture(at) /\ encoder_pts # 0
  <2>1. encoder_pts * profile.interval \in Nat
    BY <1>1
  <2>2. /\ next_output = first_output + encoder_pts * profile.interval
        /\ next_output >= 0
    BY <1>1, <1>4, <2>1 DEF PaceInv, Scheduled
  <2>3. /\ encoder_pts' = encoder_pts + 1 /\ first_output' = first_output
        /\ last_output' = at /\ at + Tolerance >= next_output
        /\ next_output' = next_output + profile.interval
        /\ configured' = configured
        /\ step' = "sends"
    BY <1>1, <1>4, <2>2 DEF EncodePicture, Schedule, ScheduleAfter
  <2>4. (encoder_pts + 1) * profile.interval
          = encoder_pts * profile.interval + profile.interval
    BY <1>1
  <2> QED
    BY <1>1, <2>1, <2>2, <2>3, <2>4 DEF Scheduled
<1> QED
  BY <1>2, <1>3, <1>4

\* What keeps the profile, the encoder and its schedule keeps their invariants.
LEMMA EncoderUnchanged ==
  ASSUME PaceInv, profile' = profile, UNCHANGED <<encoderVars, outputVars>>,
         step' = "decodes" => step = "decodes"
  PROVE  Configured' /\ Scheduled'
BY DEF PaceInv, Configured, Scheduled, encoderVars, outputVars

LEMMA NextPaceInv == PaceInv /\ [Next]_vars => PaceInv'
<1> SUFFICES ASSUME PaceInv, [Next]_vars PROVE PaceInv'
  OBVIOUS
<1> USE DEF PaceInv
<1>p. profile.interval \in Nat
  BY ProfileType DEF Typed
<1>1. CASE \E wanted \in Profiles, force \in BOOLEAN : AskFrame(wanted, force)
  <2> PICK wanted \in Profiles, force \in BOOLEAN : AskFrame(wanted, force)
    BY <1>1
  <2>1. Typed'
    BY DEF AskFrame, NewSchedule, Typed, encoderVars, fileVars, outputVars, paceVars
  <2>2. Configured'
    BY DEF AskFrame, Configured, encoderVars
  <2>3. Scheduled'
    <3>1. CASE configured = {wanted}
      <4>1. wanted = profile
        BY <3>1 DEF Configured
      <4> QED
        BY <3>1, <4>1 DEF AskFrame, Scheduled, encoderVars, outputVars
    <3>2. CASE configured # {wanted}
      BY <3>2 DEF AskFrame, Scheduled, NewSchedule
    <3> QED
      BY <3>1, <3>2
  <2>4. Paced'
    BY DEF AskFrame, Paced, paceVars
  <2> QED
    BY <2>1, <2>2, <2>3, <2>4
<1>2. CASE FeedDecoder
  <2>1. position' \in Nat /\ held' \in Seq(Nat)
    <3>1. CASE input_eof \/ position >= Len(FileTimes)
      BY <1>2, <3>1, FileTimesType DEF FeedDecoder, Typed
    <3>2. CASE ~input_eof /\ position < Len(FileTimes)
      <4>1. FileTimes[position + 1] \in Nat
        BY <3>2, FileTimesType DEF Typed
      <4>2. position' = position + 1 /\ held' = Append(held, FileTimes[position + 1])
        BY <1>2, <3>2 DEF FeedDecoder
      <4> QED
        BY <4>1, <4>2 DEF Typed
    <3> QED
      BY <3>1, <3>2, FileTimesType DEF Typed
  <2>t. Typed'
    BY <1>2, <2>1 DEF FeedDecoder, Typed, encoderVars, outputVars, paceVars
  <2>2. Configured' /\ Scheduled'
    BY <1>2, EncoderUnchanged DEF FeedDecoder
  <2>3. Paced'
    BY <1>2 DEF FeedDecoder, Paced, paceVars
  <2> QED
    BY <2>t, <2>2, <2>3
<1>3. CASE EndOfFile
  <2>1. Typed'
    BY <1>3 DEF EndOfFile, NewSchedule, Typed, outputVars
  <2>2. Configured' /\ Scheduled'
    BY <1>3 DEF EndOfFile, Configured, Scheduled
  <2>3. Paced'
    BY <1>3 DEF EndOfFile, Paced, Typed
  <2> QED
    BY <2>1, <2>2, <2>3
<1>4. CASE FilePicture
  <2>1. Head(held) \in Nat /\ held' \in Seq(Nat)
    BY <1>4 DEF FilePicture, Typed
  <2>2. /\ encoder_pts' \in Nat /\ next_output' \in Int
        /\ first_output' \in Nat /\ last_output' \in Nat
        /\ configured' = configured
        /\ step' \in {"decodes", "sends"}
        /\ Scheduled'
    BY <1>4, <2>1, PictureKeepsSchedule DEF FilePicture
  <2>3. Typed'
    BY <1>4, <2>1, <2>2 DEF FilePicture, Typed, paceVars
  <2>4. Configured'
    BY <1>4, <2>2 DEF FilePicture, Configured
  <2>5. Paced'
    BY <1>4, <2>2 DEF FilePicture, Paced, paceVars
  <2> QED
    BY <2>2, <2>3, <2>4, <2>5
<1>5. CASE CameraPicture
  <2>1. now \in Nat
    BY DEF Typed
  <2>2. /\ encoder_pts' \in Nat /\ next_output' \in Int
        /\ first_output' \in Nat /\ last_output' \in Nat
        /\ configured' = configured
        /\ step' \in {"decodes", "sends"}
        /\ Scheduled'
    BY <1>5, <2>1, PictureKeepsSchedule DEF CameraPicture
  <2>3. Typed'
    BY <1>5, <2>2 DEF CameraPicture, Typed, fileVars, paceVars
  <2>4. Configured'
    BY <1>5, <2>2 DEF CameraPicture, Configured
  <2>5. Paced'
    BY <1>5, <2>2 DEF CameraPicture, Paced, paceVars
  <2> QED
    BY <2>2, <2>3, <2>4, <2>5
<1>6. CASE \/ \E size \in FrameSizes :
                \/ SendFrame(size)
                \/ \E delay \in RetryDelays : SendFails(size, delay)
           \/ Retry \/ CloseConnection \/ Wake \/ Stop
  <2>1. /\ UNCHANGED <<now, input, profile, encoderVars, fileVars, outputVars>>
        /\ UNCHANGED <<next_frame_at, earliest>>
    BY <1>6 DEF SendFrame, SendFails, Retry, CloseConnection, Wake, Stop, paceVars
  <2>2. step' # "decodes"
    BY <1>6 DEF SendFrame, SendFails, Retry, CloseConnection, Wake, Stop
  <2>3. step = "sleeps" => now >= next_frame_at
    BY <1>6 DEF SendFrame, SendFails, Retry, CloseConnection, Wake, Stop
  <2>4. Typed'
    BY <2>1 DEF Typed, encoderVars, fileVars, outputVars
  <2>5. Configured' /\ Scheduled'
    BY <2>1, <2>2, EncoderUnchanged
  <2>6. Paced'
    BY <2>1, <2>3 DEF Paced, Typed
  <2> QED
    BY <2>4, <2>5, <2>6
<1>7. CASE Pace
  <2>1. /\ next_frame_at' \in Nat /\ next_frame_at' >= now
        /\ next_frame_at' >= next_frame_at + profile.interval
    BY <1>7, <1>p DEF Pace, Restarted, Typed
  <2>2. /\ earliest' \in Nat
        /\ earliest' = now \/ earliest' = earliest + profile.interval
    BY <1>7, <1>p DEF Pace, Typed
  <2>3. Typed'
    BY <1>7, <2>1, <2>2 DEF Pace, Typed, encoderVars, fileVars, outputVars
  <2>4. Configured' /\ Scheduled'
    BY <1>7, EncoderUnchanged DEF Pace
  <2>5. Paced'
    BY <1>7, <1>p, <2>1, <2>2 DEF Pace, Paced, Typed
  <2> QED
    BY <2>3, <2>4, <2>5
<1>8. CASE Connect
  <2>1. Typed'
    BY <1>8 DEF Connect, Typed, encoderVars, fileVars, outputVars
  <2>2. Configured' /\ Scheduled'
    BY <1>8, EncoderUnchanged DEF Connect
  <2>3. Paced'
    BY <1>8 DEF Connect, Paced, Typed
  <2> QED
    BY <2>1, <2>2, <2>3
<1>9. CASE Pass
  <2>1. Typed'
    BY <1>9 DEF Pass, Typed, encoderVars, fileVars, outputVars, paceVars
  <2>2. Configured' /\ Scheduled'
    BY <1>9, EncoderUnchanged DEF Pass
  <2>3. Paced'
    BY <1>9 DEF Pass, Paced, Typed, paceVars
  <2> QED
    BY <2>1, <2>2, <2>3
<1>10. CASE UNCHANGED vars
  <2>1. Typed'
    BY <1>10 DEF vars, Typed, encoderVars, fileVars, outputVars, paceVars
  <2>2. Configured' /\ Scheduled'
    BY <1>10, EncoderUnchanged DEF vars
  <2>3. Paced'
    BY <1>10 DEF vars, Paced, paceVars
  <2> QED
    BY <2>1, <2>2, <2>3
<1> QED
  BY <1>1, <1>2, <1>3, <1>4, <1>5, <1>6, <1>7, <1>8, <1>9, <1>10 DEF Next

LEMMA PaceInvHolds == Spec => []PaceInv
<1>1. Init => PaceInv
  BY InitPaceInv
<1>2. PaceInv /\ [Next]_vars => PaceInv'
  BY NextPaceInv
<1> QED
  BY <1>1, <1>2, PTL DEF Spec

LEMMA PaceInvBoundsTheRate == PaceInv => BurstsOnlyCatchUp
<1> SUFFICES ASSUME PaceInv, configured = {profile}, encoder_pts > 0
             PROVE  (encoder_pts - 1) * profile.interval
                      <= last_output - first_output + Tolerance
  BY DEF BurstsOnlyCatchUp
<1>1. /\ profile.interval \in Nat /\ encoder_pts \in Nat /\ next_output \in Int
      /\ first_output \in Nat /\ last_output \in Nat /\ Tolerance \in Nat
  BY ProfileType, SourceAssumption DEF PaceInv, Typed
<1>2. (encoder_pts - 1) * profile.interval
        = encoder_pts * profile.interval - profile.interval
  BY <1>1
<1>3. encoder_pts * profile.interval \in Nat
  BY <1>1
<1> QED
  BY <1>1, <1>2, <1>3 DEF PaceInv, Scheduled

\* However a source stalls, a burst only makes up for the frames that were missed
\* since its encoder's first: for any profiles, any file or camera.
THEOREM BurstsAlwaysCatchUp == Spec => []BurstsOnlyCatchUp
BY PaceInvHolds, PaceInvBoundsTheRate, PTL

\* Late frames of a file are not followed by a burst: from any of the frames that
\* are paced to any later one, for any profiles, delays of the decoder, the encoder
\* and the loop, failed sends and new connections.
THEOREM LateFramesNeverBurst == Spec => []LateFramesDoNotBurst
<1>1. PaceInv => LateFramesDoNotBurst
  BY DEF PaceInv, Typed, Paced, LateFramesDoNotBurst
<1> QED
  BY <1>1, PaceInvHolds, PTL

-----------------------------------------------------------------------------
(* The blocks. *)

\* A profile's parity ratios and minimum are what encode_blocks asks for.
LEMMA RatioType == Typed => Ratio \in Nat /\ profile.min_data_shards \in Nat
BY ProfileType DEF Typed, Ratio

LEMMA NextBlocks == Typed /\ Blocks /\ [Next]_vars => Blocks'
<1> SUFFICES ASSUME Typed, Blocks, [Next]_vars PROVE Blocks'
  OBVIOUS
<1>1. CASE UNCHANGED blocks
  BY <1>1 DEF Blocks
<1>2. ASSUME NEW size \in FrameSizes, EncodePackets(size), blocks' # blocks
      PROVE  Blocks'
  <2> DEFINE minimum == profile.min_data_shards
             n == CeilDiv(size, MaximumBlockBytes(Ratio))
  <2>1. size \in Nat /\ Ratio \in Nat /\ minimum \in Nat
    BY RatioType, SourceAssumption
  <2>2. /\ Encodes(size, Ratio, minimum)
        /\ n <= MaxBlocks
        /\ blocks' = EncodeBlocks(size, Ratio, minimum)
    BY <1>2 DEF EncodePackets
  <2>3. \A i \in 1..n : Decodable(blocks'[i])
    BY <2>1, <2>2, EveryBlockIsDecodable
  <2>4. n \in Nat
    BY <2>1, <2>2, BlocksAreTheFrame
  <2>5. Len(blocks') = n
    BY <2>2, <2>4 DEF EncodeBlocks
  <2> QED
    BY <2>2, <2>3, <2>5 DEF Blocks
<1>3. (\E size \in FrameSizes : EncodePackets(size)) \/ UNCHANGED blocks
  BY DEF Next, vars, AskFrame, FeedDecoder, EndOfFile, FilePicture, CameraPicture, SendFrame,
         SendFails, Retry, CloseConnection, Connect, Pace, Wake, Stop, Pass
<1> QED
  BY <1>1, <1>2, <1>3

\* Every block of a frame that is sent can be decoded, for any parity ratios,
\* minimums and frame sizes.
THEOREM BlocksAlwaysDecodable == Spec => []BlocksCanBeDecoded
<1>1. Init => Blocks
  BY FecAssumption DEF Init, Blocks
<1>2. Typed /\ Blocks /\ [Next]_vars => Blocks'
  BY NextBlocks
<1>3. PaceInv => Typed
  BY DEF PaceInv
<1>4. Blocks => BlocksCanBeDecoded
  BY DEF Blocks, BlocksCanBeDecoded
<1> QED
  BY <1>1, <1>2, <1>3, <1>4, PaceInvHolds, PTL DEF Spec

-----------------------------------------------------------------------------
(* The encoder's epoch. *)

After(e) == IF e = LastEpoch THEN 1 ELSE e + 1

\* A file with no picture gives no frame.
NoPictures == input = "file" /\ Len(FileTimes) = 0

\* Some picture of the file is still to come.
PictureToCome ==
  input = "file" /\ (held # <<>> \/ (position = 0 /\ ~input_eof))

FileInv ==
  /\ NoPictures => held = <<>>
  /\ decoder_flushed => input_eof
  /\ input_eof => position >= Len(FileTimes)

\* How far the epoch is from that of the last frame: one epoch, and two where an
\* encoder gave no frame before its file ended, which then gives one.
EpochInv ==
  /\ epoch \in 0..LastEpoch
  /\ frame.epoch \in 0..LastEpoch
  /\ configured # {} => epoch # 0
  /\ configured = {profile} /\ encoder_pts > 0 =>
       epoch = frame.epoch /\ profile = frame.profile
  /\ configured = {profile} /\ encoder_pts = 0 =>
       /\ step = "decodes"
       /\ forced
       /\ \/ epoch = After(frame.epoch)
          \/ epoch = After(After(frame.epoch)) /\ PictureToCome
          \/ NoPictures
  /\ configured = {} =>
       \/ epoch = frame.epoch
       \/ epoch = After(frame.epoch) /\ PictureToCome
       \/ NoPictures

EpochIInv == PaceInv /\ FileInv /\ EpochInv

LEMMA InitEpochIInv == Init => FileInv /\ EpochInv
BY SourceAssumption DEF Init, FileInv, EpochInv, NoPictures, NoFrame

LEMMA AfterType ==
  ASSUME NEW e \in 0..LastEpoch
  PROVE  /\ After(e) \in 1..LastEpoch
         /\ After(e) # e /\ After(After(e)) # e
         /\ After(e) < e \/ After(After(e)) < e => e >= LastEpoch - 1
BY SourceAssumption DEF After

\* What the file's decoder does.
LEMMA NextFileInv == EpochIInv /\ [Next]_vars => FileInv'
<1> SUFFICES ASSUME EpochIInv, [Next]_vars PROVE FileInv'
  OBVIOUS
<1> USE DEF EpochIInv, FileInv, NoPictures
<1>1. position \in Nat /\ held \in Seq(Nat) /\ Len(FileTimes) \in Nat
  BY FileTimesType DEF PaceInv, Typed
<1>2. CASE FeedDecoder
  <2>1. CASE ~input_eof /\ position < Len(FileTimes)
    BY <1>1, <1>2, <2>1 DEF FeedDecoder
  <2>2. CASE input_eof \/ position >= Len(FileTimes)
    BY <1>1, <1>2, <2>2 DEF FeedDecoder
  <2> QED
    BY <1>1, <2>1, <2>2
<1>3. CASE EndOfFile
  BY <1>1, <1>3 DEF EndOfFile
<1>4. CASE FilePicture
  BY <1>1, <1>4 DEF FilePicture
<1>5. CASE UNCHANGED <<input, fileVars>>
  BY <1>5 DEF fileVars
<1>6. FeedDecoder \/ EndOfFile \/ FilePicture \/ UNCHANGED <<input, fileVars>>
  BY DEF Next, vars, AskFrame, CameraPicture, SendFrame, SendFails, Retry, CloseConnection,
         Connect, Pace, Wake, Stop, Pass
<1> QED
  BY <1>2, <1>3, <1>4, <1>5, <1>6

\* The first picture of an encoder is never dropped.
LEMMA FirstPictureIsEncoded ==
  ASSUME PaceInv, step = "decodes", encoder_pts = 0, NEW at \in Nat, DropPicture(at)
  PROVE  FALSE
<1>1. next_output = -1
  BY DEF PaceInv, Configured, Scheduled
<1>2. Schedule(at) = at
  BY <1>1 DEF Schedule
<1> QED
  BY <1>2, SourceAssumption DEF DropPicture

\* A picture keeps the invariant.
LEMMA PictureKeepsEpoch ==
  ASSUME EpochIInv, NEW at \in Nat, step = "decodes",
         UNCHANGED <<input, profile>>,
         NoPictures => FALSE,
         DropPicture(at) \/ EncodePicture(at)
  PROVE  EpochInv'
<1>1. /\ configured = {profile} /\ encoder_pts \in Nat
      /\ epoch \in 0..LastEpoch /\ frame.epoch \in 0..LastEpoch /\ epoch # 0
  BY DEF EpochIInv, PaceInv, Typed, Configured, EpochInv
<1>2. CASE DropPicture(at)
  <2>1. encoder_pts > 0
    BY <1>1, <1>2, FirstPictureIsEncoded DEF EpochIInv
  <2> QED
    BY <1>1, <1>2, <2>1
    DEF EpochIInv, EpochInv, DropPicture, encoderVars, outputVars
<1>3. CASE EncodePicture(at)
  <2>1. /\ encoder_pts' > 0 /\ configured' = configured /\ epoch' = epoch
        /\ frame'.epoch = epoch /\ frame'.profile = profile
    BY <1>1, <1>3 DEF EncodePicture
  <2> QED
    BY <1>1, <2>1 DEF EpochInv
<1> QED
  BY <1>2, <1>3

\* A step that leaves the encoder and the last frame alone, and does not decode.
LEMMA QuietKeepsEpoch ==
  ASSUME EpochIInv, UNCHANGED <<input, profile, encoderVars, fileVars, outputVars>>,
         step = "decodes" => UNCHANGED <<step, forced>>
  PROVE  EpochInv'
BY DEF EpochIInv, EpochInv, PictureToCome, NoPictures, encoderVars, fileVars, outputVars

LEMMA NextEpochInv == EpochIInv /\ [Next]_vars => EpochInv'
<1> SUFFICES ASSUME EpochIInv, [Next]_vars PROVE EpochInv'
  OBVIOUS
<1> USE DEF EpochIInv
<1>t. /\ position \in Nat /\ held \in Seq(Nat) /\ Len(FileTimes) \in Nat
      /\ encoder_pts \in Nat /\ now \in Nat
      /\ epoch \in 0..LastEpoch /\ frame.epoch \in 0..LastEpoch
      /\ input \in {"file", "camera"}
  BY FileTimesType DEF PaceInv, Typed, EpochInv
<1>1. ASSUME NEW wanted \in Profiles, NEW force \in BOOLEAN, AskFrame(wanted, force)
      PROVE  EpochInv'
  <2>1. CASE configured = {wanted}
    <3>1. wanted = profile
      BY <2>1 DEF PaceInv, Configured
    <3>2. encoder_pts > 0
      BY <1>t, <1>1, <2>1, <3>1 DEF AskFrame, EpochInv
    <3> QED
      BY <1>1, <2>1, <3>1, <3>2 DEF AskFrame, EpochInv, encoderVars, outputVars
  <2>2. CASE configured # {wanted}
    <3>1. /\ epoch' = After(epoch) /\ configured' = {wanted} /\ profile' = wanted
          /\ encoder_pts' = 0 /\ frame' = frame /\ step' = "decodes" /\ forced'
          /\ PictureToCome' = PictureToCome /\ NoPictures' = NoPictures
      BY <1>1, <2>2
      DEF AskFrame, NextEpoch, After, outputVars, fileVars, PictureToCome, NoPictures
    <3>2. epoch' \in 1..LastEpoch
      BY <1>t, <3>1, AfterType
    <3>3. \/ epoch = frame.epoch
          \/ epoch = After(frame.epoch) /\ PictureToCome
          \/ NoPictures
      <4>1. CASE configured = {}
        BY <4>1 DEF EpochInv
      <4>2. CASE configured = {profile}
        BY <1>t, <1>1, <4>2 DEF AskFrame, EpochInv
      <4> QED
        BY <4>1, <4>2 DEF PaceInv, Configured
    <3>4. \/ epoch' = After(frame'.epoch)
          \/ epoch' = After(After(frame'.epoch)) /\ PictureToCome'
          \/ NoPictures'
      BY <3>1, <3>3
    <3> QED
      BY <1>t, <3>1, <3>2, <3>4 DEF EpochInv
  <2> QED
    BY <2>1, <2>2
<1>2. CASE FeedDecoder
  <2>1. UNCHANGED <<input, step, forced, profile, encoderVars, outputVars>>
    BY <1>2 DEF FeedDecoder
  <2>2. PictureToCome => PictureToCome' \/ NoPictures
    <3>1. CASE held # <<>>
      BY <1>t, <1>2, <3>1 DEF FeedDecoder, PictureToCome
    <3>2. CASE position = 0 /\ ~input_eof
      BY <1>t, <1>2, <3>2 DEF FeedDecoder, PictureToCome, NoPictures
    <3> QED
      BY <3>1, <3>2 DEF PictureToCome
  <2> QED
    BY <2>1, <2>2 DEF EpochInv, NoPictures, encoderVars, outputVars
<1>3. CASE EndOfFile
  <2>1. /\ configured' = {} /\ epoch' = epoch /\ frame' = frame
        /\ PictureToCome' /\ NoPictures' = NoPictures
    BY <1>3 DEF EndOfFile, outputVars, PictureToCome, NoPictures
  <2>2. configured = {profile}
    BY <1>3 DEF EndOfFile, PaceInv, Configured
  <2>3. PictureToCome => NoPictures
    BY <1>t, <1>3 DEF EndOfFile, FileInv, PictureToCome, NoPictures
  <2>4. epoch \in {frame.epoch, After(frame.epoch)} \/ NoPictures
    BY <1>t, <2>2, <2>3 DEF EpochInv
  <2> QED
    BY <1>t, <2>1, <2>4 DEF EpochInv
<1>4. CASE FilePicture
  <2>1. Head(held) \in Nat /\ ~NoPictures
    BY <1>t, <1>4 DEF FilePicture, FileInv
  <2> QED
    BY <1>4, <2>1, PictureKeepsEpoch DEF FilePicture
<1>5. CASE CameraPicture
  <2>1. ~NoPictures
    BY <1>5 DEF CameraPicture, NoPictures
  <2> QED
    BY <1>t, <1>5, <2>1, PictureKeepsEpoch DEF CameraPicture
<1>6. CASE \/ \E size \in FrameSizes :
                \/ SendFrame(size)
                \/ \E delay \in RetryDelays : SendFails(size, delay)
           \/ Retry \/ CloseConnection \/ Connect
           \/ Pace \/ Wake \/ Stop \/ Pass \/ UNCHANGED vars
  <2>1. /\ UNCHANGED <<input, profile, encoderVars, fileVars, outputVars>>
        /\ step = "decodes" => UNCHANGED <<step, forced>>
    BY <1>6
    DEF SendFrame, SendFails, Retry, CloseConnection, Connect, Pace, Wake, Stop, Pass, vars
  <2> QED
    BY <2>1, QuietKeepsEpoch
<1> QED
  BY <1>1, <1>2, <1>3, <1>4, <1>5, <1>6 DEF Next

\* A frame is encoded by the step that begins to send it.
LEMMA FirstFrameHasItsEpoch ==
  ASSUME EpochIInv, [Next]_vars, step = "decodes", step' = "sends"
  PROVE  IF frame'.first
         THEN /\ frame'.keyframe
              /\ frame'.epoch \notin {0, frame.epoch}
              /\ frame'.epoch < frame.epoch => frame.epoch >= LastEpoch - 1
         ELSE frame'.epoch = frame.epoch /\ frame'.profile = frame.profile
<1>1. PICK at : EncodePicture(at) /\ ~NoPictures
  <2>1. CASE FilePicture
    BY <2>1 DEF FilePicture, DropPicture, EpochIInv, FileInv
  <2>2. CASE CameraPicture
    BY <2>2 DEF CameraPicture, DropPicture, NoPictures
  <2>3. FilePicture \/ CameraPicture
    BY DEF Next, vars, AskFrame, FeedDecoder, EndOfFile, SendFrame, SendFails, Retry,
           CloseConnection, Connect, Pace, Wake, Stop, Pass
  <2> QED
    BY <2>1, <2>2, <2>3
<1>2. /\ configured = {profile} /\ encoder_pts \in Nat /\ frame.epoch \in 0..LastEpoch
  BY DEF EpochIInv, PaceInv, Typed, Configured, EpochInv
<1>3. /\ frame'.first <=> encoder_pts = 0
      /\ frame'.epoch = epoch /\ frame'.profile = profile
      /\ forced => frame'.keyframe
  <2>1. PICK keyframe \in IF forced THEN {TRUE} ELSE BOOLEAN :
          frame' = [epoch |-> epoch, profile |-> profile, keyframe |-> keyframe,
                    first |-> encoder_pts = 0]
    BY <1>1 DEF EncodePicture
  <2>2. forced => keyframe
    BY <2>1
  <2>3. /\ frame'.first = (encoder_pts = 0) /\ frame'.keyframe = keyframe
        /\ frame'.epoch = epoch /\ frame'.profile = profile
    BY <2>1
  <2> QED
    BY <2>2, <2>3
<1>4. CASE encoder_pts = 0
  <2>1. forced /\ epoch # 0 /\ epoch \in {After(frame.epoch), After(After(frame.epoch))}
    BY <1>1, <1>2, <1>4 DEF EpochIInv, EpochInv
  <2> QED
    BY <1>2, <1>3, <1>4, <2>1, AfterType
<1>5. CASE encoder_pts # 0
  <2>1. epoch = frame.epoch /\ profile = frame.profile
    BY <1>2, <1>5 DEF EpochIInv, EpochInv
  <2> QED
    BY <1>3, <1>5, <2>1
<1> QED
  BY <1>4, <1>5

\* The receiver can tell encoders by their epochs: for any profiles, any file
\* and any number of encoders, the 16 bits of the epoch wrapping included; and
\* short of the wrap the epochs grow.
THEOREM EpochAlwaysNamesTheEncoder == Spec => EpochNamesTheEncoder
<1>1. Init => EpochIInv
  BY InitPaceInv, InitEpochIInv DEF EpochIInv
<1>2. EpochIInv /\ [Next]_vars => EpochIInv'
  BY NextPaceInv, NextFileInv, NextEpochInv DEF EpochIInv
<1>3. EpochIInv /\ [Next]_vars =>
        [step = "decodes" /\ step' = "sends" =>
           IF frame'.first
           THEN /\ frame'.keyframe
                /\ frame'.epoch \notin {0, frame.epoch}
                /\ frame'.epoch < frame.epoch => frame.epoch >= LastEpoch - 1
           ELSE frame'.epoch = frame.epoch /\ frame'.profile = frame.profile]_vars
  BY FirstFrameHasItsEpoch
<1> QED
  BY <1>1, <1>2, <1>3, PTL DEF Spec, EpochNamesTheEncoder
=============================================================================
