------------------------------ MODULE VideoSource ------------------------------
(***************************************************************************)
(* Where the sender's frames come from: VideoSourceReader of               *)
(* src/video/video_source_reader.cpp reads a file or a camera, drops       *)
(* pictures until one is due at the profile's rate, and encodes it; the    *)
(* sender cuts the frame into blocks (FecLayout), sends it, and when the   *)
(* input is a file waits for the next (FramePacer).  A send that fails is  *)
(* followed by a sleep of its own instead, or ends the SRT connection.     *)
(*                                                                         *)
(* A profile is a record: `interval` between its frames, the parity ratios *)
(* `ratio` and `keyframe_ratio`, `min_data_shards`, and `all_intra`.       *)
(* FFmpeg, x264 and V4L2 are external: the decoder holds back as many      *)
(* pictures as it likes, the encoder (zerolatency) gives one frame for     *)
(* each picture, of any size, a keyframe where it is told to or at will,   *)
(* and the camera gives a picture at any time.  The source opens again     *)
(* when it is reset; the sender's loop is one of SrtSession or UdpSender.  *)
(***************************************************************************)
EXTENDS FecLayout, Sequences

CONSTANTS
  Profiles,
  Inputs,        \* config_.input: some of "file", "camera"
  FileTimes,     \* the times of the file's pictures, in order
  FrameSizes,    \* bytes of an encoded frame
  LastEpoch,     \* 65535, the last value of the 16-bit epoch_
  Tolerance,     \* a picture may be this early, 0.1 ms
  RetryDelays,   \* the sleeps after a failed send: 20 ms over UDP, 100 over SRT
  MaxTime        \* bound of the model

ASSUME SourceAssumption ==
  /\ Profiles \subseteq [interval : Nat, ratio : Nat, keyframe_ratio : Nat,
                         min_data_shards : Nat \ {0}, all_intra : BOOLEAN]
  /\ Inputs \subseteq {"file", "camera"}
  /\ FileTimes \in Seq(Nat)
  /\ \A i, j \in 1..Len(FileTimes) : i < j => FileTimes[i] <= FileTimes[j]
  /\ FrameSizes \subseteq Nat
  /\ LastEpoch \in Nat /\ LastEpoch >= 3
  /\ Tolerance \in Nat
  /\ RetryDelays \subseteq Nat
  /\ MaxTime \in Nat

VARIABLES
  now,               \* monotonic_us
  input,             \* does not change
  step,              \* "asks" for a frame; "decodes", in next_frame; "sends"
                     \* it; "paces", at sleep_until_next_file_frame; "sleeps"
                     \* in it; "retries", in the sleep after a failed send;
                     \* "connects", without an SRT connection; "stopped"
  profile,           \* of the frame asked for
  forced,            \* force_keyframe in next_frame
  \* the encoder
  configured,        \* {} or {encoder_profile_}
  epoch,             \* epoch_
  encoder_pts,
  next_output,       \* next_output_source_seconds_, -1 before the first picture
  \* the file
  position,          \* pictures read from it
  held,              \* those the decoder holds
  input_eof, decoder_flushed,
  next_frame_at,     \* the pacer's
  retry_at,          \* the end of the sleep after a failed send
  \* history
  frame,             \* the last frame: [epoch, profile, keyframe, first], where
                     \* `first` says it is the first of its encoder
  first_output, last_output,   \* source times of the encoder's first, last frame
  blocks,            \* the blocks of the last frame that was split
  earliest           \* the time an earlier frame was paced at, whichever one
                     \* likes, and the intervals of the frames paced since

encoderVars == <<configured, epoch, encoder_pts, next_output>>
fileVars == <<position, held, input_eof, decoder_flushed>>
outputVars == <<frame, first_output, last_output>>
paceVars == <<next_frame_at, retry_at, earliest>>
vars == <<now, input, step, profile, forced, encoderVars, fileVars, outputVars,
          blocks, paceVars>>

NoFrame == [epoch |-> 0, first |-> FALSE, keyframe |-> FALSE]

Init ==
  /\ now = 0
  /\ input \in Inputs
  /\ step = "asks"
  /\ profile \in Profiles
  /\ forced = FALSE
  /\ configured = {}
  /\ epoch = 0
  /\ encoder_pts = 0
  /\ next_output = -1
  /\ position = 0
  /\ held = <<>>
  /\ input_eof = FALSE
  /\ decoder_flushed = FALSE
  /\ next_frame_at = 0
  /\ frame = NoFrame
  /\ first_output = 0
  /\ last_output = 0
  /\ blocks = <<>>
  /\ retry_at = 0
  /\ earliest = 0

-----------------------------------------------------------------------------
(* next_frame up to the loop: the encoder for the profile. *)

\* Mutant: the epoch 0 is not skipped.
WrapToZero == (epoch + 1) % (LastEpoch + 1)

\* configure_encoder: 16 bits, and 0 is skipped.
NextEpoch == IF epoch = LastEpoch THEN 1 ELSE epoch + 1

\* Mutant: a new encoder goes on with the schedule of the one before.
OldSchedule == next_output

\* The schedule of a new encoder begins with its first picture.
NewSchedule == -1

AskFrame(wanted, force) ==
  /\ step = "asks"
  /\ step' = "decodes"
  /\ profile' = wanted
  /\ IF configured = {wanted}
     THEN /\ forced' = (force \/ wanted.all_intra)
          /\ UNCHANGED encoderVars
     ELSE /\ forced' = TRUE
          /\ configured' = {wanted}
          /\ epoch' = NextEpoch
          /\ encoder_pts' = 0
          /\ next_output' = NewSchedule
  /\ UNCHANGED <<now, input, fileVars, outputVars, blocks, paceVars>>

-----------------------------------------------------------------------------
(* The file: next_file_frame.  The decoder wants more before it gives a    *)
(* picture: it is fed, or told that there is no more.                      *)

FeedDecoder ==
  /\ step = "decodes" /\ input = "file"
  /\ ~decoder_flushed
  /\ IF input_eof
     THEN decoder_flushed' = TRUE /\ UNCHANGED <<position, held, input_eof>>
     ELSE IF position < Len(FileTimes)
     THEN /\ position' = position + 1
          /\ held' = Append(held, FileTimes[position + 1])
          /\ UNCHANGED <<input_eof, decoder_flushed>>
     ELSE input_eof' = TRUE /\ UNCHANGED <<position, held, decoder_flushed>>
  /\ UNCHANGED <<now, input, step, profile, forced, encoderVars, outputVars, blocks,
                 paceVars>>

\* The file is at its end: next_frame gives nothing, and the sender reopens the
\* source, without its encoder, and restarts the pacer.
EndOfFile ==
  /\ step = "decodes" /\ input = "file"
  /\ decoder_flushed /\ held = <<>>
  /\ step' = "asks"
  /\ configured' = {}
  /\ next_output' = NewSchedule
  /\ position' = 0
  /\ input_eof' = FALSE
  /\ decoder_flushed' = FALSE
  /\ next_frame_at' = now
  /\ UNCHANGED <<now, input, profile, forced, epoch, encoder_pts, held, outputVars,
                 blocks, retry_at, earliest>>

-----------------------------------------------------------------------------
(* A picture of the source time `at` comes out of the decoder or the       *)
(* camera: should_output_decoded_frame, and the rest of next_frame.        *)

\* When a picture is due, and when the one after it is.
Schedule(at) == IF next_output < 0 THEN at ELSE next_output
ScheduleAfter(at) == Schedule(at) + profile.interval

\* Pictures that are not due yet are dropped.
DropPicture(at) ==
  /\ at + Tolerance < Schedule(at)
  /\ UNCHANGED <<step, forced, encoderVars, outputVars>>

EncodePicture(at) ==
  /\ at + Tolerance >= Schedule(at)
  /\ next_output' = ScheduleAfter(at)
  /\ encoder_pts' = encoder_pts + 1
  /\ \E keyframe \in IF forced THEN {TRUE} ELSE BOOLEAN :
       frame' = [epoch |-> epoch, profile |-> profile, keyframe |-> keyframe,
                 first |-> encoder_pts = 0]
  /\ first_output' = IF encoder_pts = 0 THEN at ELSE first_output
  /\ last_output' = at
  /\ forced' = FALSE
  /\ step' = "sends"
  /\ UNCHANGED <<configured, epoch>>

FilePicture ==
  /\ step = "decodes" /\ input = "file"
  /\ held # <<>>
  /\ held' = Tail(held)
  /\ DropPicture(Head(held)) \/ EncodePicture(Head(held))
  /\ UNCHANGED <<now, input, profile, position, input_eof, decoder_flushed, blocks,
                 paceVars>>

CameraPicture ==
  /\ step = "decodes" /\ input = "camera"
  /\ DropPicture(now) \/ EncodePicture(now)
  /\ UNCHANGED <<now, input, profile, fileVars, blocks, paceVars>>

-----------------------------------------------------------------------------
(* The sender's loop: the frame is cut into blocks and sent, and the loop  *)
(* waits for the next when the input is a file.                            *)

Ratio == IF frame.keyframe THEN profile.keyframe_ratio ELSE profile.ratio

\* A frame that does not split, or is cut into too many blocks, is not sent.
EncodePackets(size) ==
  IF Encodes(size, Ratio, profile.min_data_shards)
     /\ CeilDiv(size, MaximumBlockBytes(Ratio)) <= MaxBlocks
  THEN blocks' = EncodeBlocks(size, Ratio, profile.min_data_shards)
  ELSE UNCHANGED blocks

\* Sent; or not, where that begins a recovery (UDP with feedback) or counts as
\* sent (SRT, a frame that does not split).
SendFrame(size) ==
  /\ step = "sends"
  /\ step' = IF input = "file" THEN "paces" ELSE "asks"
  /\ EncodePackets(size)
  /\ UNCHANGED <<now, input, profile, forced, encoderVars, fileVars, outputVars,
                 paceVars>>

\* UDP before the first feedback, or SRT that would block: the loop sleeps and
\* goes on with the next frame, past the pacer.
SendFails(size, delay) ==
  /\ step = "sends"
  /\ step' = "retries"
  /\ retry_at' = now + delay
  /\ EncodePackets(size)
  /\ UNCHANGED <<now, input, profile, forced, encoderVars, fileVars, outputVars,
                 next_frame_at, earliest>>

Retry ==
  /\ step = "retries"
  /\ now >= retry_at
  /\ step' = "asks"
  /\ retry_at' = 0
  /\ UNCHANGED <<now, input, profile, forced, encoderVars, fileVars, outputVars,
                 blocks, next_frame_at, earliest>>

\* The SRT connection ends at the reports or in a send ...
CloseConnection ==
  /\ \/ step = "asks" /\ UNCHANGED blocks
     \/ step = "sends" /\ \E size \in FrameSizes : EncodePackets(size)
  /\ step' = "connects"
  /\ UNCHANGED <<now, input, profile, forced, encoderVars, fileVars, outputVars,
                 paceVars>>

\* ... and the next one has a pacer of its own.
Connect ==
  /\ step = "connects"
  /\ step' = "asks"
  /\ next_frame_at' = now
  /\ UNCHANGED <<now, input, profile, forced, encoderVars, fileVars, outputVars,
                 blocks, retry_at, earliest>>

\* Mutant: a late frame leaves the schedule behind.
CatchUp(next) == next

\* A schedule that fell behind restarts now.
Restarted(next) == IF next <= now THEN now ELSE next

\* delay_after_frame.
Pace ==
  /\ step = "paces"
  /\ step' = "sleeps"
  /\ next_frame_at' = Restarted(next_frame_at + profile.interval)
  /\ earliest' \in {earliest + profile.interval, now}
  /\ UNCHANGED <<now, input, profile, forced, encoderVars, fileVars, outputVars,
                 blocks, retry_at>>

Wake ==
  /\ step = "sleeps"
  /\ now >= next_frame_at
  /\ step' = "asks"
  /\ UNCHANGED <<now, input, profile, forced, encoderVars, fileVars, outputVars,
                 blocks, paceVars>>

\* g_stop_requested.
Stop ==
  /\ step \in {"asks", "connects"}
  /\ step' = "stopped"
  /\ UNCHANGED <<now, input, profile, forced, encoderVars, fileVars, outputVars,
                 blocks, paceVars>>

Pass ==
  /\ now < MaxTime
  /\ now' = now + 1
  /\ UNCHANGED <<input, step, profile, forced, encoderVars, fileVars, outputVars,
                 blocks, paceVars>>

-----------------------------------------------------------------------------
Next ==
  \/ \E wanted \in Profiles, force \in BOOLEAN : AskFrame(wanted, force)
  \/ FeedDecoder
  \/ EndOfFile
  \/ FilePicture
  \/ CameraPicture
  \/ \E size \in FrameSizes : SendFrame(size)
  \/ \E size \in FrameSizes, delay \in RetryDelays : SendFails(size, delay)
  \/ Retry
  \/ CloseConnection
  \/ Connect
  \/ Pace
  \/ Wake
  \/ Stop
  \/ Pass

Spec == Init /\ [][Next]_vars

-----------------------------------------------------------------------------
(* Profiles change, the file loops and the 16-bit epoch wraps: the first   *)
(* frame of an encoder is a keyframe under an epoch that is neither 0 nor  *)
(* the one before, and every other frame has the epoch and the profile of  *)
(* the frame before it, so that the receiver knows a new decoder state by  *)
(* its epoch.  An epoch below the one before, which the receiver takes for *)
(* an old one, comes only at the wrap, although a file that ends before    *)
(* its encoder gave a frame uses an epoch up.                              *)
EpochNamesTheEncoder ==
  [][ step = "decodes" /\ step' = "sends" =>
        IF frame'.first
        THEN /\ frame'.keyframe
             /\ frame'.epoch \notin {0, frame.epoch}
             /\ frame'.epoch < frame.epoch => frame.epoch >= LastEpoch - 1
        ELSE frame'.epoch = frame.epoch /\ frame'.profile = frame.profile ]_vars

(* The rate gate lets pictures pass as fast as they come while it is       *)
(* behind its schedule, after a camera stalled or over a gap of the file.  *)
(* Such a burst makes up for what was missed and no more: since the first  *)
(* frame of its encoder there was no frame more than the profile asks for, *)
(* on the clock of the source.                                             *)
BurstsOnlyCatchUp ==
  configured = {profile} /\ encoder_pts > 0 =>
    (encoder_pts - 1) * profile.interval <= last_output - first_output + Tolerance

(* README.md:166-169, frame_pacer_tests.cpp: "If a frame is already late,  *)
(* the sender does not burst-send catch-up frames".  Counted from any      *)
(* frame of a file at all, the frames that were paced since have taken at  *)
(* least their intervals when the loop goes on, however late frames are    *)
(* and whatever ends of the file, new profiles, failed sends and new       *)
(* connections came between.  Frames whose send failed are not paced: they *)
(* are not counted, and the deadline they leave behind causes no burst.    *)
LateFramesDoNotBurst == step # "sleeps" => earliest <= now

(* Every block of a frame that is sent can be decoded, no shard is larger  *)
(* than a datagram's payload, and the blocks are no more than the limit,   *)
(* for frames of any size.                                                 *)
BlocksCanBeDecoded ==
  /\ Len(blocks) <= MaxBlocks
  /\ \A i \in 1..Len(blocks) : Decodable(blocks[i])
=============================================================================
