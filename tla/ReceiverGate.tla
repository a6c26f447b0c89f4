----------------------------- MODULE ReceiverGate -----------------------------
(***************************************************************************)
(* The receiver's frame gate: ReceiverApp::handle_frame and                *)
(* reset_media_session of src/receiver.cpp, as operators on the gate's     *)
(* state, a record                                                         *)
(*   synchronized              the decoder follows the stream              *)
(*   keyframe_request_pending  what the next feedback report asks for      *)
(*   have_decoded_frame_id, stream_epoch, last_decoded_frame_id            *)
(*   references   external: the frame the H.264 decoder's reference state  *)
(*                is that of, {} after a reset or a failed decode          *)
(* stream_epoch is 0 until a frame of the session came.  The statistics    *)
(* counters (completed_frames_, dropped_frames_, ...) are only printed and *)
(* are left out, as is the copy of each decoded frame to the output file.  *)
(***************************************************************************)
EXTENDS Integers

InitialGate ==
  [synchronized |-> FALSE, keyframe_request_pending |-> TRUE,
   have_decoded_frame_id |-> FALSE, stream_epoch |-> 0,
   last_decoded_frame_id |-> 0, references |-> {}]

\* The decoder no longer follows the stream; the next report asks for help.
Freeze(gate) ==
  [gate EXCEPT !.synchronized = FALSE, !.keyframe_request_pending = TRUE]

\* H264Decoder::reset closes and reopens the decoder (h264_decoder.cpp:49-52).
ResetDecoder(gate) == [gate EXCEPT !.references = {}]

\* Mutants: the epoch of the old session stays; its last frame does; -1 is the
\* epoch before the first frame.
ResetKeepsEpoch(gate) ==
  ResetDecoder([Freeze(gate) EXCEPT !.have_decoded_frame_id = FALSE])

ResetKeepsFrameId(gate) ==
  ResetDecoder([Freeze(gate) EXCEPT !.stream_epoch = 0])

ResetToMinusOne(gate) ==
  ResetDecoder([Freeze(gate) EXCEPT !.have_decoded_frame_id = FALSE,
                                    !.stream_epoch = -1])

ResetMediaSession(gate) ==
  ResetDecoder([Freeze(gate) EXCEPT !.have_decoded_frame_id = FALSE,
                                    !.stream_epoch = 0])

-----------------------------------------------------------------------------
(* handle_frame, in the order of its checks. *)

\* Mutant: frames of every epoch are taken.
OldEpochNever(gate, frame) == FALSE

\* A frame of an epoch before the current one is dropped.
OldEpoch(gate, frame) ==
  gate.stream_epoch # 0 /\ frame.key.epoch < gate.stream_epoch

\* The first frame of another epoch, keyframe or not, switches to it.
EnterEpoch(gate, frame) ==
  IF frame.key.epoch = gate.stream_epoch THEN gate
  ELSE ResetDecoder([Freeze(gate) EXCEPT !.stream_epoch = frame.key.epoch,
                                         !.have_decoded_frame_id = FALSE])

\* A frame that is not after the last decoded one is dropped.
Late(gate, frame) ==
  gate.have_decoded_frame_id /\ frame.key.frame_id <= gate.last_decoded_frame_id

\* Mutant: a gap goes unnoticed.
CheckContinuityNever(gate, frame) == gate

\* A gap in the frame ids breaks the synchronization.
CheckContinuity(gate, frame) ==
  IF gate.synchronized /\ gate.have_decoded_frame_id
     /\ frame.key.frame_id # gate.last_decoded_frame_id + 1
  THEN Freeze(gate) ELSE gate

\* The gate as the frame finds it once its epoch and its id are checked.
Checked(gate, frame) == CheckContinuity(EnterEpoch(gate, frame), frame)

\* The frame is handed to the decoder.
Feeds(gate, frame) ==
  /\ ~OldEpoch(gate, frame)
  /\ ~Late(EnterEpoch(gate, frame), frame)
  /\ Checked(gate, frame).synchronized \/ frame.keyframe

\* A keyframe that ends a freeze starts from a fresh decoder.
Prepared(gate, frame) ==
  LET checked == Checked(gate, frame)
  IN  IF checked.synchronized THEN checked ELSE ResetDecoder(checked)

\* Mutant: a decode error does not break the synchronization.
DecodeErrorIgnored(gate, frame, ok) ==
  IF ok
  THEN [gate EXCEPT !.synchronized = TRUE, !.keyframe_request_pending = FALSE,
                    !.have_decoded_frame_id = TRUE,
                    !.last_decoded_frame_id = frame.key.frame_id,
                    !.references = {frame.key}]
  ELSE [gate EXCEPT !.references = {}]

\* `ok` is what H264Decoder::decode returned: a decoded picture that is not
\* marked corrupt.
Decode(gate, frame, ok) ==
  IF ok
  THEN [gate EXCEPT !.synchronized = TRUE, !.keyframe_request_pending = FALSE,
                    !.have_decoded_frame_id = TRUE,
                    !.last_decoded_frame_id = frame.key.frame_id,
                    !.references = {frame.key}]
  ELSE [Freeze(gate) EXCEPT !.references = {}]

HandleFrame(gate, frame, ok) ==
  IF OldEpoch(gate, frame) THEN gate
  ELSE IF Late(EnterEpoch(gate, frame), frame) THEN EnterEpoch(gate, frame)
  ELSE IF Feeds(gate, frame) THEN Decode(Prepared(gate, frame), frame, ok)
  ELSE Freeze(Checked(gate, frame))
=============================================================================
