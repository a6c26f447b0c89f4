--------------------------- MODULE UdpReceiverProofs ---------------------------
(***************************************************************************)
(* Proofs about the receiver of UdpReceiver, for every set of shards and   *)
(* probes the senders may ever send, in any order and any number of times. *)
(*                                                                         *)
(* The argument is about the gate: Standing says where a gate in session s *)
(* stands towards the picture on the screen.  Every piece handle_frame is  *)
(* made of keeps it (the first lemmas), so an iteration keeps it, and what *)
(* an iteration shows, if anything, follows from it.                       *)
(***************************************************************************)
EXTENDS UdpReceiver, TLAPS

KeyType == [session : Nat \ {0}, epoch : Nat \ {0}, frame_id : Nat]

Gates == [synchronized : BOOLEAN, keyframe_request_pending : BOOLEAN,
          have_decoded_frame_id : BOOLEAN, stream_epoch : Nat,
          last_decoded_frame_id : Nat, references : SUBSET KeyType]

\* The picture of key j is behind a gate g in session s: of a session that s
\* replaced, of an earlier epoch, or the last one decoded.
Behind(j, g, s) ==
  \/ NewerSession(s, j.session)
  \/ /\ j.session = s
     /\ \/ j.epoch < g.stream_epoch
        \/ /\ j.epoch = g.stream_epoch
           /\ g.have_decoded_frame_id
           /\ j.frame_id = g.last_decoded_frame_id

LastKey(g, s) ==
  [session |-> s, epoch |-> g.stream_epoch, frame_id |-> g.last_decoded_frame_id]

Standing(g, s, picture) ==
  /\ g \in Gates
  /\ g.keyframe_request_pending <=> ~g.synchronized
  /\ g.synchronized => /\ g.have_decoded_frame_id
                       /\ g.references = {LastKey(g, s)}
                       /\ picture = g.references
  /\ \A j \in picture : Behind(j, g, s)

-----------------------------------------------------------------------------
(* The frame that push returns is of the shard's key and metadata.         *)
LEMMA PushedFrame ==
  ASSUME NEW asm, NEW packet
  PROVE  \/ Push(asm, packet).frame = NoFrame
         \/ \E intact : Push(asm, packet).frame = RecoveredFrame(packet, intact)
<1> DEFINE Returns(result) ==
             result.frame = NoFrame
             \/ \E intact : result.frame = RecoveredFrame(packet, intact)
<1>1. ASSUME NEW frame PROVE Returns(Stored(asm, packet, frame))
  BY DEF Stored
<1>2. Returns(Erased(asm, packet))
  BY DEF Erased
<1>3. ASSUME NEW frame PROVE Returns(Assembled(asm, packet, frame))
  BY <1>2, Zenon DEF Assembled
<1>4. Returns([asm |-> asm, frame |-> NoFrame])
  OBVIOUS
<1> HIDE DEF Returns
<1>5. ASSUME NEW frame, NEW block PROVE Returns(Received(asm, packet, frame, block))
  BY <1>1, <1>3, Zenon DEF Received
<1>6. ASSUME NEW frame PROVE Returns(PushInto(asm, packet, frame))
  BY <1>1, <1>2, <1>5, Zenon DEF PushInto
<1>7. Returns(Push(asm, packet))
  BY <1>2, <1>4, <1>6, Zenon DEF Push
<1> QED BY <1>7 DEF Returns

(* What a push delivers is the shard's frame.                              *)
LEMMA DeliveredKey ==
  ASSUME NEW asm, NEW packet, Push(asm, packet).frame.delivered
  PROVE  /\ Push(asm, packet).frame.key = packet.key
         /\ Push(asm, packet).frame.keyframe = packet.meta.keyframe
<1>1. NoFrame.delivered = FALSE
  BY DEF NoFrame
<1>2. PICK intact : Push(asm, packet).frame = RecoveredFrame(packet, intact)
  BY <1>1, PushedFrame
<1>3. /\ RecoveredFrame(packet, intact).key = packet.key
      /\ RecoveredFrame(packet, intact).keyframe = packet.meta.keyframe
  BY DEF RecoveredFrame
<1> QED BY <1>2, <1>3, Zenon

(* What freezing and resetting the decoder leave of the gate.              *)
LEMMA FreezeFields ==
  ASSUME NEW g \in Gates
  PROVE  /\ Freeze(g) \in Gates
         /\ Freeze(g).synchronized = FALSE
         /\ Freeze(g).keyframe_request_pending = TRUE
         /\ Freeze(g).have_decoded_frame_id = g.have_decoded_frame_id
         /\ Freeze(g).stream_epoch = g.stream_epoch
         /\ Freeze(g).last_decoded_frame_id = g.last_decoded_frame_id
         /\ Freeze(g).references = g.references
  BY DEF Freeze, Gates

LEMMA ResetDecoderFields ==
  ASSUME NEW g \in Gates
  PROVE  /\ ResetDecoder(g) \in Gates
         /\ ResetDecoder(g).synchronized = g.synchronized
         /\ ResetDecoder(g).keyframe_request_pending = g.keyframe_request_pending
         /\ ResetDecoder(g).have_decoded_frame_id = g.have_decoded_frame_id
         /\ ResetDecoder(g).stream_epoch = g.stream_epoch
         /\ ResetDecoder(g).last_decoded_frame_id = g.last_decoded_frame_id
         /\ ResetDecoder(g).references = {}
  BY DEF ResetDecoder, Gates

(* A freeze leaves the picture where it stands.                            *)
LEMMA FreezeStanding ==
  ASSUME NEW g, NEW s, NEW picture, Standing(g, s, picture)
  PROVE  Standing(Freeze(g), s, picture) /\ Freeze(g).synchronized = FALSE
<1>1. g \in Gates /\ \A j \in picture : Behind(j, g, s)
  BY DEF Standing
<1>2. \A j \in picture : Behind(j, Freeze(g), s)
  BY <1>1, FreezeFields DEF Behind
<1> QED BY <1>1, <1>2, FreezeFields DEF Standing

(* So does a decoder reset of a frozen gate.                               *)
LEMMA ResetDecoderStanding ==
  ASSUME NEW g, NEW s, NEW picture, Standing(g, s, picture), ~g.synchronized
  PROVE  Standing(ResetDecoder(g), s, picture)
<1>1. g \in Gates /\ \A j \in picture : Behind(j, g, s)
  BY DEF Standing
<1>2. \A j \in picture : Behind(j, ResetDecoder(g), s)
  BY <1>1, ResetDecoderFields DEF Behind
<1>3. ResetDecoder(g).keyframe_request_pending <=> ~ResetDecoder(g).synchronized
  BY <1>1, ResetDecoderFields DEF Standing
<1>4. ~ResetDecoder(g).synchronized
  BY <1>1, ResetDecoderFields
<1> QED BY <1>1, <1>2, <1>3, <1>4, ResetDecoderFields DEF Standing

\* What handle_frame needs to know of the frame it is given.
FrameOf(frame, s) ==
  frame.key \in KeyType /\ frame.key.session = s

(* Entering the frame's epoch keeps the standing: the picture, if it is of *)
(* this session, is of an earlier epoch.                                   *)
LEMMA EnterEpochStanding ==
  ASSUME NEW g, NEW s, NEW picture \in SUBSET KeyType, NEW frame,
         Standing(g, s, picture), FrameOf(frame, s), ~OldEpoch(g, frame)
  PROVE  /\ Standing(EnterEpoch(g, frame), s, picture)
         /\ EnterEpoch(g, frame).stream_epoch = frame.key.epoch
         /\ EnterEpoch(g, frame).synchronized => EnterEpoch(g, frame) = g
<1>1. g \in Gates
  BY DEF Standing
<1>2. CASE frame.key.epoch = g.stream_epoch
  BY <1>2 DEF EnterEpoch
<1>3. CASE frame.key.epoch # g.stream_epoch
  <2> DEFINE h == [Freeze(g) EXCEPT !.stream_epoch = frame.key.epoch,
                                    !.have_decoded_frame_id = FALSE]
  <2>1. frame.key.epoch \in Nat /\ \A j \in picture : j.epoch \in Nat \ {0}
    BY DEF FrameOf, KeyType
  <2>2. /\ Freeze(g) \in Gates
        /\ Freeze(g).synchronized = FALSE
        /\ Freeze(g).keyframe_request_pending = TRUE
    BY <1>1, FreezeFields
  <2>3. /\ h \in Gates
        /\ h.synchronized = FALSE
        /\ h.keyframe_request_pending = TRUE
        /\ h.stream_epoch = frame.key.epoch
    BY <2>1, <2>2 DEF Gates
  <2>4. EnterEpoch(g, frame) = ResetDecoder(h)
    BY <1>3 DEF EnterEpoch
  <2> HIDE DEF h
  <2>5. \A j \in picture : Behind(j, h, s)
    <3>1. g.stream_epoch \in Nat
      BY <1>1 DEF Gates
    <3>2. \A j \in picture : Behind(j, g, s)
      BY DEF Standing
    <3> QED BY <1>3, <2>1, <2>3, <3>1, <3>2 DEF Behind, OldEpoch
  <2>6. Standing(h, s, picture)
    BY <2>3, <2>5 DEF Standing
  <2>7. Standing(ResetDecoder(h), s, picture)
    BY <2>3, <2>6, ResetDecoderStanding
  <2> QED BY <2>3, <2>4, <2>7, ResetDecoderFields
<1> QED BY <1>2, <1>3

(* A gap in the frame ids freezes the gate and changes nothing else of it. *)
LEMMA CheckedStanding ==
  ASSUME NEW g, NEW s, NEW picture \in SUBSET KeyType, NEW frame,
         Standing(g, s, picture), FrameOf(frame, s), ~OldEpoch(g, frame)
  PROVE  /\ Standing(Checked(g, frame), s, picture)
         /\ Checked(g, frame).stream_epoch = frame.key.epoch
         /\ Checked(g, frame).synchronized =>
              /\ Checked(g, frame) = g
              /\ frame.key.frame_id = g.last_decoded_frame_id + 1
<1> DEFINE e == EnterEpoch(g, frame)
<1>1. /\ Standing(e, s, picture)
      /\ e.stream_epoch = frame.key.epoch
      /\ e.synchronized => e = g
  BY EnterEpochStanding
<1>2. e \in Gates
  BY <1>1 DEF Standing
<1>3. Checked(g, frame) = CheckContinuity(e, frame)
  BY DEF Checked
<1> HIDE DEF e
<1>4. CASE e.synchronized /\ e.have_decoded_frame_id
           /\ frame.key.frame_id # e.last_decoded_frame_id + 1
  BY <1>1, <1>2, <1>3, <1>4, FreezeStanding, FreezeFields DEF CheckContinuity
<1>5. CASE ~(e.synchronized /\ e.have_decoded_frame_id
             /\ frame.key.frame_id # e.last_decoded_frame_id + 1)
  <2>1. Checked(g, frame) = e
    BY <1>3, <1>5 DEF CheckContinuity
  <2>2. e.synchronized => e.have_decoded_frame_id
    BY <1>1 DEF Standing
  <2> QED BY <1>1, <1>5, <2>1, <2>2
<1> QED BY <1>4, <1>5

(* The gate the decoder is called with.                                    *)
LEMMA PreparedStanding ==
  ASSUME NEW g, NEW s, NEW picture \in SUBSET KeyType, NEW frame,
         Standing(g, s, picture), FrameOf(frame, s), ~OldEpoch(g, frame)
  PROVE  /\ Standing(Prepared(g, frame), s, picture)
         /\ Prepared(g, frame).stream_epoch = frame.key.epoch
<1> DEFINE c == Checked(g, frame)
<1>1. Standing(c, s, picture) /\ c.stream_epoch = frame.key.epoch /\ c \in Gates
  BY CheckedStanding DEF Standing
<1>2. Prepared(g, frame) = IF c.synchronized THEN c ELSE ResetDecoder(c)
  BY DEF Prepared
<1> HIDE DEF c
<1> QED BY <1>1, <1>2, ResetDecoderStanding, ResetDecoderFields

(* A decoded frame becomes the picture and the gate follows it; a failed   *)
(* decode freezes the gate on the picture there was.                       *)
LEMMA DecodeStanding ==
  ASSUME NEW g, NEW s, NEW picture \in SUBSET KeyType, NEW frame,
         NEW ok \in BOOLEAN,
         Standing(g, s, picture), FrameOf(frame, s),
         g.stream_epoch = frame.key.epoch
  PROVE  Standing(Decode(g, frame, ok), s, IF ok THEN {frame.key} ELSE picture)
<1>1. g \in Gates /\ frame.key \in KeyType
  BY DEF Standing, FrameOf
<1>2. CASE ok
  <2> DEFINE d == Decode(g, frame, ok)
  <2>1. /\ d \in Gates
        /\ d.synchronized = TRUE
        /\ d.keyframe_request_pending = FALSE
        /\ d.have_decoded_frame_id = TRUE
        /\ d.stream_epoch = g.stream_epoch
        /\ d.last_decoded_frame_id = frame.key.frame_id
        /\ d.references = {frame.key}
    BY <1>1, <1>2 DEF Decode, Gates, KeyType
  <2> HIDE DEF d
  <2>2. LastKey(d, s) = frame.key
    BY <1>1, <2>1 DEF LastKey, FrameOf, KeyType
  <2>3. Behind(frame.key, d, s)
    BY <2>1 DEF Behind, FrameOf
  <2>4. Standing(d, s, {frame.key})
    BY <2>1, <2>2, <2>3 DEF Standing
  <2> QED BY <1>2, <2>4 DEF d
<1>3. CASE ~ok
  <2>1. /\ Freeze(g) \in Gates
        /\ Standing(Freeze(g), s, picture)
        /\ ~Freeze(g).synchronized
    BY <1>1, FreezeStanding, FreezeFields
  <2>2. Decode(g, frame, ok) = ResetDecoder(Freeze(g))
    BY <1>3 DEF Decode, ResetDecoder
  <2> QED BY <1>3, <2>1, <2>2, ResetDecoderStanding
<1> QED BY <1>2, <1>3

(* handle_frame keeps the standing.                                        *)
LEMMA HandleFrameStanding ==
  ASSUME NEW g, NEW s, NEW picture \in SUBSET KeyType, NEW frame,
         NEW ok \in BOOLEAN, Standing(g, s, picture), FrameOf(frame, s)
  PROVE  Standing(HandleFrame(g, frame, ok), s,
                  IF Feeds(g, frame) /\ ok THEN {frame.key} ELSE picture)
<1>1. CASE OldEpoch(g, frame)
  BY <1>1 DEF HandleFrame, Feeds
<1>2. CASE ~OldEpoch(g, frame)
  <2>1. CASE Late(EnterEpoch(g, frame), frame)
    BY <1>2, <2>1, EnterEpochStanding DEF HandleFrame, Feeds
  <2>2. CASE ~Late(EnterEpoch(g, frame), frame) /\ Feeds(g, frame)
    <3>1. HandleFrame(g, frame, ok) = Decode(Prepared(g, frame), frame, ok)
      BY <1>2, <2>2 DEF HandleFrame
    <3>2. Standing(Prepared(g, frame), s, picture)
          /\ Prepared(g, frame).stream_epoch = frame.key.epoch
      BY <1>2, PreparedStanding
    <3>3. Standing(Decode(Prepared(g, frame), frame, ok), s,
                   IF ok THEN {frame.key} ELSE picture)
      BY <3>2, DecodeStanding
    <3>4. (IF Feeds(g, frame) /\ ok THEN {frame.key} ELSE picture)
            = IF ok THEN {frame.key} ELSE picture
      BY <2>2
    <3> QED BY <3>1, <3>3, <3>4
  <2>3. CASE ~Late(EnterEpoch(g, frame), frame) /\ ~Feeds(g, frame)
    <3>1. HandleFrame(g, frame, ok) = Freeze(Checked(g, frame))
      BY <1>2, <2>3 DEF HandleFrame
    <3>2. Standing(Freeze(Checked(g, frame)), s, picture)
      BY <1>2, CheckedStanding, FreezeStanding
    <3> QED BY <2>3, <3>1, <3>2
  <2> QED BY <2>1, <2>2, <2>3
<1> QED BY <1>1, <1>2

(* A frame the gate hands to the decoder comes after the picture; one that *)
(* is not a keyframe follows it at once, and the decoder's references are  *)
(* those of the picture.                                                   *)
LEMMA FeedsInOrder ==
  ASSUME NEW g, NEW s, NEW picture \in SUBSET KeyType, NEW frame,
         Standing(g, s, picture), FrameOf(frame, s), Feeds(g, frame)
  PROVE  /\ \A j \in picture : Playback!After(frame.key, j)
         /\ ~frame.keyframe =>
              /\ g.synchronized
              /\ Prepared(g, frame).references = {Previous(frame.key)}
              /\ Previous(frame.key) \in picture
              /\ Playback!Follows(frame.key, Previous(frame.key))
<1>1. /\ ~OldEpoch(g, frame)
      /\ ~Late(EnterEpoch(g, frame), frame)
      /\ Checked(g, frame).synchronized \/ frame.keyframe
  BY DEF Feeds
<1>2. frame.key \in KeyType /\ frame.key.session = s
  BY DEF FrameOf
<1>3. \A j \in picture : Playback!After(frame.key, j)
  <2> SUFFICES ASSUME NEW j \in picture PROVE Playback!After(frame.key, j)
    OBVIOUS
  <2> DEFINE e == EnterEpoch(g, frame)
  <2>1. Standing(e, s, picture) /\ e.stream_epoch = frame.key.epoch
    BY <1>1, EnterEpochStanding
  <2>2. e.last_decoded_frame_id \in Nat
    BY <2>1 DEF Standing, Gates
  <2>3. e.have_decoded_frame_id
          => ~(frame.key.frame_id <= e.last_decoded_frame_id)
    BY <1>1 DEF Late
  <2> HIDE DEF e
  <2>4. Behind(j, e, s)
    BY <2>1 DEF Standing
  <2>5. j.epoch \in Nat /\ j.frame_id \in Nat
        /\ frame.key.epoch \in Nat /\ frame.key.frame_id \in Nat
    BY <1>2 DEF KeyType
  <2> QED BY <1>2, <2>1, <2>2, <2>3, <2>4, <2>5
       DEF Behind, NewerSession, Playback!After, Playback!NewerSession
<1>4. ASSUME ~frame.keyframe
      PROVE  /\ g.synchronized
             /\ Prepared(g, frame).references = {Previous(frame.key)}
             /\ Previous(frame.key) \in picture
             /\ Playback!Follows(frame.key, Previous(frame.key))
  <2>1. /\ Checked(g, frame).synchronized
        /\ Checked(g, frame) = g
        /\ frame.key.frame_id = g.last_decoded_frame_id + 1
        /\ g.stream_epoch = frame.key.epoch
    BY <1>1, <1>4, CheckedStanding
  <2>2. g.synchronized /\ Prepared(g, frame) = g
    BY <2>1 DEF Prepared
  <2>3. g.references = {LastKey(g, s)} /\ picture = {LastKey(g, s)} /\ g \in Gates
    BY <2>2 DEF Standing
  <2>4. LastKey(g, s) = Previous(frame.key)
    BY <1>2, <2>1, <2>3 DEF LastKey, Previous, KeyType, Gates
  <2>5. Playback!Follows(frame.key, Previous(frame.key))
    BY <1>2 DEF Playback!Follows, Previous, KeyType
  <2> QED BY <2>2, <2>3, <2>4, <2>5
<1> QED BY <1>3, <1>4

(* handle_frame never ends a freeze without a new picture.                 *)
LEMMA StaysFrozen ==
  ASSUME NEW g, NEW s, NEW picture \in SUBSET KeyType, NEW frame,
         NEW ok \in BOOLEAN, Standing(g, s, picture), FrameOf(frame, s),
         ~(Feeds(g, frame) /\ ok), HandleFrame(g, frame, ok).synchronized
  PROVE  g.synchronized
<1>1. CASE OldEpoch(g, frame)
  BY <1>1 DEF HandleFrame
<1>2. CASE ~OldEpoch(g, frame)
  <2>1. CASE Late(EnterEpoch(g, frame), frame)
    BY <1>2, <2>1, EnterEpochStanding DEF HandleFrame
  <2>2. CASE ~Late(EnterEpoch(g, frame), frame) /\ Feeds(g, frame)
    <3>1. HandleFrame(g, frame, ok) = ResetDecoder(Freeze(Prepared(g, frame)))
      BY <1>2, <2>2 DEF HandleFrame, Decode, ResetDecoder
    <3>2. Prepared(g, frame) \in Gates
      BY <1>2, PreparedStanding DEF Standing
    <3> QED BY <3>1, <3>2, FreezeFields, ResetDecoderFields
  <2>3. CASE ~Late(EnterEpoch(g, frame), frame) /\ ~Feeds(g, frame)
    <3>1. HandleFrame(g, frame, ok) = Freeze(Checked(g, frame))
      BY <1>2, <2>3 DEF HandleFrame
    <3>2. Checked(g, frame) \in Gates
      BY <1>2, CheckedStanding DEF Standing
    <3> QED BY <3>1, <3>2, FreezeFields
  <2> QED BY <2>1, <2>2, <2>3
<1> QED BY <1>1, <1>2

-----------------------------------------------------------------------------
(* The inductive invariant of the loop. *)
RInv ==
  /\ active_session \in Sessions \cup {0}
  /\ shown \in SUBSET KeyType
  /\ \A j \in shown : j.session \in Sessions
  /\ active_session = 0 => shown = {}
  /\ Standing(gate, active_session, shown)
  /\ StrictGating

\* A step of the loop as the viewer sees it.
PlayStep == [Playback!PlaybackNext]_<<shown, gate.synchronized>>

LEMMA SessionsAreNumbers == Sessions \subseteq Nat \ {0}
  BY ReceiverAssumption DEF Sessions

(* A session that is let in replaces the one before it, and every picture  *)
(* of an earlier one.                                                      *)
LEMMA SessionStanding ==
  ASSUME RInv, NEW s \in Sessions, Accepted(s)
  PROVE  /\ Standing(SessionGate(s), s, shown)
         /\ SessionGate(s).synchronized => gate.synchronized /\ SessionGate(s) = gate
<1>1. CASE s = active_session
  BY <1>1 DEF SessionGate, RInv
<1>2. CASE s # active_session
  <2> DEFINE f == [Freeze(gate) EXCEPT !.have_decoded_frame_id = FALSE,
                                       !.stream_epoch = 0]
             r == SessionGate(s)
  <2>1. gate \in Gates /\ Freeze(gate) \in Gates
        /\ Freeze(gate).synchronized = FALSE
        /\ Freeze(gate).keyframe_request_pending = TRUE
    BY FreezeFields DEF RInv, Standing
  <2>2. f \in Gates /\ f.synchronized = FALSE /\ f.keyframe_request_pending = TRUE
    BY <2>1 DEF Gates
  <2>3. r = ResetDecoder(f)
    BY <1>2 DEF SessionGate, ResetMediaSession
  <2> HIDE DEF f, r
  <2>4. r \in Gates /\ r.synchronized = FALSE /\ r.keyframe_request_pending = TRUE
    BY <2>2, <2>3, ResetDecoderFields
  <2>5. ASSUME NEW j \in shown PROVE Behind(j, r, s)
    <3>1. active_session # 0 /\ active_session \in Sessions
      BY DEF RInv
    <3>2. NewerSession(s, active_session)
      BY <1>2, <3>1 DEF Accepted
    <3>3. j.session = active_session \/ NewerSession(active_session, j.session)
      BY DEF RInv, Standing, Behind
    <3>4. /\ s \in Nat /\ active_session \in Nat /\ j.session \in Nat
          /\ Started[s] \in Nat /\ Started[active_session] \in Nat
          /\ Started[j.session] \in Nat
      BY <3>1, SessionsAreNumbers, ReceiverAssumption DEF RInv
    <3>5. NewerSession(s, j.session)
      BY <3>2, <3>3, <3>4 DEF NewerSession
    <3> QED BY <3>5 DEF Behind
  <2>6. Standing(r, s, shown)
    BY <2>4, <2>5 DEF Standing
  <2> QED BY <2>4, <2>6 DEF r
<1> QED BY <1>1, <1>2

(* The expiry may freeze the gate, no more.                                *)
LEMMA ExpiryStanding ==
  ASSUME NEW g, NEW s, NEW picture, NEW asm,
         Standing(g, s, picture), ExpireOld(asm, g)
  PROVE  /\ Standing(gate', s, picture)
         /\ gate'.synchronized => g.synchronized
<1>1. gate' = g \/ gate' = Freeze(g)
  BY DEF ExpireOld
<1> QED BY <1>1, FreezeStanding

(* An iteration that shows nothing new.                                    *)
LEMMA NothingShown ==
  ASSUME RInv, NEW s \in Sessions \cup {0}, active_session' = s,
         s = 0 => active_session = 0,
         Standing(gate', s, shown), shown' = shown, StrictGating',
         gate'.synchronized => gate.synchronized
  PROVE  RInv' /\ PlayStep
<1>1. RInv'
  BY DEF RInv
<1>2. gate.synchronized \in BOOLEAN /\ gate'.synchronized \in BOOLEAN
  BY DEF RInv, Standing, Gates
<1>3. CASE gate'.synchronized
  <2>1. gate'.synchronized = gate.synchronized
    BY <1>2, <1>3
  <2> QED BY <1>1, <2>1 DEF PlayStep
<1>4. CASE ~gate'.synchronized
  <2>1. Playback!FreezePicture
    BY <1>2, <1>4, Zenon DEF Playback!FreezePicture
  <2> QED BY <1>1, <2>1 DEF PlayStep, Playback!PlaybackNext
<1> QED BY <1>3, <1>4

LEMMA CompleteFrameStep ==
  ASSUME RInv, NEW shard \in Shards, NEW ok \in BOOLEAN, CompleteFrame(shard, ok)
  PROVE  RInv' /\ PlayStep
<1> DEFINE s == shard.key.session
           pushed == Push(SessionAssembler(s), shard)
           frame == pushed.frame
           before == SessionGate(s)
<1>1. /\ Accepted(s)
      /\ frame.delivered
      /\ active_session' = s
      /\ fed' = IF Feeds(before, frame)
                THEN {[frame |-> frame,
                       references |-> Prepared(before, frame).references]}
                ELSE fed
      /\ shown' = IF Feeds(before, frame) /\ ok THEN {frame.key} ELSE shown
      /\ ExpireOld(pushed.asm, HandleFrame(before, frame, ok))
  BY DEF CompleteFrame
<1>2. /\ s \in Sessions /\ s # 0
      /\ shard.key \in KeyType
      /\ shard.meta.keyframe \in BOOLEAN
  BY ReceiverAssumption, SessionsAreNumbers DEF Sessions, KeyType
<1>3. frame.key = shard.key /\ frame.keyframe = shard.meta.keyframe
  <2>1. frame = NoFrame \/ \E intact : frame = RecoveredFrame(shard, intact)
    BY PushedFrame
  <2>2. frame # NoFrame
    <3>1. NoFrame.delivered = FALSE
      BY DEF NoFrame
    <3> QED BY <1>1, <3>1
  <2>3. PICK intact : frame = RecoveredFrame(shard, intact)
    BY <2>1, <2>2
  <2>4. /\ RecoveredFrame(shard, intact).key = shard.key
        /\ RecoveredFrame(shard, intact).keyframe = shard.meta.keyframe
    BY DEF RecoveredFrame
  <2> QED BY <2>3, <2>4, Zenon
<1>4. FrameOf(frame, s)
  BY <1>2, <1>3 DEF FrameOf
<1> HIDE DEF pushed, frame, before
<1>5. /\ Standing(before, s, shown)
      /\ before.synchronized => gate.synchronized /\ before = gate
  BY <1>1, <1>2, SessionStanding DEF before
<1>6. shown \in SUBSET KeyType
  BY DEF RInv
<1>7. Standing(gate', s, IF Feeds(before, frame) /\ ok THEN {frame.key} ELSE shown)
  BY <1>1, <1>4, <1>5, <1>6, HandleFrameStanding, ExpiryStanding
<1>8. StrictGating'
  <2>1. CASE Feeds(before, frame)
    <3>1. ~frame.keyframe =>
            Prepared(before, frame).references
              = {Previous(frame.key)}
      BY <1>4, <1>5, <1>6, <2>1, FeedsInOrder
    <3> QED BY <1>1, <2>1, <3>1 DEF StrictGating
  <2>2. CASE ~Feeds(before, frame)
    BY <1>1, <2>2 DEF RInv, StrictGating
  <2> QED BY <2>1, <2>2
<1>9. CASE Feeds(before, frame) /\ ok
  <2>1. shown' = {frame.key} /\ Standing(gate', s, {frame.key})
    BY <1>1, <1>7, <1>9
  <2>2. RInv'
    BY <1>1, <1>2, <1>3, <1>8, <2>1 DEF RInv
  <2>3. gate'.synchronized \in BOOLEAN
    BY <2>1 DEF Standing, Gates
  <2> DEFINE picture == [key |-> frame.key, keyframe |-> frame.keyframe]
  <2>4. picture \in Pictures
    BY <1>3 DEF Pictures
  <2>5. /\ \A j \in shown : Playback!After(frame.key, j)
        /\ frame.keyframe
           \/ (gate.synchronized /\ \E j \in shown : Playback!Follows(frame.key, j))
    BY <1>4, <1>5, <1>6, <1>9, FeedsInOrder
  <2>6. Playback!Show(picture)
    BY <2>1, <2>3, <2>5 DEF Playback!Show
  <2> HIDE DEF picture
  <2> QED BY <2>2, <2>4, <2>6 DEF PlayStep, Playback!PlaybackNext
<1>10. CASE ~(Feeds(before, frame) /\ ok)
  <2>1. shown' = shown /\ Standing(gate', s, shown)
    BY <1>1, <1>7, <1>10
  <2>2. HandleFrame(before, frame, ok).synchronized => gate.synchronized
    BY <1>4, <1>5, <1>6, <1>10, StaysFrozen
  <2>3. gate'.synchronized => gate.synchronized
    <3>1. Standing(HandleFrame(before, frame, ok), s, shown)
      BY <1>4, <1>5, <1>6, <1>10, HandleFrameStanding
    <3> QED BY <1>1, <2>2, <3>1, ExpiryStanding
  <2> QED BY <1>1, <1>2, <1>8, <2>1, <2>3, NothingShown
<1> QED BY <1>9, <1>10

LEMMA ReceiverStep ==
  ASSUME RInv, [Next]_vars
  PROVE  RInv' /\ PlayStep
<1>1. ASSUME NEW s \in Sessions, Accepted(s), active_session' = s,
             NEW asm, ExpireOld(asm, SessionGate(s)), UNCHANGED <<fed, shown>>
      PROVE  RInv' /\ PlayStep
  <2>1. Standing(gate', s, shown) /\ (gate'.synchronized => gate.synchronized)
    BY <1>1, SessionStanding, ExpiryStanding
  <2>2. s # 0 /\ StrictGating'
    BY <1>1, SessionsAreNumbers DEF RInv, StrictGating
  <2> QED BY <1>1, <2>1, <2>2, NothingShown
<1>2. ASSUME NEW shard \in Shards, ReceiveShard(shard)
      PROVE  RInv' /\ PlayStep
  BY <1>1, <1>2 DEF ReceiveShard, Sessions
<1>3. ASSUME NEW shard \in Shards, NEW ok \in BOOLEAN, CompleteFrame(shard, ok)
      PROVE  RInv' /\ PlayStep
  BY <1>3, CompleteFrameStep
<1>4. ASSUME NEW s \in Probes, ReceiveProbe(s)
      PROVE  RInv' /\ PlayStep
  BY <1>1, <1>4 DEF ReceiveProbe, Sessions
<1>5. CASE ReceiveNothing
  <2>1. /\ ExpireOld(assembler, gate)
        /\ active_session' = active_session /\ fed' = fed /\ shown' = shown
    BY <1>5 DEF ReceiveNothing
  <2>2. Standing(gate, active_session, shown) /\ active_session \in Sessions \cup {0}
    BY DEF RInv
  <2>3. Standing(gate', active_session, shown)
        /\ (gate'.synchronized => gate.synchronized)
    BY <2>1, <2>2, ExpiryStanding
  <2>4. StrictGating'
    BY <2>1 DEF RInv, StrictGating
  <2> QED BY <2>1, <2>2, <2>3, <2>4, NothingShown
<1>6. CASE UNCHANGED <<active_session, gate, fed, shown>>
  BY <1>6 DEF RInv, StrictGating, PlayStep
<1>7. Tick \/ UNCHANGED vars => UNCHANGED <<active_session, gate, fed, shown>>
  BY DEF Tick, vars
<1> QED BY <1>2, <1>3, <1>4, <1>5, <1>6, <1>7 DEF Next

LEMMA ReceiverInit == Init => RInv /\ Playback!PlaybackInit
<1> SUFFICES ASSUME Init PROVE RInv /\ Playback!PlaybackInit
  OBVIOUS
<1>1. /\ gate = InitialGate /\ shown = {} /\ fed = {} /\ active_session = 0
  BY DEF Init
<1>2. /\ InitialGate \in Gates
      /\ InitialGate.synchronized = FALSE
      /\ InitialGate.keyframe_request_pending = TRUE
  BY DEF InitialGate, Gates
<1>3. Standing(gate, 0, {})
  BY <1>1, <1>2 DEF Standing
<1> QED BY <1>1, <1>2, <1>3 DEF RInv, StrictGating, Playback!PlaybackInit

-----------------------------------------------------------------------------
(* README.md:10 and 286, strict keyframe gating.                           *)
THEOREM StrictGatingHolds == Spec => []StrictGating
<1>1. Init => RInv
  BY ReceiverInit
<1>2. RInv /\ [Next]_vars => RInv'
  BY ReceiverStep
<1>3. RInv => StrictGating
  BY DEF RInv
<1> QED BY <1>1, <1>2, <1>3, PTL DEF Spec

(* The receiver is frozen exactly while it asks for a keyframe, and        *)
(* otherwise the gate, the decoder and the screen agree.                   *)
THEOREM SynchronizedAlwaysConsistent == Spec => []SynchronizedConsistent
<1>1. Init => RInv
  BY ReceiverInit
<1>2. RInv /\ [Next]_vars => RInv'
  BY ReceiverStep
<1>3. RInv => SynchronizedConsistent
  BY DEF RInv, Standing, LastKey, SynchronizedConsistent
<1> QED BY <1>1, <1>2, <1>3, PTL DEF Spec

(* The receiver implements GatedPlayback: what it promises the viewer.     *)
THEOREM ReceiverImplementsPlayback == Spec => ImplementsPlayback
<1>1. Init => RInv /\ Playback!PlaybackInit
  BY ReceiverInit
<1>2. RInv /\ [Next]_vars => RInv' /\ PlayStep
  BY ReceiverStep
<1>3. PlayStep => [Playback!PlaybackNext]_<<shown, gate.synchronized>>
  BY DEF PlayStep, Playback!playbackVars
<1>4. Spec => /\ Playback!PlaybackInit
              /\ [][Playback!PlaybackNext]_<<shown, gate.synchronized>>
  BY <1>1, <1>2, <1>3, PTL DEF Spec
<1> QED BY <1>4 DEF ImplementsPlayback, Playback!PlaybackSpec,
                    Playback!playbackVars

-----------------------------------------------------------------------------
(* The order of the sessions: the active one is newer than all that were   *)
(* left.                                                                   *)
Leaves(s, gone) ==
  /\ s \in Sessions \cup {0}
  /\ gone \subseteq Sessions
  /\ s = 0 => gone = {}
  /\ \A t \in gone : NewerSession(s, t)

LeftInv == Leaves(active_session, left)

\* Newer is an order.
LEMMA NewerIsAnOrder ==
  ASSUME NEW r \in Sessions, NEW s \in Sessions, NEW t \in Sessions
  PROVE  /\ ~NewerSession(r, r)
         /\ NewerSession(r, s) /\ NewerSession(s, t) => NewerSession(r, t)
<1>1. /\ Started[r] \in Nat /\ Started[s] \in Nat /\ Started[t] \in Nat
      /\ r \in Nat /\ s \in Nat /\ t \in Nat
  BY SessionsAreNumbers, ReceiverAssumption
<1> QED
  BY <1>1 DEF NewerSession

\* A session that is let in is newer than all that were left, and than the one
\* it replaces.
LEMMA AcceptedLeaves ==
  ASSUME LeftInv, NEW s \in Sessions, Accepted(s)
  PROVE  Leaves(s, SessionsLeft(s))
<1>1. s # 0
  BY SessionsAreNumbers
<1>2. CASE active_session = s
  BY <1>1, <1>2 DEF LeftInv, SessionsLeft, Leaves
<1>3. CASE active_session = 0
  BY <1>1, <1>3 DEF LeftInv, SessionsLeft, Leaves
<1>4. CASE active_session \notin {0, s}
  <2>1. /\ active_session \in Sessions /\ left \subseteq Sessions
        /\ NewerSession(s, active_session)
        /\ SessionsLeft(s) = left \cup {active_session}
    BY <1>4 DEF LeftInv, Leaves, Accepted, SessionsLeft
  <2>2. ASSUME NEW t \in left PROVE NewerSession(s, t)
    <3>1. NewerSession(active_session, t) /\ t \in Sessions
      BY <2>1 DEF LeftInv, Leaves
    <3> QED
      BY <2>1, <3>1, NewerIsAnOrder
  <2> QED
    BY <1>1, <2>1, <2>2 DEF Leaves
<1> QED
  BY <1>2, <1>3, <1>4

LEMMA NextLeft == LeftInv /\ [Next]_vars => LeftInv'
<1> SUFFICES ASSUME LeftInv, [Next]_vars PROVE LeftInv'
  OBVIOUS
<1>1. ASSUME NEW s \in Sessions, Accepted(s), active_session' = s,
             left' = SessionsLeft(s)
      PROVE  LeftInv'
  BY <1>1, AcceptedLeaves DEF LeftInv
<1>2. CASE UNCHANGED <<active_session, left>>
  BY <1>2 DEF LeftInv, Leaves
<1>3. ASSUME NEW shard \in Shards, ReceiveShard(shard) PROVE LeftInv'
  BY <1>1, <1>3 DEF ReceiveShard, Sessions
<1>4. ASSUME NEW shard \in Shards, NEW ok, CompleteFrame(shard, ok) PROVE LeftInv'
  BY <1>1, <1>4 DEF CompleteFrame, Sessions
<1>5. ASSUME NEW s \in Probes, ReceiveProbe(s) PROVE LeftInv'
  BY <1>1, <1>5 DEF ReceiveProbe, Sessions
<1> QED
  BY <1>2, <1>3, <1>4, <1>5 DEF Next, ReceiveNothing, Tick, vars

(* A session that was left is never active again, for any number of        *)
(* sessions and any times they started at.                                 *)
THEOREM SessionNeverComesBack == Spec => []SessionNeverReturns
<1>1. Init => LeftInv
  BY DEF Init, LeftInv, Leaves
<1>2. LeftInv /\ [Next]_vars => LeftInv'
  BY NextLeft
<1>3. LeftInv => SessionNeverReturns
  <2> SUFFICES ASSUME LeftInv, active_session \in left PROVE FALSE
    BY DEF SessionNeverReturns
  <2>1. active_session \in Sessions /\ NewerSession(active_session, active_session)
    BY DEF LeftInv, Leaves
  <2> QED
    BY <2>1, NewerIsAnOrder
<1> QED
  BY <1>1, <1>2, <1>3, PTL DEF Spec
-----------------------------------------------------------------------------
(* The types of the loop's state.  The maps of the assembler and the       *)
(* references of the decoder are of keys of shards that may arrive.        *)

MapsOf(asm, keys) ==
  /\ asm = [frames |-> asm.frames, completed |-> asm.completed]
  /\ DOMAIN asm.frames \subseteq keys
  /\ DOMAIN asm.completed \subseteq keys

LEMMA WithoutKeys ==
  ASSUME NEW map, NEW keys, NEW lost, DOMAIN map \subseteq keys
  PROVE  DOMAIN Without(map, lost) \subseteq keys
BY DEF Without

LEMMA PutKeys ==
  ASSUME NEW map, NEW keys, NEW key \in keys, NEW value, DOMAIN map \subseteq keys
  PROVE  DOMAIN Put(map, key, value) \subseteq keys
BY DEF Put

\* A push adds no key but the shard's.
LEMMA PushMaps ==
  ASSUME NEW asm, NEW keys, NEW packet, packet.key \in keys, MapsOf(asm, keys)
  PROVE  MapsOf(Push(asm, packet).asm, keys)
<1> DEFINE Keeps(result) == MapsOf(result.asm, keys)
<1>1. ASSUME NEW frame PROVE Keeps(Stored(asm, packet, frame))
  <2>1. Stored(asm, packet, frame).asm =
          [frames |-> Put(asm.frames, packet.key, frame), completed |-> asm.completed]
    BY DEF MapsOf, Stored
  <2>2. DOMAIN Put(asm.frames, packet.key, frame) \subseteq keys
    BY PutKeys DEF MapsOf
  <2> HIDE DEF Keeps
  <2> QED
    BY <2>1, <2>2 DEF Keeps, MapsOf
<1>2. Keeps(Erased(asm, packet))
  <2>1. Erased(asm, packet).asm =
          [frames |-> Without(asm.frames, {packet.key}), completed |-> asm.completed]
    BY DEF MapsOf, Erased
  <2>2. DOMAIN Without(asm.frames, {packet.key}) \subseteq keys
    BY WithoutKeys DEF MapsOf
  <2> QED
    BY <2>1, <2>2 DEF MapsOf
<1>3. ASSUME NEW frame PROVE Keeps(Assembled(asm, packet, frame))
  <2> DEFINE rest == Evict(Without(asm.frames, {packet.key}))
             completed == Put(asm.completed, packet.key, 0)
  <2>1. DOMAIN rest \subseteq keys
    BY WithoutKeys DEF MapsOf, Evict
  <2>2. DOMAIN completed \subseteq keys
    BY PutKeys DEF MapsOf
  <2> HIDE DEF rest, completed
  <2>3. MapsOf([frames |-> rest, completed |-> completed], keys)
    BY <2>1, <2>2 DEF MapsOf
  <2>4. \/ Assembled(asm, packet, frame) = Erased(asm, packet)
        \/ Assembled(asm, packet, frame).asm = [frames |-> rest, completed |-> completed]
    BY DEF Assembled, rest, completed
  <2> QED
    BY <1>2, <2>3, <2>4
<1>4. Keeps([asm |-> asm, frame |-> NoFrame])
  OBVIOUS
<1> HIDE DEF Keeps
<1>5. ASSUME NEW frame, NEW block PROVE Keeps(Received(asm, packet, frame, block))
  BY <1>1, <1>3, Zenon DEF Received
<1>6. ASSUME NEW frame PROVE Keeps(PushInto(asm, packet, frame))
  BY <1>1, <1>2, <1>5, Zenon DEF PushInto
<1>7. Keeps(Push(asm, packet))
  BY <1>2, <1>4, <1>6, Zenon DEF Push
<1> QED BY <1>7 DEF Keeps

LEMMA ExpireMaps ==
  ASSUME NEW asm, NEW keys, MapsOf(asm, keys)
  PROVE  MapsOf(Expire(asm), keys) /\ MapsOf(Older(asm), keys)
<1>1. MapsOf(Expire(asm), keys)
  BY DEF MapsOf, Expire, Without
<1>2. MapsOf(Older(asm), keys)
  BY DEF MapsOf, Older
<1> QED BY <1>1, <1>2

LEMMA EmptyMaps == ASSUME NEW keys PROVE MapsOf(EmptyAssembler, keys)
<1>1. DOMAIN << >> = {}
  OBVIOUS
<1> QED BY <1>1 DEF MapsOf, EmptyAssembler

\* A gate whose decoder refers to frames of these keys.
Refers(g, keys) == g \in Gates /\ g.references \subseteq keys

LEMMA FrozenRefers ==
  ASSUME NEW keys, NEW g, Refers(g, keys)
  PROVE  Refers(Freeze(g), keys) /\ Refers(ResetDecoder(g), keys)
BY FreezeFields, ResetDecoderFields DEF Refers

Entered(g, epoch) ==
  ResetDecoder([Freeze(g) EXCEPT !.stream_epoch = epoch,
                                 !.have_decoded_frame_id = FALSE])

LEMMA EnteredRefers ==
  ASSUME NEW keys, NEW g, Refers(g, keys), NEW epoch \in Nat
  PROVE  Refers(Entered(g, epoch), keys)
<1>1. Refers(Freeze(g), keys)
  BY FrozenRefers
<1>2. Refers([Freeze(g) EXCEPT !.stream_epoch = epoch,
                               !.have_decoded_frame_id = FALSE], keys)
  BY <1>1 DEF Refers, Gates
<1> QED BY <1>2, FrozenRefers DEF Entered

LEMMA ResetRefers ==
  ASSUME NEW keys, NEW g, Refers(g, keys)
  PROVE  Refers(ResetMediaSession(g), keys)
<1>1. Refers(Freeze(g), keys)
  BY FrozenRefers
<1>2. Refers([Freeze(g) EXCEPT !.have_decoded_frame_id = FALSE,
                               !.stream_epoch = 0], keys)
  BY <1>1 DEF Refers, Gates
<1> QED BY <1>2, FrozenRefers DEF ResetMediaSession

\* handle_frame refers the decoder to the frame, if to anything new.
LEMMA HandleFrameRefers ==
  ASSUME NEW keys, NEW g, NEW frame, NEW ok \in BOOLEAN, Refers(g, keys),
         frame.key \in KeyType, frame.key \in keys
  PROVE  Refers(HandleFrame(g, frame, ok), keys)
<1>1. Refers(EnterEpoch(g, frame), keys)
  <2>1. frame.key.epoch \in Nat
    BY DEF KeyType
  <2>2. Refers(Entered(g, frame.key.epoch), keys)
    BY <2>1, EnteredRefers
  <2>3. EnterEpoch(g, frame) \in {g, Entered(g, frame.key.epoch)}
    BY DEF EnterEpoch, Entered
  <2> QED BY <2>2, <2>3
<1>2. Refers(Checked(g, frame), keys)
  BY <1>1, FrozenRefers DEF Checked, CheckContinuity
<1>3. Refers(Prepared(g, frame), keys)
  BY <1>2, FrozenRefers DEF Prepared
<1>4. ASSUME NEW h, Refers(h, keys) PROVE Refers(Decode(h, frame, ok), keys)
  <2>1. CASE ok
    BY <1>4, <2>1 DEF Decode, Refers, Gates, KeyType
  <2>2. CASE ~ok
    <3>1. Refers(Freeze(h), keys)
      BY <1>4, FrozenRefers
    <3> QED BY <2>2, <3>1 DEF Decode, Refers, Gates
  <2> QED BY <2>1, <2>2
<1>5. Refers(Freeze(Checked(g, frame)), keys)
  BY <1>2, FrozenRefers
<1>6. Refers(Decode(Prepared(g, frame), frame, ok), keys)
  BY <1>3, <1>4
<1> QED BY <1>1, <1>5, <1>6 DEF HandleFrame

TInv ==
  /\ active_session \in Sessions \cup {0}
  /\ MapsOf(assembler, Keys)
  /\ Refers(gate, Keys)
  /\ frame_age \in 0..(StallAge + 1)
  /\ shown \in SUBSET Keys

\* An iteration ends with the expiry.
LEMMA IterationTypes ==
  ASSUME TInv, NEW s \in Sessions \cup {0}, active_session' = s,
         NEW asm, MapsOf(asm, Keys), NEW g, Refers(g, Keys), ExpireOld(asm, g),
         frame_age' \in {0, frame_age}, shown' \in SUBSET Keys
  PROVE  TInv'
<1>1. MapsOf(assembler', Keys)
  BY ExpireMaps DEF ExpireOld
<1>2. Refers(gate', Keys)
  BY FrozenRefers DEF ExpireOld
<1>3. frame_age' \in 0..(StallAge + 1)
  BY ReceiverAssumption DEF TInv
<1> QED BY <1>1, <1>2, <1>3 DEF TInv, MapsOf, Refers, Keys, Sessions

LEMMA SessionTypes ==
  ASSUME TInv, NEW s
  PROVE  /\ MapsOf(SessionAssembler(s), Keys)
         /\ Refers(SessionGate(s), Keys)
         /\ SessionAge(s) \in {0, frame_age}
<1>1. MapsOf(SessionAssembler(s), Keys)
  BY EmptyMaps DEF TInv, SessionAssembler
<1>2. Refers(SessionGate(s), Keys)
  BY ResetRefers DEF TInv, SessionGate
<1>3. SessionAge(s) \in {0, frame_age}
  BY DEF SessionAge
<1> QED BY <1>1, <1>2, <1>3

LEMMA NextTypes == TInv /\ [Next]_vars => TInv'
<1> SUFFICES ASSUME TInv, [Next]_vars PROVE TInv'
  OBVIOUS
<1>1. ASSUME NEW shard \in Shards, ReceiveShard(shard) PROVE TInv'
  <2> DEFINE s == shard.key.session
             pushed == Push(SessionAssembler(s), shard)
  <2>1. /\ active_session' = s
        /\ frame_age' = SessionAge(s)
        /\ ExpireOld(pushed.asm, SessionGate(s))
        /\ shown' = shown
    BY <1>1 DEF ReceiveShard
  <2>2. s \in Sessions /\ shard.key \in Keys
    BY DEF Sessions, Keys
  <2>3. MapsOf(pushed.asm, Keys)
    BY <2>2, SessionTypes, PushMaps
  <2> HIDE DEF pushed, s
  <2> QED
    BY <2>1, <2>2, <2>3, SessionTypes, IterationTypes DEF TInv
<1>2. ASSUME NEW shard \in Shards, NEW ok \in BOOLEAN, CompleteFrame(shard, ok)
      PROVE  TInv'
  <2> DEFINE s == shard.key.session
             pushed == Push(SessionAssembler(s), shard)
             frame == pushed.frame
             before == SessionGate(s)
  <2>1. /\ frame.delivered
        /\ active_session' = s
        /\ frame_age' \in {0, SessionAge(s)}
        /\ shown' \in {{frame.key}, shown}
        /\ ExpireOld(pushed.asm, HandleFrame(before, frame, ok))
    BY <1>2 DEF CompleteFrame
  <2>2. s \in Sessions /\ shard.key \in Keys /\ shard.key \in KeyType
    BY ReceiverAssumption DEF Sessions, Keys, KeyType
  <2>3. MapsOf(pushed.asm, Keys)
    BY <2>2, SessionTypes, PushMaps
  <2>4. frame.key = shard.key
    <3>1. NoFrame.delivered = FALSE
      BY DEF NoFrame
    <3>2. PICK intact : frame = RecoveredFrame(shard, intact)
      BY <2>1, <3>1, PushedFrame
    <3> QED BY <3>2 DEF RecoveredFrame
  <2> HIDE DEF pushed, frame, s, before
  <2>5. Refers(before, Keys) /\ SessionAge(s) \in {0, frame_age}
    BY SessionTypes DEF before
  <2>6. Refers(HandleFrame(before, frame, ok), Keys)
    BY <2>2, <2>4, <2>5, HandleFrameRefers
  <2>7. shown' \in SUBSET Keys
    BY <2>1, <2>2, <2>4 DEF TInv
  <2> QED
    BY <2>1, <2>2, <2>3, <2>5, <2>6, <2>7, IterationTypes
<1>3. ASSUME NEW s \in Probes, ReceiveProbe(s) PROVE TInv'
  BY <1>3, SessionTypes, IterationTypes DEF ReceiveProbe, Sessions, TInv
<1>4. CASE ReceiveNothing
  BY <1>4, IterationTypes DEF ReceiveNothing, TInv
<1>5. CASE Tick
  <2>1. MapsOf(assembler', Keys)
    BY <1>5, ExpireMaps DEF Tick, TInv
  <2>2. frame_age' \in 0..(StallAge + 1)
    BY <1>5, ReceiverAssumption DEF Tick, TInv
  <2> QED
    BY <1>5, <2>1, <2>2 DEF Tick, TInv, MapsOf, Refers, Keys, Sessions
<1>6. CASE UNCHANGED vars
  BY <1>6 DEF vars, TInv, MapsOf, Refers
<1> QED BY <1>1, <1>2, <1>3, <1>4, <1>5, <1>6 DEF Next

LEMMA InitTypes == Init => TInv
<1>1. InitialGate \in Gates /\ InitialGate.references = {}
  BY DEF InitialGate, Gates
<1> QED
  BY <1>1, EmptyMaps, ReceiverAssumption DEF Init, TInv, Refers

(* The media state of the loop is well-formed (receiver.cpp:269-374).      *)
THEOREM ReceiverTypes == Spec => []TypeOK
<1>1. Init => TInv
  BY InitTypes
<1>2. TInv => TypeOK
  BY DEF TInv, MapsOf, Refers, Gates, TypeOK
<1> QED BY <1>1, <1>2, NextTypes, PTL DEF Spec

-----------------------------------------------------------------------------
(* While the epochs of a session grow with its frames, as they do until    *)
(* the 16 bits wrap, every newer keyframe is shown.                        *)

EpochsGrow ==
  \A shard, other \in Shards :
    /\ shard.key.session = other.key.session
    /\ shard.key.frame_id <= other.key.frame_id
    => shard.key.epoch <= other.key.epoch

\* The gate's epoch is that of a frame of session s up to id n, and so is its
\* last frame.
Past(g, s, n) ==
  /\ g \in Gates
  /\ g.have_decoded_frame_id => g.last_decoded_frame_id <= n
  /\ g.stream_epoch # 0 =>
       \E old \in Shards : /\ old.key.session = s
                           /\ old.key.epoch = g.stream_epoch
                           /\ old.key.frame_id <= n

LEMMA FrozenPast ==
  ASSUME NEW g, NEW s, NEW n, Past(g, s, n)
  PROVE  Past(Freeze(g), s, n) /\ Past(ResetDecoder(g), s, n)
BY FreezeFields, ResetDecoderFields DEF Past

LEMMA EnteredFields ==
  ASSUME NEW g \in Gates, NEW epoch \in Nat
  PROVE  /\ Entered(g, epoch) \in Gates
         /\ Entered(g, epoch).stream_epoch = epoch
         /\ Entered(g, epoch).have_decoded_frame_id = FALSE
<1> DEFINE h == [Freeze(g) EXCEPT !.stream_epoch = epoch,
                                  !.have_decoded_frame_id = FALSE]
<1>1. /\ h \in Gates
      /\ h.stream_epoch = epoch
      /\ h.have_decoded_frame_id = FALSE
  BY FreezeFields DEF Gates
<1>2. Entered(g, epoch) = ResetDecoder(h)
  BY DEF Entered
<1> HIDE DEF h
<1> QED BY <1>1, <1>2, ResetDecoderFields

\* handle_frame leaves the gate behind the frames so far, the new one included.
LEMMA HandleFramePast ==
  ASSUME NEW s, NEW n \in Nat, NEW g, Past(g, s, n), NEW ok \in BOOLEAN,
         NEW shard \in Shards, shard.key.session = s, NEW frame,
         frame.key = shard.key,
         NEW m \in Nat, n <= m, shard.key.frame_id <= m
  PROVE  Past(HandleFrame(g, frame, ok), s, m)
<1>1. shard.key \in KeyType
  BY ReceiverAssumption DEF KeyType
<1>2. shard.key.epoch \in Nat /\ shard.key.frame_id \in Nat
  BY <1>1 DEF KeyType
<1>3. Past(g, s, m)
  <2>1. g.last_decoded_frame_id \in Nat
    BY DEF Past, Gates
  <2>2. \A old \in Shards : old.key.frame_id \in Nat
    BY ReceiverAssumption
  <2> QED BY <2>1, <2>2 DEF Past
<1>4. Past(EnterEpoch(g, frame), s, m)
  <2>1. Past(Entered(g, shard.key.epoch), s, m)
    BY <1>2, EnteredFields DEF Past
  <2>2. EnterEpoch(g, frame) \in {g, Entered(g, shard.key.epoch)}
    BY DEF EnterEpoch, Entered
  <2> QED BY <1>3, <2>1, <2>2
<1>5. Past(Checked(g, frame), s, m)
  BY <1>4, FrozenPast DEF Checked, CheckContinuity
<1>6. Past(Prepared(g, frame), s, m)
  BY <1>5, FrozenPast DEF Prepared
<1>7. ASSUME NEW h, Past(h, s, m) PROVE Past(Decode(h, frame, ok), s, m)
  <2> DEFINE d == Decode(h, frame, ok)
  <2>1. CASE ok
    <3>1. /\ d \in Gates
          /\ d.stream_epoch = h.stream_epoch
          /\ d.last_decoded_frame_id = shard.key.frame_id
      BY <1>1, <1>7, <2>1 DEF Decode, Past, Gates, KeyType
    <3>2. d.stream_epoch # 0 =>
            \E old \in Shards : /\ old.key.session = s
                                /\ old.key.epoch = d.stream_epoch
                                /\ old.key.frame_id <= m
      BY <1>7, <3>1 DEF Past
    <3> QED BY <3>1, <3>2 DEF Past
  <2>2. CASE ~ok
    <3>1. Past(ResetDecoder(Freeze(h)), s, m)
      BY <1>7, FrozenPast
    <3>2. d = ResetDecoder(Freeze(h))
      BY <2>2 DEF Decode, ResetDecoder
    <3> QED BY <3>1, <3>2
  <2> QED BY <2>1, <2>2
<1>8. Past(Freeze(Checked(g, frame)), s, m)
  BY <1>5, FrozenPast
<1>9. Past(Decode(Prepared(g, frame), frame, ok), s, m)
  BY <1>6, <1>7
<1> QED BY <1>3, <1>4, <1>8, <1>9 DEF HandleFrame

PInv == newest \in Nat /\ Past(gate, active_session, newest)

LEMMA SessionPast ==
  ASSUME PInv, NEW s
  PROVE  SessionNewest(s) \in Nat /\ Past(SessionGate(s), s, SessionNewest(s))
<1>1. CASE s = active_session
  BY <1>1 DEF PInv, SessionNewest, SessionGate
<1>2. CASE s # active_session
  <2> DEFINE f == [Freeze(gate) EXCEPT !.have_decoded_frame_id = FALSE,
                                       !.stream_epoch = 0]
  <2>1. f \in Gates /\ f.have_decoded_frame_id = FALSE /\ f.stream_epoch = 0
    BY FreezeFields DEF PInv, Past, Gates
  <2>2. SessionGate(s) = ResetDecoder(f)
    BY <1>2 DEF SessionGate, ResetMediaSession
  <2> HIDE DEF f
  <2>3. Past(SessionGate(s), s, 0)
    BY <2>1, <2>2, ResetDecoderFields DEF Past
  <2> QED BY <1>2, <2>3 DEF SessionNewest
<1> QED BY <1>1, <1>2

LEMMA NextPast == PInv /\ [Next]_vars => PInv'
<1> SUFFICES ASSUME PInv, [Next]_vars PROVE PInv'
  OBVIOUS
<1>1. ASSUME NEW s, NEW n \in Nat, NEW g, Past(g, s, n), NEW asm, ExpireOld(asm, g),
             active_session' = s, newest' = n
      PROVE  PInv'
  <2>1. Past(gate', s, n)
    BY <1>1, FrozenPast DEF ExpireOld
  <2> QED BY <1>1, <2>1 DEF PInv, Past
<1>2. ASSUME NEW shard \in Shards, ReceiveShard(shard) PROVE PInv'
  BY <1>1, <1>2, SessionPast DEF ReceiveShard
<1>3. ASSUME NEW shard \in Shards, NEW ok \in BOOLEAN, CompleteFrame(shard, ok)
      PROVE  PInv'
  <2> DEFINE s == shard.key.session
             pushed == Push(SessionAssembler(s), shard)
             frame == pushed.frame
             n == SessionNewest(s)
             m == IF frame.key.frame_id > n THEN frame.key.frame_id ELSE n
  <2>1. /\ frame.delivered
        /\ active_session' = s
        /\ newest' = m
        /\ ExpireOld(pushed.asm, HandleFrame(SessionGate(s), frame, ok))
    BY <1>3 DEF CompleteFrame
  <2>2. frame.key = shard.key
    BY <2>1, DeliveredKey
  <2>3. shard.key.frame_id \in Nat
    BY ReceiverAssumption
  <2>4. n \in Nat /\ Past(SessionGate(s), s, n)
    BY SessionPast
  <2>5. m \in Nat /\ n <= m /\ shard.key.frame_id <= m
    BY <2>2, <2>3, <2>4
  <2> HIDE DEF pushed, frame, n, m
  <2>6. Past(HandleFrame(SessionGate(s), frame, ok), s, m)
    BY <2>2, <2>4, <2>5, HandleFramePast
  <2> HIDE DEF s
  <2> QED BY <1>1, <2>1, <2>5, <2>6
<1>4. ASSUME NEW s \in Probes, ReceiveProbe(s) PROVE PInv'
  BY <1>1, <1>4, SessionPast DEF ReceiveProbe
<1>5. CASE ReceiveNothing
  BY <1>1, <1>5 DEF ReceiveNothing, PInv
<1>6. CASE Tick \/ UNCHANGED vars
  BY <1>6 DEF Tick, vars, PInv, Past
<1> QED BY <1>2, <1>3, <1>4, <1>5, <1>6 DEF Next

\* A keyframe newer than every frame so far passes the gate.
LEMMA NewerKeyframeFeeds ==
  ASSUME EpochsGrow, NEW s, NEW n \in Nat, NEW g, Past(g, s, n),
         NEW shard \in Shards, shard.key.session = s, shard.key.frame_id > n,
         NEW frame, frame.key = shard.key, frame.keyframe
  PROVE  Feeds(g, frame)
<1>1. shard.key.epoch \in Nat /\ shard.key.frame_id \in Nat
  BY ReceiverAssumption
<1>2. g \in Gates /\ g.stream_epoch \in Nat /\ g.last_decoded_frame_id \in Nat
  BY DEF Past, Gates
<1>3. ~OldEpoch(g, frame)
  <2>1. SUFFICES ASSUME g.stream_epoch # 0 PROVE g.stream_epoch <= shard.key.epoch
    BY <1>1, <1>2 DEF OldEpoch
  <2>2. PICK old \in Shards : /\ old.key.session = s
                              /\ old.key.epoch = g.stream_epoch
                              /\ old.key.frame_id <= n
    BY <2>1 DEF Past
  <2>3. old.key.frame_id \in Nat
    BY ReceiverAssumption
  <2>4. old.key.frame_id <= shard.key.frame_id
    BY <1>1, <2>2, <2>3
  <2> QED BY <2>2, <2>4 DEF EpochsGrow
<1>4. ~Late(EnterEpoch(g, frame), frame)
  <2>1. ~Late(g, frame)
    BY <1>1, <1>2 DEF Late, Past
  <2>2. ~Late(Entered(g, shard.key.epoch), frame)
    BY <1>1, <1>2, EnteredFields DEF Late
  <2>3. EnterEpoch(g, frame) \in {g, Entered(g, shard.key.epoch)}
    BY DEF EnterEpoch, Entered
  <2> QED BY <2>1, <2>2, <2>3
<1> QED BY <1>3, <1>4 DEF Feeds

(* README.md:286, the freeze ends with the next keyframe that is complete  *)
(* and decodes (receiver.cpp:493-567), for every stream whose epochs do    *)
(* not wrap.                                                               *)
THEOREM KeyframeAlwaysUnfreezes == EpochsGrow /\ Spec => KeyframeUnfreezes
<1> DEFINE Unfreezes ==
      \A shard \in Shards :
        /\ CompleteFrame(shard, TRUE)
        /\ shard.meta.keyframe
        /\ shard.key.frame_id > SessionNewest(shard.key.session)
        => shown' = {shard.key}
<1>1. Init => PInv
  <2>1. InitialGate \in Gates /\ InitialGate.have_decoded_frame_id = FALSE
        /\ InitialGate.stream_epoch = 0
    BY DEF InitialGate, Gates
  <2> QED BY <2>1 DEF Init, PInv, Past
<1>2. EpochsGrow /\ PInv => Unfreezes
  <2> SUFFICES ASSUME EpochsGrow, PInv, NEW shard \in Shards,
                      CompleteFrame(shard, TRUE), shard.meta.keyframe,
                      shard.key.frame_id > SessionNewest(shard.key.session)
               PROVE  shown' = {shard.key}
    OBVIOUS
  <2> DEFINE s == shard.key.session
             frame == Push(SessionAssembler(s), shard).frame
  <2>1. /\ frame.delivered
        /\ shown' = IF Feeds(SessionGate(s), frame) /\ TRUE THEN {frame.key} ELSE shown
    BY DEF CompleteFrame
  <2>2. frame.key = shard.key /\ frame.keyframe = shard.meta.keyframe
    BY <2>1, DeliveredKey
  <2>3. SessionNewest(s) \in Nat /\ Past(SessionGate(s), s, SessionNewest(s))
    BY SessionPast
  <2> HIDE DEF frame
  <2>4. Feeds(SessionGate(s), frame)
    BY <2>2, <2>3, NewerKeyframeFeeds
  <2> QED BY <2>1, <2>2, <2>4
<1>3. EpochsGrow /\ PInv => [Unfreezes]_vars
  BY <1>2
<1>4. Spec => []PInv
  BY <1>1, NextPast, PTL DEF Spec
<1>5. SUFFICES ASSUME EpochsGrow PROVE Spec => [][Unfreezes]_vars
  BY DEF KeyframeUnfreezes
<1>6. PInv => [Unfreezes]_vars
  BY <1>3, <1>5
<1> QED BY <1>4, <1>6, PTL

-----------------------------------------------------------------------------
(* What the reports say of the frames.                                     *)

\* A gate in session s that remembers a decoded frame has it on the screen.
Reports(g, s, picture) ==
  g.have_decoded_frame_id =>
    \E key \in picture : key.session = s /\ key.frame_id = g.last_decoded_frame_id

NInv ==
  /\ Reports(gate, active_session, shown)
  /\ \A old, new \in shown : old = new

LEMMA FrozenReports ==
  ASSUME NEW g \in Gates, NEW s, NEW picture, Reports(g, s, picture)
  PROVE  /\ Reports(Freeze(g), s, picture)
         /\ Reports(ResetDecoder(g), s, picture)
BY FreezeFields, ResetDecoderFields DEF Reports

\* handle_frame keeps the two together, whether the frame is shown or not.
LEMMA HandleFrameReports ==
  ASSUME NEW s, NEW picture, NEW g \in Gates, Reports(g, s, picture),
         NEW ok \in BOOLEAN, NEW frame, FrameOf(frame, s)
  PROVE  Reports(HandleFrame(g, frame, ok), s,
                 IF Feeds(g, frame) /\ ok THEN {frame.key} ELSE picture)
<1> DEFINE epoch == frame.key.epoch
<1>1. frame.key.session = s /\ epoch \in Nat /\ frame.key.frame_id \in Nat
  BY DEF FrameOf, KeyType
<1>2. EnterEpoch(g, frame) \in Gates /\ Reports(EnterEpoch(g, frame), s, picture)
  <2>1. Entered(g, epoch) \in Gates /\ Reports(Entered(g, epoch), s, picture)
    BY <1>1, EnteredFields DEF Reports
  <2>2. EnterEpoch(g, frame) \in {g, Entered(g, epoch)}
    BY DEF EnterEpoch, Entered
  <2> QED BY <2>1, <2>2
<1>3. Checked(g, frame) \in Gates /\ Reports(Checked(g, frame), s, picture)
  BY <1>2, FrozenReports, FreezeFields DEF Checked, CheckContinuity
<1>4. Prepared(g, frame) \in Gates /\ Reports(Prepared(g, frame), s, picture)
  BY <1>3, FrozenReports, ResetDecoderFields DEF Prepared
<1>5. CASE Feeds(g, frame) /\ ok
  <2> DEFINE d == Decode(Prepared(g, frame), frame, ok)
  <2>1. d.last_decoded_frame_id = frame.key.frame_id
    BY <1>4, <1>5 DEF Decode, Gates
  <2>2. Reports(d, s, {frame.key})
    BY <1>1, <2>1 DEF Reports
  <2>3. HandleFrame(g, frame, ok) = d
    BY <1>5 DEF HandleFrame, Feeds
  <2> QED BY <1>5, <2>2, <2>3
<1>6. CASE ~(Feeds(g, frame) /\ ok)
  <2> DEFINE d == Decode(Prepared(g, frame), frame, FALSE)
  <2>1. d = ResetDecoder(Freeze(Prepared(g, frame)))
    BY DEF Decode, ResetDecoder
  <2>2. Reports(d, s, picture)
    BY <1>4, <2>1, FrozenReports, FreezeFields
  <2>3. Reports(Freeze(Checked(g, frame)), s, picture)
    BY <1>3, FrozenReports
  <2>4. HandleFrame(g, frame, ok)
          \in {g, EnterEpoch(g, frame), d, Freeze(Checked(g, frame))}
    BY <1>6 DEF HandleFrame
  <2> HIDE DEF d
  <2>5. Reports(HandleFrame(g, frame, ok), s, picture)
    BY <1>2, <2>2, <2>3, <2>4
  <2> QED BY <1>6, <2>5
<1> QED BY <1>5, <1>6

LEMMA SessionReports ==
  ASSUME RInv, NInv, NEW s
  PROVE  SessionGate(s) \in Gates /\ Reports(SessionGate(s), s, shown)
<1>1. gate \in Gates
  BY DEF RInv, Standing
<1>2. CASE s = active_session
  BY <1>1, <1>2 DEF SessionGate, NInv
<1>3. CASE s # active_session
  <2> DEFINE f == [Freeze(gate) EXCEPT !.have_decoded_frame_id = FALSE,
                                       !.stream_epoch = 0]
  <2>1. f \in Gates /\ f.have_decoded_frame_id = FALSE
    BY <1>1, FreezeFields DEF Gates
  <2>2. SessionGate(s) = ResetDecoder(f)
    BY <1>3 DEF SessionGate, ResetMediaSession
  <2> HIDE DEF f
  <2> QED BY <2>1, <2>2, ResetDecoderFields DEF Reports
<1> QED BY <1>2, <1>3

LEMMA NextReports == RInv /\ NInv /\ [Next]_vars => NInv'
<1> SUFFICES ASSUME RInv, NInv, [Next]_vars PROVE NInv'
  OBVIOUS
<1>1. ASSUME NEW s, NEW g \in Gates, NEW asm, ExpireOld(asm, g),
             active_session' = s, Reports(g, s, shown')
      PROVE  Reports(gate, active_session, shown)'
  <2>1. Reports(gate', s, shown')
    BY <1>1, FrozenReports DEF ExpireOld
  <2> QED BY <1>1, <2>1 DEF Reports
<1>2. ASSUME NEW shard \in Shards, ReceiveShard(shard) PROVE NInv'
  BY <1>1, <1>2, SessionReports DEF ReceiveShard, NInv
<1>3. ASSUME NEW shard \in Shards, NEW ok \in BOOLEAN, CompleteFrame(shard, ok)
      PROVE  NInv'
  <2> DEFINE s == shard.key.session
             pushed == Push(SessionAssembler(s), shard)
             frame == pushed.frame
             before == SessionGate(s)
  <2>1. /\ frame.delivered
        /\ active_session' = s
        /\ shown' = IF Feeds(before, frame) /\ ok THEN {frame.key} ELSE shown
        /\ ExpireOld(pushed.asm, HandleFrame(before, frame, ok))
    BY <1>3 DEF CompleteFrame
  <2>2. frame.key = shard.key /\ shard.key \in KeyType
    BY <2>1, DeliveredKey, ReceiverAssumption DEF KeyType
  <2>3. FrameOf(frame, s)
    BY <2>2 DEF FrameOf
  <2>4. before \in Gates /\ Reports(before, s, shown)
    BY SessionReports
  <2> HIDE DEF pushed, frame, before, s
  <2>5. Reports(HandleFrame(before, frame, ok), s, shown')
    BY <2>1, <2>3, <2>4, HandleFrameReports
  <2>6. HandleFrame(before, frame, ok) \in Gates
    <3>1. Refers(before, KeyType)
      BY <2>4 DEF Refers, Gates
    <3> QED BY <2>2, <3>1, HandleFrameRefers DEF Refers
  <2> QED BY <1>1, <2>1, <2>5, <2>6 DEF NInv
<1>4. ASSUME NEW s \in Probes, ReceiveProbe(s) PROVE NInv'
  BY <1>1, <1>4, SessionReports DEF ReceiveProbe, NInv
<1>5. CASE ReceiveNothing
  <2>1. gate \in Gates
    BY DEF RInv, Standing
  <2> QED BY <1>1, <1>5, <2>1 DEF ReceiveNothing, NInv
<1>6. CASE Tick \/ UNCHANGED vars
  BY <1>6 DEF Tick, vars, NInv, Reports
<1> QED BY <1>2, <1>3, <1>4, <1>5, <1>6 DEF Next

\* Of two pictures of a session the later one has the higher id.
LEMMA LaterIsHigher ==
  ASSUME EpochsGrow, NEW old \in Keys, NEW new \in Keys,
         old.session = new.session, Playback!After(new, old)
  PROVE  old.frame_id <= new.frame_id
<1>1. PICK a \in Shards, b \in Shards : old = a.key /\ new = b.key
  BY DEF Keys
<1>2. /\ old \in KeyType /\ new \in KeyType
      /\ Started[new.session] \in Nat
  BY <1>1, ReceiverAssumption DEF KeyType, Sessions
<1>3. ~Playback!NewerSession(new.session, old.session)
  BY <1>2 DEF Playback!NewerSession, KeyType
<1>4. new.epoch > old.epoch \/ (new.epoch = old.epoch /\ new.frame_id > old.frame_id)
  BY <1>3 DEF Playback!After
<1>5. ASSUME new.frame_id <= old.frame_id PROVE new.epoch <= old.epoch
  BY <1>1, <1>5 DEF EpochsGrow
<1> QED BY <1>2, <1>4, <1>5 DEF KeyType

(* What UdpStream takes for granted of its receiver: the reports of a      *)
(* session name the picture on the screen or none (receiver.cpp:383-386),  *)
(* and the pictures have ever higher ids, for every stream whose epochs do *)
(* not wrap.                                                               *)
THEOREM ReportsAlwaysTrue == EpochsGrow /\ Spec => ReportsAreTrue
<1> DEFINE Higher == \A old \in shown, new \in shown' :
                       old.session = new.session => old.frame_id <= new.frame_id
           Holds ==
             /\ last_complete_frame_id' # 0 =>
                  \E key \in shown' : /\ key.session = active_session'
                                      /\ key.frame_id = last_complete_frame_id'
             /\ \A old \in shown, new \in shown' :
                  old.session = new.session => old.frame_id <= new.frame_id
<1>1. Init => RInv /\ TInv /\ NInv
  <2>1. InitialGate.have_decoded_frame_id = FALSE
    BY DEF InitialGate
  <2> QED BY <2>1, ReceiverInit, InitTypes DEF Init, NInv, Reports
<1>2. RInv /\ TInv /\ NInv /\ [Next]_vars => (RInv /\ TInv /\ NInv)'
  BY ReceiverStep, NextTypes, NextReports
<1>3. NInv' => (last_complete_frame_id' # 0 =>
                  \E key \in shown' : /\ key.session = active_session'
                                      /\ key.frame_id = last_complete_frame_id')
  BY DEF NInv, Reports, last_complete_frame_id
<1>4. ASSUME EpochsGrow, RInv, TInv, TInv', NInv, [Next]_vars PROVE Higher
  <2>1. PlayStep
    BY <1>4, ReceiverStep
  <2>2. /\ shown \in SUBSET Keys /\ shown' \in SUBSET Keys
        /\ \A key \in Keys : key.frame_id \in Nat
    BY <1>4, ReceiverAssumption DEF TInv, Keys
  <2>3. CASE shown' = shown
    BY <1>4, <2>2, <2>3 DEF NInv
  <2>4. ASSUME NEW picture \in Pictures, Playback!Show(picture) PROVE Higher
    BY <1>4, <2>2, <2>4, LaterIsHigher DEF Playback!Show
  <2> QED
    BY <2>1, <2>3, <2>4 DEF PlayStep, Playback!PlaybackNext, Playback!FreezePicture
<1>5. SUFFICES ASSUME EpochsGrow PROVE Spec => [][Holds]_vars
  BY DEF ReportsAreTrue
<1>6. ASSUME RInv, TInv, NInv, (RInv /\ TInv /\ NInv)', [Next]_vars
      PROVE  Holds
  BY <1>3, <1>4, <1>5, <1>6
<1>7. RInv /\ TInv /\ NInv /\ (RInv /\ TInv /\ NInv)' /\ [Next]_vars
        => [Holds]_vars
  BY <1>6
<1> QED BY <1>1, <1>2, <1>7, PTL DEF Spec
=============================================================================
