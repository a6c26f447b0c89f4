---------------------------- MODULE MCUdpReceiver ----------------------------
(* Streams for TLC. *)
EXTENDS UdpReceiver

Key(session, epoch, id) == [session |-> session, epoch |-> epoch, frame_id |-> id]

\* The first `sent` shards of a frame of one block, any `data` of which
\* recover it.
FrameShards(key, keyframe, data, sent) ==
  [key : {key}, meta : {[variant |-> "a", blocks |-> 1, keyframe |-> keyframe]},
   layout : {[data |-> data, parity |-> 1]}, block : {0}, shard : 0..(sent - 1),
   intact : {TRUE}]

\* Two senders one after the other.  The first starts with a keyframe, a frame
\* of two data shards that can stay incomplete and expire, and another
\* keyframe, and then changes the profile (a new epoch).  The second loses
\* every shard of its frame 2.
TwoSessions ==
  FrameShards(Key(1, 1, 1), TRUE, 1, 1) \cup
  FrameShards(Key(1, 1, 2), FALSE, 2, 2) \cup
  FrameShards(Key(1, 1, 3), TRUE, 1, 1) \cup
  FrameShards(Key(1, 2, 4), TRUE, 1, 1) \cup
  FrameShards(Key(1, 2, 5), FALSE, 1, 1) \cup
  FrameShards(Key(2, 1, 1), TRUE, 1, 1) \cup
  FrameShards(Key(2, 1, 3), FALSE, 1, 1)

\* A sender whose 16-bit encoder epoch goes from its last value, here 2, back
\* to 1 (video_source_reader.cpp: ++epoch_, and 1 instead of 0).
WrappedEpoch ==
  FrameShards(Key(1, 2, 1), TRUE, 1, 1) \cup
  FrameShards(Key(1, 1, 2), TRUE, 1, 1) \cup
  FrameShards(Key(1, 1, 3), FALSE, 1, 1)

OneStart  == [s \in {1} |-> 5]
\* Sessions 1 and 2 started together, and session 3 before them.
EarlyThird == [s \in 1..3 |-> IF s = 3 THEN 4 ELSE 5]
=============================================================================
