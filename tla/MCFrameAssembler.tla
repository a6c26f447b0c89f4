--------------------------- MODULE MCFrameAssembler ---------------------------
(***************************************************************************)
(* Shards for TLC: a two-block frame with a damaged shard, a shard of      *)
(* other frame metadata and one of another block layout; a later frame of  *)
(* three shards any two of which suffice; a frame of an older epoch with   *)
(* one data shard; and shards that fail push's own checks.                 *)
(***************************************************************************)
EXTENDS FrameAssemblerSpec

Key(epoch, id) == [session |-> 1, epoch |-> epoch, frame_id |-> id]
Meta(variant, blocks, keyframe) ==
  [variant |-> variant, blocks |-> blocks, keyframe |-> keyframe]
Layout(data, parity) == [data |-> data, parity |-> parity]

Shards(key, meta, layout, blocks, shards, intact) ==
  [key : {key}, meta : {meta}, layout : {layout}, block : blocks,
   shard : shards, intact : {intact}]

TwoBlocks == Meta("a", 2, TRUE)
OneBlock  == Meta("a", 1, FALSE)

MCPackets ==
  Shards(Key(2, 1), TwoBlocks, Layout(1, 1), {0, 1}, {0}, TRUE) \cup
  Shards(Key(2, 1), TwoBlocks, Layout(1, 1), {0}, {1}, FALSE) \cup
  Shards(Key(2, 1), TwoBlocks, Layout(2, 1), {1}, {0}, TRUE) \cup
  Shards(Key(2, 1), Meta("b", 2, TRUE), Layout(1, 1), {0}, {0}, TRUE) \cup
  Shards(Key(2, 2), OneBlock, Layout(2, 1), {0}, 0..2, TRUE) \cup
  Shards(Key(1, 3), OneBlock, Layout(2, 1), {0}, {1, 2}, TRUE) \cup
  Shards(Key(1, 3), OneBlock, Layout(1, 0), {0}, {0}, TRUE) \cup
  Shards(Key(1, 3), OneBlock, Layout(1, 1), {1}, {0}, TRUE) \cup
  Shards(Key(1, 3), OneBlock, Layout(2, 1), {0}, {3}, TRUE)
=============================================================================
