----------------------------- MODULE MCVideoSource -----------------------------
(* Profiles, a file and frame sizes for TLC. *)
EXTENDS VideoSource

Fast == [interval |-> 2, ratio |-> 50, keyframe_ratio |-> 100,
         min_data_shards |-> 2, all_intra |-> FALSE]
Slow == [interval |-> 3, ratio |-> 300, keyframe_ratio |-> 300,
         min_data_shards |-> 1, all_intra |-> TRUE]
TwoProfiles == {Fast, Slow}

\* A file at a constant rate, with a gap.
ThreePictures == <<0, 1, 4>>
=============================================================================
