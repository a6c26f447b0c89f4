----------------------------- MODULE GatedPlayback -----------------------------
(***************************************************************************)
(* What the receiver promises the viewer (README.md:10 "strict             *)
(* complete-frame/keyframe gating", README.md:286-288): the picture on the *)
(* screen is a keyframe or follows the picture before it without a gap; it *)
(* never goes back in the stream; and when the chain is broken the last    *)
(* picture stays until a keyframe.                                         *)
(***************************************************************************)
EXTENDS Integers

CONSTANTS
  Pictures,   \* the frames of all streams: [key, keyframe]
  Started     \* when each session started

VARIABLES
  shown,      \* {} or the set of the key of the picture on the screen
  live        \* FALSE while the picture is frozen

playbackVars == <<shown, live>>

\* accept_session's order: a later start, then a higher id.
NewerSession(s, t) ==
  \/ Started[s] > Started[t]
  \/ Started[s] = Started[t] /\ s > t

\* k comes after j in what the receiver plays.
After(k, j) ==
  \/ NewerSession(k.session, j.session)
  \/ /\ k.session = j.session
     /\ k.epoch > j.epoch \/ (k.epoch = j.epoch /\ k.frame_id > j.frame_id)

Follows(k, j) ==
  /\ k.session = j.session
  /\ k.epoch = j.epoch
  /\ k.frame_id = j.frame_id + 1

PlaybackInit == shown = {} /\ live = FALSE

Show(picture) ==
  /\ shown' = {picture.key}
  /\ \A j \in shown : After(picture.key, j)
  /\ \/ picture.keyframe
     \/ live /\ \E j \in shown : Follows(picture.key, j)
  /\ live' \in BOOLEAN

FreezePicture == live' = FALSE /\ UNCHANGED shown

PlaybackNext == (\E picture \in Pictures : Show(picture)) \/ FreezePicture

PlaybackSpec == PlaybackInit /\ [][PlaybackNext]_playbackVars
=============================================================================
