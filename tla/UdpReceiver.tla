------------------------------ MODULE UdpReceiver ------------------------------
(***************************************************************************)
(* The media half of the UDP receive loop, ReceiverApp::run_udp of         *)
(* src/receiver.cpp: one loop iteration takes a datagram (or none), lets   *)
(* its session in or not, pushes the shard into the frame assembler, hands *)
(* a completed frame to the gate and expires what is old.  The reporting   *)
(* half (packet counters, feedback reports) reads this state and changes   *)
(* none of it; UdpStream models what the sender acts upon.                 *)
(*                                                                         *)
(* The network is the set of all shards and probes the senders ever send:  *)
(* any of them may arrive at any time, any number of times, or never.      *)
(***************************************************************************)
EXTENDS FrameAssembler, ReceiverGate

CONSTANTS
  Shards,        \* the shards that may arrive, see FrameAssembler
  Probes,        \* the sessions whose probes may arrive
  Started,       \* session_started_unix_us of each session id
  StallAge       \* ticks without a decoded frame that are a stall (1500 ms)

Sessions == {shard.key.session : shard \in Shards} \cup Probes

ASSUME ReceiverAssumption ==
  /\ \A shard \in Shards :
       /\ shard.key \in [session : Nat \ {0}, epoch : Nat \ {0}, frame_id : Nat]
       /\ shard.meta.keyframe \in BOOLEAN
  /\ Probes \subseteq Nat \ {0}
  /\ Started \in [Sessions -> Nat]
  /\ StallAge \in Nat

VARIABLES
  active_session,   \* active_session_id_, 0 before the first session
  assembler,
  gate,
  frame_age,        \* ticks since the last decoded frame or the reset
  fed,              \* history: the last frame handed to the decoder, if any
  shown,            \* history: the key of the last picture decoded, if any
  newest,           \* history: the highest frame id completed this session
  left              \* history: the sessions that were left

vars ==
  <<active_session, assembler, gate, frame_age, fed, shown, newest, left>>

Init ==
  /\ active_session = 0
  /\ assembler = EmptyAssembler
  /\ gate = InitialGate
  /\ frame_age = 0
  /\ fed = {}
  /\ shown = {}
  /\ newest = 0
  /\ left = {}

-----------------------------------------------------------------------------
(* accept_session: lines 269-299. *)

\* Mutant: a higher id is newer whenever the sessions started.
NewerStartOrId(s, t) == Started[s] > Started[t] \/ s > t

NewerSession(s, t) ==
  \/ Started[s] > Started[t]
  \/ Started[s] = Started[t] /\ s > t

Accepted(s) ==
  active_session \notin {0, s} => NewerSession(s, active_session)

\* The media state once a datagram of session s is let in.
SessionAssembler(s) == IF s = active_session THEN assembler ELSE EmptyAssembler
SessionGate(s) == IF s = active_session THEN gate ELSE ResetMediaSession(gate)
SessionAge(s)  == IF s = active_session THEN frame_age ELSE 0
SessionNewest(s) == IF s = active_session THEN newest ELSE 0
SessionsLeft(s) ==
  IF active_session \in {0, s} THEN left ELSE left \cup {active_session}

\* The end of the iteration: lines 368-374.
ExpireOld(asm, gate_now) ==
  /\ assembler' = Expire(asm)
  /\ gate' = IF Expired(asm) = {} THEN gate_now ELSE Freeze(gate_now)

-----------------------------------------------------------------------------
(* One iteration of the loop. *)

\* A shard of an accepted session that completes no frame.
ReceiveShard(shard) ==
  LET s == shard.key.session
      pushed == Push(SessionAssembler(s), shard)
  IN  /\ Accepted(s)
      /\ ~pushed.frame.delivered
      /\ active_session' = s
      /\ frame_age' = SessionAge(s)
      /\ newest' = SessionNewest(s)
      /\ left' = SessionsLeft(s)
      /\ ExpireOld(pushed.asm, SessionGate(s))
      /\ UNCHANGED <<fed, shown>>

\* A shard that completes a frame: handle_frame, then the expiry.
CompleteFrame(shard, ok) ==
  LET s == shard.key.session
      pushed == Push(SessionAssembler(s), shard)
      frame == pushed.frame
      before == SessionGate(s)
      feeds == Feeds(before, frame)
  IN  /\ Accepted(s)
      /\ frame.delivered
      /\ active_session' = s
      /\ frame_age' = IF feeds /\ ok THEN 0 ELSE SessionAge(s)
      /\ fed' = IF feeds
                THEN {[frame |-> frame,
                       references |-> Prepared(before, frame).references]}
                ELSE fed
      /\ shown' = IF feeds /\ ok THEN {frame.key} ELSE shown
      /\ newest' = IF frame.key.frame_id > SessionNewest(s)
                   THEN frame.key.frame_id ELSE SessionNewest(s)
      /\ left' = SessionsLeft(s)
      /\ ExpireOld(pushed.asm, HandleFrame(before, frame, ok))

ReceiveProbe(s) ==
  /\ Accepted(s)
  /\ active_session' = s
  /\ frame_age' = SessionAge(s)
  /\ newest' = SessionNewest(s)
  /\ left' = SessionsLeft(s)
  /\ ExpireOld(SessionAssembler(s), SessionGate(s))
  /\ UNCHANGED <<fed, shown>>

\* No datagram within the 2 ms poll, or one that does not parse.
ReceiveNothing ==
  /\ ExpireOld(assembler, gate)
  /\ UNCHANGED <<active_session, frame_age, fed, shown, newest, left>>

\* A datagram of an older session ends the iteration at once (`continue`):
\* nothing changes, and nothing expires either.  It is a stuttering step.

Tick ==
  /\ assembler' = Older(assembler)
  /\ frame_age' = IF frame_age <= StallAge THEN frame_age + 1 ELSE frame_age
  /\ UNCHANGED <<active_session, gate, fed, shown, newest, left>>

Next ==
  \/ \E shard \in Shards :
       ReceiveShard(shard) \/ \E ok \in BOOLEAN : CompleteFrame(shard, ok)
  \/ \E s \in Probes : ReceiveProbe(s)
  \/ ReceiveNothing
  \/ Tick

Spec == Init /\ [][Next]_vars

-----------------------------------------------------------------------------
(* Type correctness of the loop's media state. *)
Keys == {shard.key : shard \in Shards}

TypeOK ==
  /\ active_session \in Sessions \cup {0}
  /\ DOMAIN assembler.frames \cup DOMAIN assembler.completed \subseteq Keys
  /\ gate.synchronized \in BOOLEAN
  /\ gate.keyframe_request_pending \in BOOLEAN
  /\ gate.have_decoded_frame_id \in BOOLEAN
  /\ gate.stream_epoch \in Nat
  /\ gate.last_decoded_frame_id \in Nat
  /\ gate.references \in SUBSET Keys
  /\ frame_age \in 0..(StallAge + 1)
  /\ shown \in SUBSET Keys

\* The key of the frame just before, in the same session and epoch.
Previous(key) == [key EXCEPT !.frame_id = @ - 1]

(* README.md:10 and 286, strict keyframe gating: a frame that is not a     *)
(* keyframe is handed to the decoder only when the decoder's reference     *)
(* state is that of the frame just before it, in the same session and      *)
(* epoch, however frames were lost, reordered, repeated or expired and     *)
(* whatever resets and decode errors came between.                         *)
StrictGating ==
  \A feed \in fed :
    feed.frame.keyframe \/ feed.references = {Previous(feed.frame.key)}

(* The receiver knows where it is.  It is frozen exactly while its         *)
(* feedback asks for a keyframe: no path through handle_frame, the expiry  *)
(* or a session reset freezes the picture without asking, or goes on       *)
(* asking after the resynchronization.  While it is not frozen, its last   *)
(* decoded frame is that of the decoder's references, in the active        *)
(* session and the current epoch, and is the picture on the screen.        *)
SynchronizedConsistent ==
  /\ gate.keyframe_request_pending <=> ~gate.synchronized
  /\ gate.synchronized =>
       /\ gate.have_decoded_frame_id
       /\ gate.references = {[session |-> active_session,
                              epoch |-> gate.stream_epoch,
                              frame_id |-> gate.last_decoded_frame_id]}
       /\ shown = gate.references

(* The receiver implements what it promises the viewer. *)
Pictures == {[key |-> shard.key, keyframe |-> shard.meta.keyframe] :
               shard \in Shards}
Playback == INSTANCE GatedPlayback WITH live <- gate.synchronized
ImplementsPlayback == Playback!PlaybackSpec

(* A session that was left for another is never active again: however      *)
(* often senders are restarted, started at the same moment or started with *)
(* a clock that was set back, and whatever late datagrams of them arrive,  *)
(* two senders cannot take the screen from each other in turn.             *)
SessionNeverReturns == active_session \notin left

\* What a report says (receiver.cpp:383-386).
last_complete_frame_id ==
  IF gate.have_decoded_frame_id THEN gate.last_decoded_frame_id ELSE 0

(* What the sender ends a recovery by (UdpStream takes it for granted):    *)
(* within a session the pictures have ever higher ids, and a report names  *)
(* the one on the screen or none, though epochs change, frames fail to     *)
(* decode and a new session counts its frames from the start.              *)
ReportsAreTrue ==
  [][ /\ last_complete_frame_id' # 0 =>
           \E key \in shown' : /\ key.session = active_session'
                               /\ key.frame_id = last_complete_frame_id'
      /\ \A old \in shown, new \in shown' :
           old.session = new.session => old.frame_id <= new.frame_id ]_vars

(* README.md:286 "freezes until a complete keyframe is recovered": a       *)
(* keyframe newer than every frame completed in the session, once complete *)
(* and decoded, is shown.                                                  *)
KeyframeUnfreezes ==
  [][ \A shard \in Shards :
        /\ CompleteFrame(shard, TRUE)
        /\ shard.meta.keyframe
        /\ shard.key.frame_id > SessionNewest(shard.key.session)
        => shown' = {shard.key} ]_vars
=============================================================================
