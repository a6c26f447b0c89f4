------------------------------ MODULE VideoOutput ------------------------------
(***************************************************************************)
(* The receiver's window: VideoRenderer of src/video/video_renderer.cpp    *)
(* and the latency statistics it feeds (src/common/latency_stats.cpp).     *)
(* The receive loop submits decoded frames to a queue of three; the render *)
(* thread takes the whole queue, shows or schedules each frame             *)
(* (OutputCadence), and then lets the schedule show what is due.           *)
(*                                                                         *)
(* A new media session empties the queue and starts a new generation of    *)
(* latency samples, while the render thread may still hold frames of the   *)
(* old session.  A frame is its id, in the order of submission, with the   *)
(* generation it was submitted under, the size of its picture and its      *)
(* time of submission.  SDL is external: a picture that is presented is    *)
(* shown.  Latency is measured from source to display.                     *)
(***************************************************************************)
EXTENDS OutputCadence, Sequences

CONSTANTS
  MaxQueued,       \* kMaxQueuedFrames, 3
  Sizes,           \* the sizes of the processed pictures
  LoopPeriod,      \* the render loop comes round within this time: 10 ms in
                   \* wait_for, and what processing and presenting take
  \* Bounds of the model.
  MaxFrames, MaxTime, MaxSessions

ASSUME OutputAssumption ==
  /\ MaxQueued \in Nat \ {0}
  /\ LoopPeriod \in Nat
  /\ {MaxFrames, MaxTime, MaxSessions} \subseteq Nat

VARIABLES
  now,
  \* the receive loop
  caller,            \* "runs"; "resets" between discard_pending and the new
                     \* latency generation; "stops" in join; "stopped"
  next_id,           \* id of the next frame submitted
  \* shared under mutex_
  queue,             \* frames_
  stopping,          \* stopping_
  \* the render thread
  loop,              \* "waits", "shows" the frames taken, or "done"
  pending,           \* the frames taken
  previous, current, \* {} or {frame}
  recorded,          \* current's latency_recorded
  cadence,
  rendered_frames,   \* the pictures presented so far
  looped_at,         \* when the last iteration ended
  \* shared under the mutex of LatencyStats
  generation,
  samples,           \* ids of the frames the samples are of
  \* history
  session_start,     \* id of the session's first frame
  output_at,         \* when a picture was presented last
  real_shown,        \* id of the frame shown as itself last
  screen             \* the last [action, id] presented

callerVars == <<caller, next_id>>
frameVars == <<pending, previous, current>>
shownVars ==
  <<recorded, samples, output_at, real_shown, screen, rendered_frames>>
vars == <<now, callerVars, queue, stopping, loop, frameVars, cadence, looped_at,
          generation, session_start, shownVars>>

Init ==
  /\ now = 0
  /\ caller = "runs"
  /\ next_id = 1
  /\ queue = <<>>
  /\ stopping = FALSE
  /\ loop = "waits"
  /\ pending = <<>>
  /\ previous = {}
  /\ current = {}
  /\ recorded = FALSE
  /\ cadence = InitialCadence
  /\ looped_at = 0
  /\ generation = 1
  /\ samples = {}
  /\ session_start = 1
  /\ output_at = 0
  /\ real_shown = 0
  /\ screen = [action |-> "None", id |-> 0]
  /\ rendered_frames = 0

-----------------------------------------------------------------------------
(* The receive loop. *)

\* Mutant: one frame too many is kept.
KeepOneMore ==
  IF Len(queue) > MaxQueued
  THEN SubSeq(queue, Len(queue) - MaxQueued + 1, Len(queue)) ELSE queue

\* The oldest frames make room.
MakeRoom ==
  IF Len(queue) >= MaxQueued
  THEN SubSeq(queue, Len(queue) - MaxQueued + 2, Len(queue)) ELSE queue

\* submit.
Submit(size) ==
  /\ caller = "runs"
  /\ next_id <= MaxFrames
  /\ LET frame == [id |-> next_id, generation |-> generation, size |-> size,
                   received_at |-> now]
     IN  queue' = Append(MakeRoom, frame)
  /\ next_id' = next_id + 1
  /\ UNCHANGED <<now, caller, stopping, loop, frameVars, cadence, looped_at,
                 generation, session_start, shownVars>>

\* reset_media_session: discard_pending ...
DiscardPending ==
  /\ caller = "runs"
  /\ generation < MaxSessions
  /\ caller' = "resets"
  /\ queue' = <<>>
  /\ UNCHANGED <<now, next_id, stopping, loop, frameVars, cadence, looped_at,
                 generation, session_start, shownVars>>

\* ... and then LatencyStats::reset.
ResetLatency ==
  /\ caller = "resets"
  /\ caller' = "runs"
  /\ generation' = generation + 1
  /\ samples' = {}
  /\ session_start' = next_id
  /\ UNCHANGED <<now, next_id, queue, stopping, loop, frameVars, cadence,
                 looped_at, recorded, output_at, real_shown, screen, rendered_frames>>

\* stop: wait for the thread, then empty the queue.
Stop ==
  /\ caller = "runs"
  /\ caller' = "stops"
  /\ stopping' = TRUE
  /\ UNCHANGED <<now, next_id, queue, loop, frameVars, cadence, looped_at,
                 generation, session_start, shownVars>>

Join ==
  /\ caller = "stops"
  /\ loop = "done"
  /\ caller' = "stopped"
  /\ queue' = <<>>
  /\ UNCHANGED <<now, next_id, stopping, loop, frameVars, cadence, looped_at,
                 generation, session_start, shownVars>>

-----------------------------------------------------------------------------
(* The render thread. *)

\* The queue is taken whole, and SDL's events are read.
TakeQueue ==
  /\ loop = "waits"
  /\ ~stopping
  /\ loop' = "shows"
  /\ pending' = queue
  /\ queue' = <<>>
  /\ stopping' \in {stopping, TRUE}     \* SDL_QUIT
  /\ UNCHANGED <<now, callerVars, previous, current, cadence, looped_at,
                 generation, session_start, shownVars>>

\* Mutant: samples of an old session are recorded too.
AnyGeneration(frame) == TRUE

\* LatencyStats::record keeps the samples of its generation.
OfGeneration(frame) == frame.generation = generation

\* present.  `frames` is current; a blend that cannot be made shows previous
\* instead.
Present(action, frames, was_recorded) ==
  IF action = "None" \/ frames = {}
  THEN /\ recorded' = was_recorded
       /\ UNCHANGED <<samples, output_at, real_shown, screen, rendered_frames>>
  ELSE \E frame \in frames :
         /\ output_at' = now
         /\ rendered_frames' = rendered_frames + 1
         /\ screen' = [action |-> action, id |-> frame.id]
         /\ IF action = "CurrentReal"
            THEN /\ real_shown' = frame.id
                 /\ recorded' = TRUE
                 /\ samples' = IF ~was_recorded /\ OfGeneration(frame)
                               THEN samples \cup {frame.id} ELSE samples
            ELSE /\ recorded' = was_recorded
                 /\ UNCHANGED <<samples, real_shown>>

CanBlend(frame) == \E before \in current : before.size = frame.size

\* Each frame taken is processed and shown, or left to the schedule.
ShowFrame ==
  /\ loop = "shows"
  /\ pending # <<>>
  /\ LET frame == Head(pending)
     IN  /\ previous' = current
         /\ current' = {frame}
         /\ cadence' = RealFrame(cadence, frame.received_at, CanBlend(frame))
         /\ Present(RealFrameAction(cadence, frame.received_at), {frame}, FALSE)
  /\ pending' = Tail(pending)
  /\ UNCHANGED <<now, callerVars, queue, stopping, loop, looped_at, generation,
                 session_start>>

\* OutputProcessor::process gives no picture.
SkipFrame ==
  /\ loop = "shows"
  /\ pending # <<>>
  /\ pending' = Tail(pending)
  /\ UNCHANGED <<now, callerVars, queue, stopping, loop, previous, current,
                 cadence, looped_at, generation, session_start, shownVars>>

\* The schedule shows what is due, and the iteration ends.
ShowDue ==
  /\ loop = "shows"
  /\ pending = <<>>
  /\ cadence' = Tick(cadence, now)
  /\ Present(TickAction(cadence, now), current, recorded)
  /\ looped_at' = now
  /\ loop' = "waits"
  /\ UNCHANGED <<now, callerVars, queue, stopping, frameVars, generation,
                 session_start>>

LeaveLoop ==
  /\ loop = "waits"
  /\ stopping
  /\ loop' = "done"
  /\ previous' = {}
  /\ current' = {}
  /\ UNCHANGED <<now, callerVars, queue, stopping, pending, cadence, looped_at,
                 generation, session_start, shownVars>>

\* Time passes, and the render thread comes round in time.
Pass ==
  /\ now < MaxTime
  /\ loop # "done" => now < looped_at + LoopPeriod
  /\ now' = now + 1
  /\ UNCHANGED <<callerVars, queue, stopping, loop, frameVars, cadence, looped_at,
                 generation, session_start, shownVars>>

-----------------------------------------------------------------------------
Next ==
  \/ \E size \in Sizes : Submit(size)
  \/ DiscardPending
  \/ ResetLatency
  \/ Stop
  \/ Join
  \/ TakeQueue
  \/ ShowFrame
  \/ SkipFrame
  \/ ShowDue
  \/ LeaveLoop
  \/ Pass

Spec == Init /\ [][Next]_vars

-----------------------------------------------------------------------------
Frames == [id : Nat, generation : Nat, size : Sizes, received_at : Nat]

(* Type correctness, and the order of the frames: the ids grow along       *)
(* current, pending and the queue.                                         *)
TypeOK ==
  /\ Len(queue) <= MaxQueued
  /\ cadence \in CadenceStates
  /\ screen.action \in Actions
  /\ \A frame \in previous \cup current : frame \in Frames
  /\ LET line == pending \o queue
     IN  /\ line \in Seq(Frames)
         /\ \A i, j \in 1..Len(line) : i < j => line[i].id < line[j].id
         /\ \A frame \in current, i \in 1..Len(line) : frame.id < line[i].id

(* README.md:95-97 "When complete decoded frames arrive slower than the    *)
(* minimum output frame rate, the display generates CPU-processed frames   *)
(* at that cadence": from the first picture until the window is closed a   *)
(* picture is presented at least once an interval, give or take one round  *)
(* of the loop, however frames come and go and sessions change.            *)
OutputKeepsUp ==
  current # {} => now - output_at <= Interval + LoopPeriod

(* The source-to-display latency of README.md:193-202: every sample is of  *)
(* a frame of the current session, though the render thread still shows    *)
(* frames it took before the session began.                                *)
SamplesOfThisSession == \A id \in samples : id >= session_start

(* README.md:102-104 "blend emits one 50/50 transition frame before        *)
(* displaying a newly received low-rate frame", "Both modes retain the     *)
(* last complete frame during a prolonged gap".  Whenever a picture is     *)
(* presented it is no older than the one before it, and                    *)
(*   a frame is shown as itself at most once;                              *)
(*   a blend comes at most once, before the frame it leads to;             *)
(*   what is repeated is the frame shown last, which no blend has left.    *)
ScreenGoesForward ==
  [][ rendered_frames' # rendered_frames =>
        CASE screen'.action = "CurrentReal"     ->
               real_shown < screen'.id /\ screen.id <= screen'.id
          [] screen'.action = "BlendSynthetic"  ->
               real_shown < screen'.id /\ screen.id < screen'.id
          [] screen'.action = "RepeatSynthetic" ->
               real_shown = screen'.id /\ screen.id = screen'.id ]_vars
=============================================================================
