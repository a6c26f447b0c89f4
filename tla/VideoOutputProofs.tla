--------------------------- MODULE VideoOutputProofs ---------------------------
(***************************************************************************)
(* The properties of VideoOutput for every interval, queue length, loop    *)
(* period and interpolation mode.                                          *)
(***************************************************************************)
EXTENDS VideoOutput, SequenceTheorems, TLAPS

\* A frame that was submitted before next, at t or earlier: it carries the
\* generation of its session, and one of the current generation is of the
\* session that began with start.
Known(frame, next, gen, start, t) ==
  /\ frame \in Frames
  /\ frame.id < next
  /\ frame.generation <= gen
  /\ frame.generation = gen => start <= frame.id
  /\ frame.received_at <= t

\* A row of frames that wait to be shown: in order, and after what was shown.
Waiting(row, next, gen, start, t, shown, frames) ==
  /\ row \in Seq(Frames)
  /\ \A i, j \in 1..Len(row) : i < j => row[i].id < row[j].id
  /\ \A i \in 1..Len(row) :
       /\ Known(row[i], next, gen, start, t)
       /\ shown < row[i].id
       /\ \A frame \in frames : frame.id < row[i].id

Waits(row) == Waiting(row, next_id, generation, session_start, now, real_shown, current)

Typed ==
  /\ now \in Nat
  /\ next_id \in Nat
  /\ loop \in {"waits", "shows", "done"}
  /\ cadence \in CadenceStates
  /\ looped_at \in Nat
  /\ generation \in Nat
  /\ samples \subseteq Nat
  /\ session_start \in Nat /\ session_start <= next_id
  /\ output_at \in Nat
  /\ real_shown \in Nat /\ real_shown < next_id
  /\ screen.action \in Actions /\ screen.id \in Nat

\* The frames, from the oldest to the newest: previous, current, pending, queue.
FramesInv ==
  /\ Len(queue) <= MaxQueued
  /\ previous \subseteq Frames
  /\ current = {} \/ \E frame \in Frames : current = {frame}
  /\ \A frame \in current : Known(frame, next_id, generation, session_start, now)
  /\ Waits(pending)
  /\ Waits(queue)
  /\ \A i \in 1..Len(pending), j \in 1..Len(queue) : pending[i].id < queue[j].id
  /\ loop # "shows" => pending = <<>>

\* What the cadence controller has still to show is the current frame.
PendingInv ==
  /\ cadence.blend_pending => cadence.real_pending
  /\ \A frame \in current :
       IF cadence.real_pending THEN real_shown < frame.id ELSE real_shown = frame.id

\* The picture on the screen is between the frame shown last and the current
\* frame, and a blend that waits has not been on it.
ScreenInv ==
  /\ real_shown <= screen.id
  /\ current = {} /\ loop # "done" => screen.id = 0
  /\ \A frame \in current :
       /\ screen.id <= frame.id
       /\ cadence.blend_pending => screen.id < frame.id

\* The schedule is never far ahead of the output, and the loop comes round.
ScheduleInv ==
  /\ looped_at <= now
  /\ loop # "done" => now <= looped_at + LoopPeriod
  /\ loop # "done" /\ current = {} => cadence.last_real_at < 0
  /\ loop = "done" => current = {}
  /\ current # {} =>
       /\ cadence.last_real_at >= 0 /\ cadence.next_output_at >= 0
       /\ ~cadence.low_rate_mode =>
            cadence.next_output_at = cadence.last_real_at + Interval
       /\ looped_at <= output_at + Interval
       /\ \/ cadence.next_output_at <= output_at + Interval
          \/ loop = "shows" /\ cadence.next_output_at <= now

IInv ==
  Typed /\ FramesInv /\ PendingInv /\ ScreenInv /\ ScheduleInv /\ SamplesOfThisSession

-----------------------------------------------------------------------------
(* The cadence controller. *)

LEMMA CadenceUpdate ==
  ASSUME NEW c \in CadenceStates, NEW at \in Int, NEW output \in Int,
         NEW low \in BOOLEAN, NEW blend \in BOOLEAN, NEW real \in BOOLEAN
  PROVE  [c EXCEPT !.last_real_at = at, !.next_output_at = output,
                   !.low_rate_mode = low, !.blend_pending = blend,
                   !.real_pending = real] \in CadenceStates
BY DEF CadenceStates

LEMMA CadenceType ==
  ASSUME NEW c \in CadenceStates, NEW at \in Nat, NEW can_blend \in BOOLEAN
  PROVE  /\ RealFrame(c, at, can_blend) \in CadenceStates
         /\ Tick(c, at) \in CadenceStates
         /\ RealFrameAction(c, at) \in {"None", "CurrentReal"}
         /\ TickAction(c, at) \in Actions
<1> DEFINE blends == Blends /\ can_blend
<1>1. RealFrame(c, at, can_blend) \in CadenceStates
  <2>1. KeepSchedule(c, at) \in Int /\ at + Interval \in Int
    BY CadenceAssumption DEF KeepSchedule, CadenceStates
  <2>2. blends \in BOOLEAN
    OBVIOUS
  <2> HIDE DEF blends
  <2>3. at \in Int /\ TRUE \in BOOLEAN /\ FALSE \in BOOLEAN
    OBVIOUS
  <2>4. ShowAtOnce(c, at) \in CadenceStates
    BY <2>1, <2>3, CadenceUpdate, Zenon DEF ShowAtOnce
  <2>5. [c EXCEPT !.last_real_at = at, !.next_output_at = KeepSchedule(c, at),
                  !.low_rate_mode = TRUE, !.blend_pending = blends,
                  !.real_pending = TRUE] \in CadenceStates
    BY <2>1, <2>2, <2>3, CadenceUpdate, Zenon
  <2>6. WaitForTick(c, at, can_blend) \in CadenceStates
    BY <2>5 DEF WaitForTick, blends
  <2> QED
    BY <2>4, <2>6 DEF RealFrame
<1>2. Tick(c, at) \in CadenceStates
  <2>1. NextOutput(c, at) \in Int /\ Passes(c, at) \in BOOLEAN
    BY CadenceAssumption DEF NextOutput, Passes, CadenceStates
  <2> QED
    BY <2>1 DEF Tick, CadenceStates
<1> QED
  BY <1>1, <1>2 DEF RealFrameAction, TickAction, Actions

\* A frame is shown at once, and nothing waits; or it waits for the schedule,
\* which is not put off beyond the frame.
LEMMA RealFrameEffect ==
  ASSUME NEW c \in CadenceStates, NEW at \in Nat, NEW can_blend \in BOOLEAN
  PROVE  LET d == RealFrame(c, at, can_blend)
         IN  /\ d.last_real_at = at
             /\ RealFrameAction(c, at) = "CurrentReal" =>
                  /\ ~d.blend_pending /\ ~d.real_pending /\ ~d.low_rate_mode
                  /\ d.next_output_at = at + Interval
             /\ RealFrameAction(c, at) = "None" =>
                  /\ d.real_pending /\ d.low_rate_mode /\ c.last_real_at >= 0
                  /\ d.next_output_at >= c.next_output_at
                  /\ d.next_output_at >= at
                  /\ d.next_output_at \in {c.next_output_at, at}
BY CadenceAssumption
DEF RealFrame, RealFrameAction, ShowAtOnce, WaitForTick, KeepSchedule, HighRate, CadenceStates

\* A tick that is due shows the blend, then the frame, then the frame again; a
\* tick that is not changes nothing.
LEMMA TickEffect ==
  ASSUME NEW c \in CadenceStates, NEW at \in Nat,
         c.blend_pending => c.real_pending,
         c.last_real_at >= 0, c.next_output_at >= 0,
         ~c.low_rate_mode => c.next_output_at = c.last_real_at + Interval
  PROVE  LET d == Tick(c, at)
         IN  /\ at < c.next_output_at => d = c /\ TickAction(c, at) = "None"
             /\ at >= c.next_output_at =>
                  /\ TickAction(c, at) # "None"
                  /\ d.last_real_at = c.last_real_at
                  /\ d.low_rate_mode
                  /\ d.next_output_at \in Int
                  /\ d.next_output_at > at /\ d.next_output_at <= at + Interval
                  /\ ~d.blend_pending
                  /\ d.real_pending <=> c.blend_pending
                  /\ TickAction(c, at) = "BlendSynthetic" => c.real_pending /\ c.blend_pending
                  /\ TickAction(c, at) = "CurrentReal" => c.real_pending /\ ~c.blend_pending
                  /\ TickAction(c, at) = "RepeatSynthetic" => ~c.real_pending
<1>1. CASE at < c.next_output_at
  BY <1>1 DEF Tick, TickAction, Due, CadenceStates
<1>2. CASE at >= c.next_output_at
  <2>1. Due(c, at)
    BY <1>2 DEF Due
  <2>2. ~Passes(c, at)
    BY <1>2, CadenceAssumption DEF Passes, CadenceStates
  <2>3. NextOutput(c, at) \in Int /\ NextOutput(c, at) > at /\ NextOutput(c, at) <= at + Interval
    BY <1>2, CadenceAssumption DEF NextOutput, CadenceStates
  <2>4. Tick(c, at) = [c EXCEPT !.next_output_at = NextOutput(c, at),
                                !.low_rate_mode = ~Passes(c, at),
                                !.blend_pending = c.blend_pending /\ Passes(c, at),
                                !.real_pending =
                                  c.real_pending /\ (Passes(c, at) \/ c.blend_pending)]
    BY <2>1 DEF Tick
  <2>5. /\ Tick(c, at).last_real_at = c.last_real_at
        /\ Tick(c, at).low_rate_mode
        /\ Tick(c, at).next_output_at = NextOutput(c, at)
        /\ ~Tick(c, at).blend_pending
        /\ Tick(c, at).real_pending <=> c.blend_pending
    BY <2>2, <2>4 DEF CadenceStates
  <2>6. /\ TickAction(c, at) # "None"
        /\ TickAction(c, at) = "BlendSynthetic" => c.real_pending /\ c.blend_pending
        /\ TickAction(c, at) = "CurrentReal" => c.real_pending /\ ~c.blend_pending
        /\ TickAction(c, at) = "RepeatSynthetic" => ~c.real_pending
    BY <2>1, <2>2 DEF TickAction
  <2> QED
    BY <1>2, <2>3, <2>5, <2>6 DEF CadenceStates
<1> QED
  BY <1>1, <1>2 DEF CadenceStates

-----------------------------------------------------------------------------
(* The rows of frames. *)

\* The end of a row waits as the row does.
LEMMA EndOfRow ==
  ASSUME NEW row, NEW next, NEW gen, NEW start, NEW t, NEW shown, NEW frames,
         Waiting(row, next, gen, start, t, shown, frames),
         NEW first \in 1..(Len(row) + 1)
  PROVE  LET rest == SubSeq(row, first, Len(row))
         IN  /\ Waiting(rest, next, gen, start, t, shown, frames)
             /\ Len(rest) = Len(row) - first + 1
             /\ \A i \in 1..Len(rest) : rest[i] = row[i + first - 1]
<1> DEFINE rest == SubSeq(row, first, Len(row))
<1>1. row \in Seq(Frames) /\ Len(row) \in Nat /\ first \in Nat
  BY DEF Waiting
<1>2. /\ rest \in Seq(Frames)
      /\ Len(rest) = Len(row) - first + 1
      /\ \A i \in 1..(Len(row) - first + 1) : rest[i] = row[first + i - 1]
  BY <1>1, SubSeqProperties
<1> HIDE DEF rest
<1>3. \A i \in 1..Len(rest) : rest[i] = row[i + first - 1] /\ i + first - 1 \in 1..Len(row)
  BY <1>1, <1>2
<1>4. \A i, j \in 1..Len(rest) : i < j => rest[i].id < rest[j].id
  <2> SUFFICES ASSUME NEW i \in 1..Len(rest), NEW j \in 1..Len(rest), i < j
               PROVE  rest[i].id < rest[j].id
    OBVIOUS
  <2>1. i + first - 1 < j + first - 1
    BY <1>1, <1>2
  <2> QED
    BY <1>3, <2>1 DEF Waiting
<1> QED
  BY <1>2, <1>3, <1>4 DEF Waiting, rest

LEMMA EmptyRow ==
  ASSUME NEW next, NEW gen, NEW start, NEW t, NEW shown, NEW frames
  PROVE  Waiting(<<>>, next, gen, start, t, shown, frames)
BY DEF Waiting

\* A new frame joins the end of a row.
LEMMA JoinRow ==
  ASSUME NEW row, NEW next \in Nat, NEW gen \in Nat, NEW start \in Nat, NEW t \in Nat,
         NEW shown \in Nat, NEW frames,
         Waiting(row, next, gen, start, t, shown, frames),
         NEW frame, Known(frame, next, gen, start, t), shown < frame.id,
         \A i \in 1..Len(row) : row[i].id < frame.id,
         \A f \in frames : f.id < frame.id
  PROVE  Waiting(Append(row, frame), next, gen, start, t, shown, frames)
<1> DEFINE longer == Append(row, frame)
<1>1. row \in Seq(Frames) /\ frame \in Frames
  BY DEF Waiting, Known
<1>2. /\ longer \in Seq(Frames) /\ Len(longer) = Len(row) + 1 /\ Len(row) \in Nat
      /\ \A i \in 1..Len(row) : longer[i] = row[i]
      /\ longer[Len(row) + 1] = frame
  BY <1>1
<1> HIDE DEF longer
<1>3. \A i \in 1..Len(longer) : i \in 1..Len(row) \/ i = Len(row) + 1
  BY <1>2
<1>4. \A i \in 1..Len(longer) :
        /\ Known(longer[i], next, gen, start, t)
        /\ shown < longer[i].id
        /\ \A f \in frames : f.id < longer[i].id
  BY <1>2, <1>3 DEF Waiting
<1>5. \A i, j \in 1..Len(longer) : i < j => longer[i].id < longer[j].id
  <2> SUFFICES ASSUME NEW i \in 1..Len(longer), NEW j \in 1..Len(longer), i < j
               PROVE  longer[i].id < longer[j].id
    OBVIOUS
  <2>1. i \in 1..Len(row)
    BY <1>2, <1>3
  <2> QED
    BY <1>2, <1>3, <2>1 DEF Waiting
<1> QED
  BY <1>2, <1>4, <1>5 DEF Waiting, longer

-----------------------------------------------------------------------------
(* The initial state, and the steps one by one. *)

LEMMA InitIInv == Init => IInv
<1> SUFFICES ASSUME Init PROVE IInv
  OBVIOUS
<1>1. InitialCadence \in CadenceStates
  BY DEF InitialCadence, CadenceStates
<1>2. Typed
  BY <1>1 DEF Init, Typed, Actions
<1>3. FramesInv
  <2>1. Len(<<>>) = 0 /\ MaxQueued \in Nat
    BY OutputAssumption
  <2> QED
    BY <2>1, EmptyRow DEF Init, FramesInv, Waits
<1>4. PendingInv
  BY DEF Init, PendingInv, InitialCadence
<1>5. ScheduleInv
  BY OutputAssumption DEF Init, ScheduleInv, InitialCadence
<1>6. SamplesOfThisSession
  BY DEF Init, SamplesOfThisSession
<1>7. ScreenInv
  BY DEF Init, ScreenInv
<1> QED
  BY <1>2, <1>3, <1>4, <1>5, <1>6, <1>7 DEF IInv

\* What is known of a frame stays so while time and ids grow, or a session begins.
LEMMA KnownStays ==
  ASSUME NEW frame, NEW next \in Nat, NEW gen \in Nat, NEW start, NEW t \in Nat,
         NEW next2 \in Nat, NEW gen2 \in Nat, NEW start2, NEW t2 \in Nat,
         Known(frame, next, gen, start, t),
         next <= next2, t <= t2,
         gen < gen2 \/ (gen = gen2 /\ start = start2)
  PROVE  Known(frame, next2, gen2, start2, t2)
<1>1. /\ frame.id \in Nat /\ frame.generation \in Nat /\ frame.received_at \in Nat
      /\ frame \in Frames
  BY DEF Known, Frames
<1>2. /\ frame.id < next /\ frame.generation <= gen /\ frame.received_at <= t
      /\ frame.generation = gen => start <= frame.id
  BY DEF Known
<1>3. frame.id < next2 /\ frame.generation <= gen2 /\ frame.received_at <= t2
  BY <1>1, <1>2
<1>4. frame.generation = gen2 => start2 <= frame.id
  BY <1>1, <1>2
<1> QED
  BY <1>1, <1>3, <1>4 DEF Known

\* The rows and the current frame stay what they are while only time and the
\* next id grow, or a session begins.
LEMMA FramesStay ==
  ASSUME Typed, FramesInv, Typed',
         UNCHANGED <<current, real_shown>>,
         next_id <= next_id', now <= now',
         generation < generation' \/ UNCHANGED <<generation, session_start>>
  PROVE  /\ \A frame \in current' :
              Known(frame, next_id', generation', session_start', now')
         /\ \A row : Waits(row) =>
              Waiting(row, next_id', generation', session_start', now', real_shown', current')
<1>1. /\ next_id \in Nat /\ generation \in Nat /\ session_start \in Nat /\ now \in Nat
      /\ next_id' \in Nat /\ generation' \in Nat /\ session_start' \in Nat /\ now' \in Nat
      /\ generation < generation' \/ (generation = generation' /\ session_start = session_start')
  BY DEF Typed
<1>2. \A frame \in current' :
        Known(frame, next_id', generation', session_start', now')
  <2> TAKE frame \in current'
  <2>1. Known(frame, next_id, generation, session_start, now)
    BY DEF FramesInv
  <2> QED
    BY <1>1, <2>1, KnownStays
<1>3. ASSUME NEW row, Waits(row)
      PROVE  Waiting(row, next_id', generation', session_start', now', real_shown', current')
  <2>1. \A i \in 1..Len(row) :
          /\ real_shown' < row[i].id
          /\ \A frame \in current' : frame.id < row[i].id
    BY <1>3 DEF Waits, Waiting
  <2>2. ASSUME NEW i \in 1..Len(row)
        PROVE  Known(row[i], next_id', generation', session_start', now')
    <3>1. Known(row[i], next_id, generation, session_start, now)
      BY <1>3 DEF Waits, Waiting
    <3> QED
      BY <1>1, <3>1, KnownStays
  <2> QED
    BY <1>3, <2>1, <2>2 DEF Waits, Waiting
<1> QED
  BY <1>2, <1>3

LEMMA SubmitStep ==
  ASSUME IInv, NEW size \in Sizes, Submit(size)
  PROVE  IInv'
<1> DEFINE frame == [id |-> next_id, generation |-> generation, size |-> size,
                     received_at |-> now]
           room == MakeRoom
<1> USE DEF IInv
<1>1. Typed'
  BY DEF Submit, Typed, frameVars, shownVars
<1>2. /\ next_id' = next_id + 1
      /\ UNCHANGED <<current, real_shown, now, generation, session_start, pending, previous,
                     loop>>
      /\ queue' = Append(room, frame)
  BY DEF Submit, frameVars, shownVars
<1>3. /\ Waits(room)
      /\ Len(room) <= MaxQueued - 1 /\ Len(room) \in Nat
      /\ \A i \in 1..Len(room) : \E j \in 1..Len(queue) : room[i] = queue[j]
  <2>1. /\ Waits(queue) /\ queue \in Seq(Frames) /\ Len(queue) \in Nat /\ Len(queue) <= MaxQueued
        /\ MaxQueued \in Nat \ {0}
    BY OutputAssumption DEF FramesInv, Waits, Waiting
  <2>2. CASE Len(queue) < MaxQueued
    BY <2>1, <2>2 DEF MakeRoom
  <2>3. CASE Len(queue) >= MaxQueued
    <3> DEFINE first == Len(queue) - MaxQueued + 2
    <3>1. first \in 1..(Len(queue) + 1) /\ room = SubSeq(queue, first, Len(queue))
      BY <2>1, <2>3 DEF MakeRoom
    <3>2. /\ Waits(room)
          /\ Len(room) = Len(queue) - first + 1
          /\ \A i \in 1..Len(room) : room[i] = queue[i + first - 1]
      BY <2>1, <3>1, EndOfRow DEF Waits
    <3> HIDE DEF room
    <3> QED
      BY <2>1, <2>3, <3>1, <3>2
  <2> QED
    BY <2>1, <2>2, <2>3
<1> HIDE DEF room
<1>4. Known(frame, next_id', generation', session_start', now')
  BY <1>2 DEF Known, Frames, Typed
<1>5. /\ Waiting(room, next_id', generation', session_start', now', real_shown', current')
      /\ Waiting(pending, next_id', generation', session_start', now', real_shown', current')
      /\ \A f \in current' : Known(f, next_id', generation', session_start', now')
  <2>1. next_id <= next_id' /\ now <= now'
    BY <1>2 DEF Typed
  <2> QED
    BY <1>1, <1>2, <1>3, <2>1, FramesStay DEF FramesInv
<1>6. \A i \in 1..Len(room) : room[i].id < next_id
  <2>1. \A j \in 1..Len(queue) : queue[j].id < next_id
    BY DEF FramesInv, Waits, Waiting, Known
  <2> QED
    BY <1>3, <2>1
<1>7. \A f \in current' : f.id < frame.id
  BY <1>2 DEF FramesInv, Known
<1>8. Waiting(queue', next_id', generation', session_start', now', real_shown', current')
  <2>1. /\ real_shown' \in Nat /\ real_shown' < frame.id /\ next_id' \in Nat
        /\ generation' \in Nat /\ session_start' \in Nat /\ now' \in Nat
    BY <1>1, <1>2 DEF Typed
  <2>2. \A i \in 1..Len(room) : room[i].id < frame.id
    BY <1>6
  <2> HIDE DEF frame
  <2> QED
    BY <1>2, <1>4, <1>5, <1>7, <2>1, <2>2, JoinRow
<1>9. Len(queue') <= MaxQueued
  <2>1. room \in Seq(Frames)
    BY <1>3 DEF Waits, Waiting
  <2> QED
    BY <1>2, <1>3, <2>1, OutputAssumption
<1>10. \A i \in 1..Len(pending'), j \in 1..Len(queue') : pending'[i].id < queue'[j].id
  <2> SUFFICES ASSUME NEW i \in 1..Len(pending), NEW j \in 1..Len(queue')
               PROVE  pending[i].id < queue'[j].id
    BY <1>2
  <2>1. room \in Seq(Frames)
    BY <1>3 DEF Waits, Waiting
  <2>2. CASE j \in 1..Len(room)
    <3>1. queue'[j] = room[j]
      BY <1>2, <2>1, <2>2
    <3> QED
      BY <1>3, <2>2, <3>1 DEF FramesInv
  <2>3. CASE j = Len(room) + 1
    <3>1. queue'[j].id = next_id
      BY <1>2, <2>1, <2>3
    <3> QED
      BY <3>1 DEF FramesInv, Waits, Waiting, Known
  <2>4. j \in 1..Len(room) \/ j = Len(room) + 1
    BY <1>2, <1>3, <2>1
  <2> QED
    BY <2>2, <2>3, <2>4
<1>11. FramesInv'
  BY <1>2, <1>5, <1>8, <1>9, <1>10 DEF FramesInv, Waits
<1>12. PendingInv' /\ ScreenInv' /\ ScheduleInv' /\ SamplesOfThisSession'
  BY DEF Submit, frameVars, shownVars, PendingInv, ScreenInv, ScheduleInv,
         SamplesOfThisSession
<1> QED
  BY <1>1, <1>11, <1>12

\* The caller empties the queue, or asks the thread to stop.
LEMMA CallerStep ==
  ASSUME IInv, queue' = queue \/ queue' = <<>>,
         UNCHANGED <<now, next_id, loop, frameVars, cadence, looped_at, generation,
                     session_start, shownVars>>
  PROVE  IInv'
<1> USE DEF IInv, frameVars, shownVars
<1>1. Typed' /\ PendingInv' /\ ScreenInv' /\ ScheduleInv' /\ SamplesOfThisSession'
  BY DEF Typed, PendingInv, ScreenInv, ScheduleInv, SamplesOfThisSession
<1>2. CASE queue' = queue
  BY <1>1, <1>2 DEF FramesInv, Waits
<1>3. CASE queue' = <<>>
  <2>1. Waits(<<>>)' /\ Len(<<>>) = 0 /\ MaxQueued \in Nat
    BY EmptyRow, OutputAssumption DEF Waits
  <2> QED
    BY <1>1, <1>3, <2>1 DEF FramesInv, Waits
<1> QED
  BY <1>2, <1>3

LEMMA ResetLatencyStep ==
  ASSUME IInv, ResetLatency
  PROVE  IInv'
<1> USE DEF IInv
<1>1. /\ generation' = generation + 1 /\ session_start' = next_id /\ samples' = {}
      /\ UNCHANGED <<now, next_id, queue, loop, pending, previous, current, cadence,
                     looped_at, output_at, real_shown, screen>>
  BY DEF ResetLatency, frameVars
<1>2. Typed'
  BY <1>1 DEF Typed
<1>3. FramesInv'
  <2>1. next_id <= next_id' /\ now <= now' /\ generation < generation'
    BY <1>1 DEF Typed
  <2> QED
    BY <1>1, <1>2, <2>1, FramesStay DEF FramesInv, Waits
<1> QED
  BY <1>1, <1>2, <1>3 DEF PendingInv, ScreenInv, ScheduleInv, SamplesOfThisSession

LEMMA PassStep ==
  ASSUME IInv, Pass
  PROVE  IInv'
<1> USE DEF IInv
<1>1. /\ now' = now + 1 /\ (loop # "done" => now < looped_at + LoopPeriod)
      /\ UNCHANGED <<next_id, queue, loop, pending, previous, current, cadence, looped_at,
                     generation, session_start, samples, output_at, real_shown, screen>>
  BY DEF Pass, callerVars, frameVars, shownVars
<1>2. Typed'
  BY <1>1 DEF Typed
<1>3. FramesInv'
  <2>1. next_id <= next_id' /\ now <= now' /\ UNCHANGED <<generation, session_start>>
    BY <1>1 DEF Typed
  <2> QED
    BY <1>1, <1>2, <2>1, FramesStay DEF FramesInv, Waits
<1>4. ScheduleInv'
  BY <1>1, OutputAssumption, CadenceAssumption DEF ScheduleInv, Typed, CadenceStates
<1> QED
  BY <1>1, <1>2, <1>3, <1>4 DEF PendingInv, ScreenInv, SamplesOfThisSession

LEMMA TakeQueueStep ==
  ASSUME IInv, TakeQueue
  PROVE  IInv'
<1> USE DEF IInv
<1>1. /\ loop = "waits" /\ loop' = "shows" /\ pending' = queue /\ queue' = <<>>
      /\ UNCHANGED <<now, next_id, previous, current, cadence, looped_at,
                     generation, session_start, samples, output_at, real_shown, screen>>
  BY DEF TakeQueue, callerVars, shownVars
<1>2. Typed' /\ PendingInv' /\ ScreenInv' /\ SamplesOfThisSession'
  BY <1>1 DEF Typed, PendingInv, ScreenInv, SamplesOfThisSession
<1>3. FramesInv'
  <2>1. Waits(<<>>)' /\ Len(<<>>) = 0 /\ MaxQueued \in Nat
    BY EmptyRow, OutputAssumption DEF Waits
  <2> QED
    BY <1>1, <2>1 DEF FramesInv, Waits
<1>4. ScheduleInv'
  BY <1>1 DEF ScheduleInv
<1> QED
  BY <1>2, <1>3, <1>4

LEMMA LeaveLoopStep ==
  ASSUME IInv, LeaveLoop
  PROVE  IInv'
<1> USE DEF IInv
<1>1. /\ loop = "waits" /\ loop' = "done" /\ previous' = {} /\ current' = {}
      /\ UNCHANGED <<now, next_id, queue, pending, cadence, looped_at,
                     generation, session_start, samples, output_at, real_shown, screen>>
  BY DEF LeaveLoop, callerVars, shownVars
<1>2. Typed' /\ PendingInv' /\ ScreenInv' /\ SamplesOfThisSession' /\ ScheduleInv'
  BY <1>1 DEF Typed, PendingInv, ScreenInv, SamplesOfThisSession, ScheduleInv
<1>3. FramesInv'
  BY <1>1 DEF FramesInv, Waits, Waiting
<1> QED
  BY <1>2, <1>3

\* The frame at the head of the row is taken away.
LEMMA RestOfRow ==
  ASSUME Waits(pending), pending # <<>>
  PROVE  /\ Waits(Tail(pending))
         /\ Head(pending) = pending[1] /\ 1 \in 1..Len(pending)
         /\ \A i \in 1..Len(Tail(pending)) :
              Tail(pending)[i] = pending[i + 1] /\ i + 1 \in 1..Len(pending) /\ 1 < i + 1
<1>1. pending \in Seq(Frames) /\ Len(pending) \in Nat
  BY DEF Waits, Waiting
<1>2. 1 \in 1..Len(pending) /\ 2 \in 1..(Len(pending) + 1) /\ Head(pending) = pending[1]
  BY <1>1
<1>3. Tail(pending) = SubSeq(pending, 2, Len(pending))
  BY <1>1
<1> DEFINE rest == SubSeq(pending, 2, Len(pending))
<1>4. /\ Waits(rest)
      /\ Len(rest) = Len(pending) - 2 + 1
      /\ \A i \in 1..Len(rest) : rest[i] = pending[i + 2 - 1]
  BY <1>2, EndOfRow DEF Waits
<1> HIDE DEF rest
<1>5. \A i \in 1..Len(rest) :
        rest[i] = pending[i + 1] /\ i + 1 \in 1..Len(pending) /\ 1 < i + 1
  BY <1>1, <1>4
<1> QED
  BY <1>2, <1>3, <1>4, <1>5 DEF rest

LEMMA SkipFrameStep ==
  ASSUME IInv, SkipFrame
  PROVE  IInv'
<1> USE DEF IInv
<1>1. /\ loop = "shows" /\ pending # <<>> /\ pending' = Tail(pending)
      /\ UNCHANGED <<now, next_id, queue, loop, previous, current, cadence, looped_at,
                     generation, session_start, samples, output_at, real_shown, screen>>
  BY DEF SkipFrame, callerVars, shownVars
<1>2. Typed' /\ PendingInv' /\ ScreenInv' /\ SamplesOfThisSession' /\ ScheduleInv'
  BY <1>1 DEF Typed, PendingInv, ScreenInv, SamplesOfThisSession, ScheduleInv
<1>3. FramesInv'
  <2>1. Waits(pending)' /\ Waits(queue)'
    BY <1>1, RestOfRow DEF FramesInv, Waits
  <2>2. \A i \in 1..Len(pending'), j \in 1..Len(queue') : pending'[i].id < queue'[j].id
    BY <1>1, RestOfRow DEF FramesInv
  <2> QED
    BY <1>1, <2>1, <2>2 DEF FramesInv
<1> QED
  BY <1>2, <1>3

\* What presenting a frame changes.
LEMMA PresentEffect ==
  ASSUME NEW action, NEW frame, NEW was_recorded, Present(action, {frame}, was_recorded)
  PROVE  /\ action = "None" =>
              UNCHANGED <<samples, output_at, real_shown, screen, rendered_frames>>
         /\ action # "None" =>
              output_at' = now /\ screen' = [action |-> action, id |-> frame.id]
         /\ action = "CurrentReal" =>
              /\ real_shown' = frame.id
              /\ samples' # samples =>
                   frame.generation = generation /\ samples' = samples \cup {frame.id}
         /\ action # "CurrentReal" => UNCHANGED <<samples, real_shown>>
<1>1. {frame} # {}
  OBVIOUS
<1> QED
  BY <1>1 DEF Present, OfGeneration

LEMMA ShowFrameStep ==
  ASSUME IInv, ShowFrame
  PROVE  IInv'
<1> DEFINE frame == Head(pending)
           at == frame.received_at
           action == RealFrameAction(cadence, at)
<1> USE DEF IInv
<1>1. /\ loop = "shows" /\ pending # <<>> /\ pending' = Tail(pending)
      /\ previous' = current /\ current' = {frame}
      /\ cadence' = RealFrame(cadence, at, CanBlend(frame))
      /\ Present(action, {frame}, FALSE)
      /\ UNCHANGED <<now, next_id, queue, loop, looped_at, generation, session_start>>
  BY DEF ShowFrame, callerVars
<1>2. /\ Waits(Tail(pending))
      /\ frame = pending[1] /\ 1 \in 1..Len(pending)
      /\ \A i \in 1..Len(Tail(pending)) :
           Tail(pending)[i] = pending[i + 1] /\ i + 1 \in 1..Len(pending) /\ 1 < i + 1
  BY <1>1, RestOfRow DEF FramesInv
<1>3. /\ Known(frame, next_id, generation, session_start, now) /\ real_shown < frame.id
      /\ frame \in Frames /\ at \in Nat /\ at <= now
      /\ \A i \in 1..Len(Tail(pending)) : frame.id < Tail(pending)[i].id
      /\ \A i \in 1..Len(queue) : frame.id < queue[i].id
  <2>1. Known(frame, next_id, generation, session_start, now) /\ real_shown < frame.id
    BY <1>2 DEF FramesInv, Waits, Waiting
  <2>2. \A i \in 1..Len(Tail(pending)) : frame.id < Tail(pending)[i].id
    BY <1>2 DEF FramesInv, Waits, Waiting
  <2>3. \A i \in 1..Len(queue) : frame.id < queue[i].id
    BY <1>2 DEF FramesInv
  <2> QED
    BY <2>1, <2>2, <2>3 DEF Known, Frames
<1>4. CanBlend(frame) \in BOOLEAN
  BY DEF CanBlend
<1>5. cadence' \in CadenceStates /\ action \in {"None", "CurrentReal"}
  BY <1>1, <1>3, <1>4, CadenceType DEF Typed
<1>6. /\ cadence'.last_real_at = at
      /\ action = "CurrentReal" =>
           /\ ~cadence'.blend_pending /\ ~cadence'.real_pending /\ ~cadence'.low_rate_mode
           /\ cadence'.next_output_at = at + Interval
      /\ action = "None" =>
           /\ cadence'.real_pending /\ cadence'.low_rate_mode /\ cadence.last_real_at >= 0
           /\ cadence'.next_output_at >= cadence.next_output_at
           /\ cadence'.next_output_at >= at
           /\ cadence'.next_output_at \in {cadence.next_output_at, at}
  BY <1>1, <1>3, <1>4, RealFrameEffect DEF Typed
<1> HIDE DEF action
<1>7. /\ action = "None" => UNCHANGED <<samples, output_at, real_shown, screen>>
      /\ action # "None" =>
           output_at' = now /\ screen' = [action |-> action, id |-> frame.id]
      /\ action = "CurrentReal" =>
           /\ real_shown' = frame.id
           /\ samples' # samples =>
                frame.generation = generation /\ samples' = samples \cup {frame.id}
  BY <1>1, PresentEffect
<1> HIDE DEF frame, at
<1>8. frame.id \in Nat /\ frame.id < next_id
      /\ (frame.generation = generation => session_start <= frame.id)
  BY <1>3 DEF Known, Frames
<1>9. real_shown' \in {real_shown, frame.id}
  BY <1>5, <1>7
<1>10. Typed'
  <2>1. screen'.action \in Actions /\ screen'.id \in Nat
    BY <1>5, <1>7, <1>8 DEF Typed, Actions
  <2>2. output_at' \in Nat
    BY <1>5, <1>7 DEF Typed
  <2>3. samples' \subseteq Nat
    BY <1>5, <1>7, <1>8 DEF Typed
  <2> QED
    BY <1>1, <1>5, <1>8, <1>9, <2>1, <2>2, <2>3 DEF Typed
<1>11. FramesInv'
  <2>1. \A i \in 1..Len(Tail(pending)) : real_shown' < Tail(pending)[i].id
    BY <1>2, <1>3, <1>9 DEF Waits, Waiting
  <2>2. Waits(pending)'
    BY <1>1, <1>2, <1>3, <2>1 DEF Waits, Waiting
  <2>3. Waits(queue)'
    <3>1. \A i \in 1..Len(queue) : real_shown' < queue[i].id
      BY <1>3, <1>9 DEF FramesInv, Waits, Waiting
    <3> QED
      BY <1>1, <1>3, <3>1 DEF FramesInv, Waits, Waiting
  <2>4. \A i \in 1..Len(pending'), j \in 1..Len(queue') : pending'[i].id < queue'[j].id
    BY <1>1, <1>2 DEF FramesInv
  <2>5. previous' \subseteq Frames
    BY <1>1 DEF FramesInv
  <2> QED
    BY <1>1, <1>3, <2>2, <2>3, <2>4, <2>5 DEF FramesInv
<1>12. PendingInv'
  BY <1>1, <1>3, <1>5, <1>6, <1>7 DEF PendingInv
<1>13. ScheduleInv'
  <2>1. current # {} \/ cadence.last_real_at < 0
    BY <1>1 DEF ScheduleInv
  <2>2. CASE action = "CurrentReal"
    BY <1>1, <1>3, <1>6, <1>7, <2>2, CadenceAssumption DEF ScheduleInv, Typed
  <2>3. CASE action = "None"
    <3>1. current # {}
      BY <1>6, <2>1, <2>3 DEF Typed, CadenceStates
    <3> QED
      BY <1>1, <1>3, <1>6, <1>7, <2>3, <3>1, CadenceAssumption
      DEF ScheduleInv, Typed, CadenceStates
  <2> QED
    BY <1>5, <2>2, <2>3
<1>14. SamplesOfThisSession'
  BY <1>1, <1>5, <1>7, <1>8 DEF SamplesOfThisSession
<1>15. ScreenInv'
  <2>1. screen.id < frame.id
    <3>1. CASE current = {}
      BY <1>1, <1>3, <1>8, <3>1 DEF ScreenInv, Typed
    <3>2. CASE current # {}
      <4>1. PICK before \in Frames : current = {before}
        BY <3>2 DEF FramesInv
      <4>2. before.id < frame.id /\ screen.id <= before.id
        BY <1>2, <4>1 DEF FramesInv, Waits, Waiting, ScreenInv
      <4> QED
        BY <1>8, <4>1, <4>2 DEF Typed, Frames
    <3> QED
      BY <3>1, <3>2
  <2> QED
    BY <1>1, <1>5, <1>6, <1>7, <1>8, <2>1 DEF ScreenInv, Typed
<1> QED
  BY <1>10, <1>11, <1>12, <1>13, <1>14, <1>15

LEMMA ShowDueStep ==
  ASSUME IInv, ShowDue
  PROVE  IInv'
<1> DEFINE action == TickAction(cadence, now)
<1> USE DEF IInv
<1>1. /\ loop = "shows" /\ pending = <<>> /\ loop' = "waits" /\ looped_at' = now
      /\ cadence' = Tick(cadence, now)
      /\ Present(action, current, recorded)
      /\ UNCHANGED <<now, next_id, queue, pending, previous, current, generation,
                     session_start>>
  BY DEF ShowDue, callerVars, frameVars
<1>2. cadence' \in CadenceStates /\ action \in Actions
  BY <1>1, CadenceType DEF Typed
<1>3. CASE current = {}
  <2>1. ~Due(cadence, now)
    BY <1>1, <1>3 DEF ScheduleInv, Due, Typed, CadenceStates
  <2>2. cadence' = cadence
    BY <1>1, <2>1 DEF Tick
  <2>3. UNCHANGED <<samples, output_at, real_shown, screen>>
    BY <1>1, <1>3 DEF Present
  <2>4. Typed' /\ PendingInv' /\ ScreenInv' /\ SamplesOfThisSession'
    BY <1>1, <2>2, <2>3 DEF Typed, PendingInv, ScreenInv, SamplesOfThisSession
  <2>5. FramesInv'
    BY <1>1, <2>3 DEF FramesInv, Waits
  <2>6. ScheduleInv'
    BY <1>1, <1>3, <2>2, OutputAssumption DEF ScheduleInv, Typed
  <2> QED
    BY <2>4, <2>5, <2>6
<1>4. CASE current # {}
  <2>1. PICK frame \in Frames : current = {frame}
    BY <1>4 DEF FramesInv
  <2>2. /\ Known(frame, next_id, generation, session_start, now)
        /\ frame.id \in Nat /\ frame.id < next_id
        /\ frame.generation = generation => session_start <= frame.id
        /\ IF cadence.real_pending THEN real_shown < frame.id ELSE real_shown = frame.id
    BY <2>1 DEF FramesInv, PendingInv, Known, Frames
  <2>3. /\ action = "None" => UNCHANGED <<samples, output_at, real_shown, screen>>
        /\ action # "None" =>
             output_at' = now /\ screen' = [action |-> action, id |-> frame.id]
        /\ action = "CurrentReal" =>
             /\ real_shown' = frame.id
             /\ samples' # samples =>
                  frame.generation = generation /\ samples' = samples \cup {frame.id}
        /\ action # "CurrentReal" => UNCHANGED <<samples, real_shown>>
    BY <1>1, <2>1, PresentEffect
  <2>4. /\ now < cadence.next_output_at => cadence' = cadence /\ action = "None"
        /\ now >= cadence.next_output_at =>
             /\ action # "None"
             /\ cadence'.last_real_at = cadence.last_real_at
             /\ cadence'.low_rate_mode
             /\ cadence'.next_output_at \in Int
             /\ cadence'.next_output_at > now /\ cadence'.next_output_at <= now + Interval
             /\ ~cadence'.blend_pending
             /\ cadence'.real_pending <=> cadence.blend_pending
             /\ action = "BlendSynthetic" => cadence.real_pending /\ cadence.blend_pending
             /\ action = "CurrentReal" => cadence.real_pending /\ ~cadence.blend_pending
             /\ action = "RepeatSynthetic" => ~cadence.real_pending
    BY <1>1, <1>4, TickEffect DEF Typed, PendingInv, ScheduleInv
  <2> HIDE DEF action
  <2>5. real_shown' \in {real_shown, frame.id}
    BY <2>3
  <2>6. Typed'
    <3>1. /\ screen'.action \in Actions /\ screen'.id \in Nat
          /\ output_at' \in Nat /\ samples' \subseteq Nat
      BY <1>2, <2>2, <2>3 DEF Typed
    <3> QED
      BY <1>1, <1>2, <2>2, <2>5, <3>1 DEF Typed
  <2>7. FramesInv'
    <3>1. \A i \in 1..Len(queue) : real_shown' < queue[i].id
      BY <2>1, <2>5 DEF FramesInv, Waits, Waiting
    <3>2. Waits(queue)'
      BY <1>1, <3>1 DEF FramesInv, Waits, Waiting
    <3>3. Waits(pending)'
      BY <1>1, EmptyRow DEF Waits
    <3> QED
      BY <1>1, <3>2, <3>3 DEF FramesInv
  <2>8. PendingInv'
    <3>1. CASE now < cadence.next_output_at
      BY <1>1, <2>3, <2>4, <3>1 DEF PendingInv
    <3>2. CASE now >= cadence.next_output_at
      <4>1. action \in {"BlendSynthetic", "CurrentReal", "RepeatSynthetic"}
        BY <1>2, <2>4, <3>2 DEF Actions
      <4>2. IF cadence'.real_pending THEN real_shown' < frame.id ELSE real_shown' = frame.id
        BY <2>2, <2>3, <2>4, <3>2, <4>1 DEF PendingInv
      <4>3. cadence'.blend_pending => cadence'.real_pending
        BY <2>4, <3>2
      <4> QED
        BY <1>1, <2>1, <4>2, <4>3 DEF PendingInv
    <3> QED
      BY <3>1, <3>2 DEF Typed, CadenceStates
  <2>9. ScheduleInv'
    <3>1. CASE now < cadence.next_output_at
      BY <1>1, <1>4, <2>3, <2>4, <3>1, OutputAssumption, CadenceAssumption
      DEF ScheduleInv, Typed, CadenceStates
    <3>2. CASE now >= cadence.next_output_at
      <4>1. cadence.last_real_at >= 0
        BY <1>4 DEF ScheduleInv
      <4>2. /\ now \in Nat /\ Interval \in Nat \ {0} /\ LoopPeriod \in Nat
            /\ cadence'.next_output_at \in Int
            /\ cadence'.next_output_at > now /\ cadence'.next_output_at <= now + Interval
            /\ cadence'.last_real_at = cadence.last_real_at /\ cadence'.low_rate_mode
            /\ output_at' = now /\ looped_at' = now /\ now' = now
        BY <1>1, <2>3, <2>4, <3>2, OutputAssumption, CadenceAssumption DEF Typed
      <4> QED
        BY <1>1, <1>4, <4>1, <4>2 DEF ScheduleInv
    <3> QED
      BY <3>1, <3>2 DEF Typed, CadenceStates
  <2>10. SamplesOfThisSession'
    BY <1>1, <2>2, <2>3 DEF SamplesOfThisSession
  <2>11. ScreenInv'
    <3>1. real_shown <= screen.id /\ screen.id <= frame.id
      BY <2>1 DEF ScreenInv
    <3>2. CASE action = "None"
      <4>1. cadence' = cadence
        BY <2>4, <3>2 DEF Typed, CadenceStates
      <4> QED
        BY <1>1, <2>3, <3>2, <4>1 DEF ScreenInv
    <3>3. CASE action # "None"
      <4>1. ~cadence'.blend_pending /\ screen'.id = frame.id
        BY <2>3, <2>4, <3>3 DEF Typed, CadenceStates
      <4> QED
        BY <1>1, <2>1, <2>2, <2>5, <3>1, <4>1 DEF ScreenInv, Typed
    <3> QED
      BY <3>2, <3>3
  <2> QED
    BY <2>6, <2>7, <2>8, <2>9, <2>10, <2>11
<1> QED
  BY <1>3, <1>4

LEMMA NextIInv == IInv /\ [Next]_vars => IInv'
<1> SUFFICES ASSUME IInv, [Next]_vars PROVE IInv'
  OBVIOUS
<1>1. ASSUME NEW size \in Sizes, Submit(size) PROVE IInv'
  BY <1>1, SubmitStep
<1>2. CASE DiscardPending
  BY <1>2, CallerStep DEF DiscardPending
<1>3. CASE ResetLatency
  BY <1>3, ResetLatencyStep
<1>4. CASE Stop
  BY <1>4, CallerStep DEF Stop
<1>5. CASE Join
  BY <1>5, CallerStep DEF Join
<1>6. CASE TakeQueue
  BY <1>6, TakeQueueStep
<1>7. CASE ShowFrame
  BY <1>7, ShowFrameStep
<1>8. CASE SkipFrame
  BY <1>8, SkipFrameStep
<1>9. CASE ShowDue
  BY <1>9, ShowDueStep
<1>10. CASE LeaveLoop
  BY <1>10, LeaveLoopStep
<1>11. CASE Pass
  BY <1>11, PassStep
<1>12. CASE UNCHANGED vars
  BY <1>12, CallerStep DEF vars, callerVars
<1> QED
  BY <1>1, <1>2, <1>3, <1>4, <1>5, <1>6, <1>7, <1>8, <1>9, <1>10, <1>11, <1>12 DEF Next

LEMMA IInvHolds == Spec => []IInv
BY InitIInv, NextIInv, PTL DEF Spec

-----------------------------------------------------------------------------
(* From the first picture until the window closes, a picture is presented  *)
(* at least once an interval and a round of the render loop (README.md:95).*)
THEOREM TheWindowNeverFreezes == Spec => []OutputKeepsUp
<1>1. IInv => OutputKeepsUp
  <2> SUFFICES ASSUME IInv, current # {} PROVE now - output_at <= Interval + LoopPeriod
    BY DEF OutputKeepsUp
  <2>1. /\ loop # "done" /\ now <= looped_at + LoopPeriod
        /\ looped_at <= output_at + Interval
    BY DEF IInv, ScheduleInv
  <2> QED
    BY <2>1, OutputAssumption, CadenceAssumption DEF IInv, Typed
<1> QED
  BY <1>1, IInvHolds, PTL

(* No latency sample is of a frame of an earlier session, whatever the     *)
(* render thread still holds when a session begins.                        *)
THEOREM SamplesNeverStale == Spec => []SamplesOfThisSession
<1>1. IInv => SamplesOfThisSession
  BY DEF IInv
<1> QED
  BY <1>1, IInvHolds, PTL

(* Whenever a picture is presented it is no older than the one before; a   *)
(* frame is shown as itself at most once, a blend at most once and before  *)
(* its frame, and what is repeated is the frame shown last (README.md:102).*)
THEOREM TheScreenNeverGoesBack == Spec => ScreenGoesForward
<1> DEFINE Forward ==
      rendered_frames' # rendered_frames =>
        CASE screen'.action = "CurrentReal"     ->
               real_shown < screen'.id /\ screen.id <= screen'.id
          [] screen'.action = "BlendSynthetic"  ->
               real_shown < screen'.id /\ screen.id < screen'.id
          [] screen'.action = "RepeatSynthetic" ->
               real_shown = screen'.id /\ screen.id = screen'.id
<1>1. IInv /\ [Next]_vars => Forward
  <2> SUFFICES ASSUME IInv, [Next]_vars, rendered_frames' # rendered_frames PROVE Forward
    OBVIOUS
  <2>1. ShowFrame \/ ShowDue
    BY DEF Next, vars, shownVars, Submit, DiscardPending, ResetLatency, Stop, Join, TakeQueue,
           SkipFrame, LeaveLoop, Pass
  <2>2. CASE ShowFrame
    <3> DEFINE frame == Head(pending)
               action == RealFrameAction(cadence, frame.received_at)
    <3>1. pending # <<>> /\ Present(action, {frame}, FALSE) /\ current' = {frame}
      BY <2>2 DEF ShowFrame
    <3>2. frame = pending[1] /\ 1 \in 1..Len(pending)
      BY <3>1, RestOfRow DEF IInv, FramesInv
    <3>3. real_shown < frame.id /\ frame.id \in Nat /\ real_shown \in Nat
      BY <3>2 DEF IInv, Typed, FramesInv, Waits, Waiting, Known, Frames
    <3>4. screen.id <= frame.id /\ screen.id \in Nat
      <4>1. CASE current = {}
        BY <2>2, <3>3, <4>1 DEF ShowFrame, IInv, ScreenInv, Typed
      <4>2. CASE current # {}
        <5>1. PICK before \in Frames : current = {before}
          BY <4>2 DEF IInv, FramesInv
        <5>2. before.id < frame.id /\ screen.id <= before.id
          BY <3>2, <5>1 DEF IInv, FramesInv, Waits, Waiting, ScreenInv
        <5> QED
          BY <3>3, <5>1, <5>2 DEF IInv, Typed, Frames
      <4> QED
        BY <4>1, <4>2
    <3>5. action \in {"None", "CurrentReal"}
      BY DEF RealFrameAction
    <3> HIDE DEF frame, action
    <3>6. action = "CurrentReal" /\ screen' = [action |-> action, id |-> frame.id]
      BY <3>1, <3>5, PresentEffect
    <3>7. screen'.action = "CurrentReal" /\ screen'.id = frame.id
      BY <3>6
    <3> QED
      BY <3>3, <3>4, <3>7
  <2>3. CASE ShowDue
    <3> DEFINE action == TickAction(cadence, now)
    <3>1. Present(action, current, recorded) /\ loop = "shows"
      BY <2>3 DEF ShowDue
    <3>2. action # "None" /\ current # {}
      BY <3>1 DEF Present
    <3>3. PICK frame \in Frames : current = {frame}
      BY <3>2 DEF IInv, FramesInv
    <3>4. screen' = [action |-> action, id |-> frame.id]
      BY <3>1, <3>2, <3>3, PresentEffect
    <3>5. IF cadence.real_pending THEN real_shown < frame.id ELSE real_shown = frame.id
      BY <3>3 DEF IInv, PendingInv
    <3>6. /\ action = "BlendSynthetic" => cadence.real_pending /\ cadence.blend_pending
          /\ action = "CurrentReal" => cadence.real_pending
          /\ action = "RepeatSynthetic" => ~cadence.real_pending
          /\ action \in {"BlendSynthetic", "CurrentReal", "RepeatSynthetic"}
      BY <3>2 DEF TickAction, IInv, PendingInv
    <3>7. /\ real_shown <= screen.id /\ screen.id <= frame.id
          /\ cadence.blend_pending => screen.id < frame.id
      BY <3>3 DEF IInv, ScreenInv
    <3>8. frame.id \in Nat /\ real_shown \in Nat /\ screen.id \in Nat
      BY DEF IInv, Typed, Frames
    <3> HIDE DEF action
    <3>9. screen'.action = action /\ screen'.id = frame.id
      BY <3>4
    <3>10. CASE action = "RepeatSynthetic"
      BY <3>5, <3>6, <3>7, <3>8, <3>9, <3>10
    <3>11. CASE action \in {"BlendSynthetic", "CurrentReal"}
      BY <3>5, <3>6, <3>7, <3>8, <3>9, <3>11
    <3> QED
      BY <3>6, <3>10, <3>11
  <2> QED
    BY <2>1, <2>2, <2>3
<1> QED
  BY <1>1, IInvHolds, PTL DEF Spec, ScreenGoesForward

(* The types, and the order of the frames from current to the queue.       *)
THEOREM OutputTypes == Spec => []TypeOK
<1>1. IInv => TypeOK
  <2> SUFFICES ASSUME IInv PROVE TypeOK
    OBVIOUS
  <2> DEFINE line == pending \o queue
  <2>1. /\ pending \in Seq(Frames) /\ queue \in Seq(Frames)
        /\ Len(pending) \in Nat /\ Len(queue) \in Nat
    BY DEF IInv, FramesInv, Waits, Waiting
  <2>2. line \in Seq(Frames) /\ Len(line) = Len(pending) + Len(queue)
    BY <2>1
  <2>3. \A i \in 1..Len(line) :
          \/ i \in 1..Len(pending) /\ line[i] = pending[i]
          \/ i - Len(pending) \in 1..Len(queue) /\ line[i] = queue[i - Len(pending)]
    BY <2>1, <2>2
  <2> HIDE DEF line
  <2>4. \A i \in 1..Len(line), frame \in current : frame.id < line[i].id
    BY <2>3 DEF IInv, FramesInv, Waits, Waiting
  <2>5. ASSUME NEW i \in 1..Len(line), NEW j \in 1..Len(line), i < j
        PROVE  line[i].id < line[j].id
    <3>1. CASE j \in 1..Len(pending) /\ line[j] = pending[j]
      <4>1. i \in 1..Len(pending)
        BY <2>1, <2>2, <2>5, <3>1
      <4>2. line[i] = pending[i]
        BY <2>1, <2>2, <2>3, <4>1
      <4> QED
        BY <2>5, <3>1, <4>1, <4>2 DEF IInv, FramesInv, Waits, Waiting
    <3>2. CASE j - Len(pending) \in 1..Len(queue) /\ line[j] = queue[j - Len(pending)]
      <4>1. CASE i \in 1..Len(pending) /\ line[i] = pending[i]
        BY <3>2, <4>1 DEF IInv, FramesInv
      <4>2. CASE i - Len(pending) \in 1..Len(queue) /\ line[i] = queue[i - Len(pending)]
        <5>1. i - Len(pending) < j - Len(pending)
          BY <2>1, <2>2, <2>5
        <5> QED
          BY <3>2, <4>2, <5>1 DEF IInv, FramesInv, Waits, Waiting
      <4> QED
        BY <2>3, <4>1, <4>2
    <3> QED
      BY <2>3, <3>1, <3>2
  <2>6. \A frame \in previous \cup current : frame \in Frames
    BY DEF IInv, FramesInv
  <2> QED
    BY <2>2, <2>4, <2>5, <2>6 DEF TypeOK, IInv, Typed, FramesInv, line
<1> QED
  BY <1>1, IInvHolds, PTL
=============================================================================
