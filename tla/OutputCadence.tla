----------------------------- MODULE OutputCadence -----------------------------
(***************************************************************************)
(* When the window shows which picture: OutputCadenceController of         *)
(* src/video/output_processor.cpp, as operators on its state, a record     *)
(*   last_real_at, next_output_at     ms, -1 before the first frame        *)
(*   low_rate_mode, blend_pending, real_pending                            *)
(* Frames closer together than the interval are shown as they come.  When  *)
(* they are further apart a fixed schedule fills the gaps: first a blend   *)
(* with the picture before, then the frame, then the frame again.          *)
(***************************************************************************)
EXTENDS Integers

CONSTANTS
  Interval,   \* interval_ms_
  Blends      \* interpolation_mode is blend

ASSUME CadenceAssumption ==
  /\ Interval \in Nat \ {0}
  /\ Blends \in BOOLEAN

Actions == {"None", "CurrentReal", "BlendSynthetic", "RepeatSynthetic"}

CadenceStates ==
  [last_real_at : Int, next_output_at : Int, low_rate_mode : BOOLEAN,
   blend_pending : BOOLEAN, real_pending : BOOLEAN]

InitialCadence ==
  [last_real_at |-> -1, next_output_at |-> -1, low_rate_mode |-> FALSE,
   blend_pending |-> FALSE, real_pending |-> FALSE]

-----------------------------------------------------------------------------
(* on_real_frame. *)

\* The first frame, or one that comes within the interval.
HighRate(c, at) == c.last_real_at < 0 \/ at - c.last_real_at <= Interval

\* Mutant: a frame shown at once is shown again when the one before waited.
ShowAtOnceKeepsPending(c, at) ==
  [c EXCEPT !.last_real_at = at, !.next_output_at = at + Interval,
            !.low_rate_mode = FALSE, !.blend_pending = FALSE]

ShowAtOnce(c, at) ==
  [c EXCEPT !.last_real_at = at, !.next_output_at = at + Interval,
            !.low_rate_mode = FALSE, !.blend_pending = FALSE,
            !.real_pending = FALSE]

\* Mutant: a late frame starts a new interval.
PostponeSchedule(c, at) == at + Interval

\* The schedule goes on; one that is behind restarts at the frame.
KeepSchedule(c, at) == IF c.next_output_at < at THEN at ELSE c.next_output_at

WaitForTick(c, at, can_blend) ==
  [c EXCEPT !.last_real_at = at, !.next_output_at = KeepSchedule(c, at),
            !.low_rate_mode = TRUE, !.blend_pending = Blends /\ can_blend,
            !.real_pending = TRUE]

RealFrame(c, at, can_blend) ==
  IF HighRate(c, at) THEN ShowAtOnce(c, at) ELSE WaitForTick(c, at, can_blend)

RealFrameAction(c, at) == IF HighRate(c, at) THEN "CurrentReal" ELSE "None"

-----------------------------------------------------------------------------
(* on_tick. *)

Due(c, now) ==
  c.last_real_at >= 0 /\ c.next_output_at >= 0 /\ now >= c.next_output_at

NextOutput(c, now) ==
  IF c.next_output_at + Interval <= now
  THEN now + Interval ELSE c.next_output_at + Interval

\* A schedule that is due while frames come fast enough shows nothing.
Passes(c, now) == ~c.low_rate_mode /\ now - c.last_real_at < Interval

TickAction(c, now) ==
  IF ~Due(c, now) \/ Passes(c, now) THEN "None"
  ELSE IF c.blend_pending THEN "BlendSynthetic"
  ELSE IF c.real_pending THEN "CurrentReal"
  ELSE "RepeatSynthetic"

Tick(c, now) ==
  IF ~Due(c, now) THEN c
  ELSE [c EXCEPT !.next_output_at = NextOutput(c, now),
                 !.low_rate_mode = ~Passes(c, now),
                 !.blend_pending = @ /\ Passes(c, now),
                 !.real_pending = @ /\ (Passes(c, now) \/ c.blend_pending)]
=============================================================================
