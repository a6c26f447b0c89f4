----------------------------- MODULE MCAdaptation -----------------------------
(* Values for TLC of the constants of AdaptationHistory. *)
EXTENDS AdaptationHistory

\* Both sides of the hysteresis of levels 1, 2 and 5, their confirmed and
\* immediate entries, the top level, and two RTT bands above 160 ms.
MCLosses == {2, 8, 16, 49, 58, 80}
MCRtts == {160, 200, 250}
=============================================================================
