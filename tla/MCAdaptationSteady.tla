-------------------------- MODULE MCAdaptationSteady --------------------------
(* Values for TLC of the constants of AdaptationSteady. *)
EXTENDS AdaptationSteady

\* One loss in every interval between two thresholds of the code, the ladder's
\* and the hysteresis' alike, and one RTT in every band.
MCLosses == {2, 4, 8, 13, 18, 40, 49, 52, 58, 62, 80}
MCRtts == {160, 200, 250}
=============================================================================
