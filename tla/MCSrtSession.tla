----------------------------- MODULE MCSrtSession -----------------------------
(* Bounds for TLC. *)
EXTENDS SrtSession

\* The first connection lives long enough for a stall and a batch of packets,
\* the second for the reconnection to show.
FramesOfConnections == <<3, 1>>
ReportsOfConnections == <<2, 1>>
=============================================================================
