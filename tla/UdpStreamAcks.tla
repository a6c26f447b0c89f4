----------------------------- MODULE UdpStreamAcks -----------------------------
(***************************************************************************)
(* UdpStream with a history of the reports that acknowledged the recovery  *)
(* frame: what a document says of the end of a recovery and the code does  *)
(* not do.                                                                 *)
(***************************************************************************)
EXTENDS UdpStream

VARIABLE acknowledgements   \* since the recovery frame was sent, up to 2

ackVars == <<vars, acknowledgements>>

\* A periodic report is taken in that tells of the recovery frame or a later one.
Acknowledged ==
  /\ last_recovery_frame_id # 0
  /\ feedback'.complete_report_count > feedback.complete_report_count
  /\ feedback'.last_complete_frame_id >= last_recovery_frame_id

AckSpec ==
  /\ Init /\ acknowledgements = 0
  /\ [][ /\ Next
         /\ acknowledgements' =
              IF last_recovery_frame_id' = 0 THEN 0
              ELSE IF Acknowledged /\ acknowledgements < 2 THEN acknowledgements + 1
              ELSE acknowledgements ]_ackVars

(* development-parameters.yaml:365 "A recovery frame is acknowledged by at *)
(* least two fresh feedback reports" before the recovery ends.  The code   *)
(* counts every report of a receiver that has decoded anything, and needs  *)
(* only the last of them to be of a recovery frame.                        *)
ExitAcknowledgedTwice ==
  [][ recovering /\ ~recovering' => acknowledgements >= 2 ]_ackVars
=============================================================================
