--------------------------- MODULE AdaptationHistory ---------------------------
(***************************************************************************)
(* The controller of Adaptation with history variables that count network  *)
(* windows by the README's words instead of by the controller's own        *)
(* counters, and the promises of README.md:141-149 stated over them.       *)
(***************************************************************************)
EXTENDS Adaptation

VARIABLES
  cause,      \* the operation the last step was
  sample,     \* the loss of the window it was given
  rtt_run,    \* windows in a row above 160 ms, since the last reset
  calm_run,   \* windows in a row calm enough to leave the current level
  loss_run    \* windows in a row that would confirm level 2, level 5

historyVars == <<cause, sample, rtt_run, calm_run, loss_run>>
vars == <<adaptationVars, historyVars>>

\* README.md:141-147: the loss under which a window counts towards leaving
\* level l.  Levels 1, 2 and 5 have hysteresis, the others their threshold.
ExitLoss == <<3, 12, 20, 30, 50, 65, 72, 77>>
Calm(loss, l) == IF l \in {1, 2, 5} THEN loss < ExitLoss[l]
                 ELSE l > 0 /\ loss <= ExitLoss[l]

Count(run) == IF run < RttWindowBound THEN run + 1 ELSE run

\* README.md:142-144: the loss above which three windows in a row, and then
\* above which one window, enter levels 2 and 5.
Confirmable(loss, l) == loss > (IF l = 2 THEN 15 ELSE 55)
Immediate(loss, l) == loss > (IF l = 2 THEN 20 ELSE 60)

HInit ==
  /\ Init
  /\ cause = "start"
  /\ sample \in Losses
  /\ rtt_run = 0
  /\ calm_run = 0
  /\ loss_run = [l \in {2, 5} |-> 0]

HUpdate(network) ==
  /\ Update(network)
  /\ sample' = network.loss
  /\ IF network.valid
     THEN /\ cause' = "update"
          /\ rtt_run' = IF network.rtt > 160 THEN Count(rtt_run) ELSE 0
          /\ calm_run' = IF ~Calm(network.loss, level) THEN 0
                         ELSE IF level' # level THEN 0 ELSE Count(calm_run)
          /\ loss_run' = [l \in {2, 5} |->
                            IF ~Confirmable(network.loss, l) THEN 0
                            ELSE IF loss_run[l] < 3 THEN loss_run[l] + 1 ELSE 3]
     ELSE cause' = "invalid" /\ UNCHANGED <<rtt_run, calm_run, loss_run>>

HForceEmergency ==
  /\ ForceEmergency
  /\ cause' = "force"
  /\ rtt_run' = 0
  /\ calm_run' = 0
  /\ UNCHANGED <<sample, loss_run>>

HResetToNetwork(network) ==
  /\ ResetToNetwork(network)
  /\ sample' = network.loss
  /\ IF network.valid
     THEN /\ cause' = "reset"
          /\ rtt_run' = 0
          /\ calm_run' = 0
          /\ loss_run' = [l \in {2, 5} |-> 0]
     ELSE cause' = "invalid" /\ UNCHANGED <<rtt_run, calm_run, loss_run>>

HNext ==
  \/ \E network \in Networks : HUpdate(network) \/ HResetToNetwork(network)
  \/ HForceEmergency

HSpec == HInit /\ [][HNext]_vars

-----------------------------------------------------------------------------
(* README.md:148: an RTT spike never degrades the profile.  A window that  *)
(* raises the level beyond what its loss alone asks for is at least the    *)
(* fifth window above 160 ms in a row.                                     *)
RttDegradeConfirmed ==
  [][ cause' = "update" /\ level' > level /\ level' > LossRequiredLevel(sample')
      => rtt_run' >= 5 ]_vars

(* README.md:142-144: loss never enters level 2 or 5 unconfirmed.  A       *)
(* window that raises the level to 2 or 5, where no RTT requires it, is    *)
(* past the immediate entry or the third in a row past the confirmed one,  *)
(* although force_emergency keeps a confirmation that was under way.       *)
LossDegradeConfirmed ==
  [][ \A l \in {2, 5} :
        cause' = "update" /\ level < l /\ level' = l
          /\ confirmed_rtt_required_level' < l
        => Immediate(sample', l) \/ loss_run'[l] = 3 ]_vars

(* README.md:145: the level comes down one at a time, and only when this   *)
(* window and the four before it, all spent at this level, were calm       *)
(* enough to leave it.                                                     *)
RecoveryEarned ==
  [][ cause' = "update" /\ level' < level
      => level' = level - 1 /\ calm_run >= 4 /\ Calm(sample', level) ]_vars

(* development-parameters.yaml:133: loss that asks for level 1, 3, 4 or    *)
(* above 5 gets it in the same window; levels 2 and 5 may wait for their   *)
(* confirmation but the level below them is immediate, and past their      *)
(* immediate-entry thresholds they do not wait.                            *)
DegradeImmediate ==
  [][ cause' = "update"
      => LET raw == LossRequiredLevel(sample')
         IN  level' >= IF raw = 2 \/ (raw = 5 /\ sample' <= 60)
                       THEN raw - 1 ELSE raw ]_vars

-----------------------------------------------------------------------------
(* What the documents say and the code does not do. *)

(* README.md:148-149 "RTT-only degradation starts above 160 ms and         *)
(* requires five consecutive high-RTT feedback windows": after five        *)
(* windows in a row above 160 ms the level is at least 3.  In the code the *)
(* count restarts whenever the RTT crosses from one level's band to        *)
(* another's.                                                              *)
SustainedRttDegrades == rtt_run >= 5 => level >= 3
=============================================================================
