--------------------------- MODULE AdaptationSteady ---------------------------
(***************************************************************************)
(* The controller of Adaptation in a network that is disturbed for a while *)
(* and then stays as it is: every window then reports the same loss and    *)
(* RTT.  The question is whether the level settles or flaps for ever, and  *)
(* how many windows it takes.                                              *)
(***************************************************************************)
EXTENDS Adaptation

VARIABLES
  steady_network,   \* the window reported for ever
  steady,           \* it is reported from now on
  elapsed           \* history: how often it was, up to SettleWindows

steadyVars == <<adaptationVars, steady_network, steady, elapsed>>

\* Five windows for each of the eight levels to come down; the confirmations of
\* the loss and the RTT run meanwhile.
SettleWindows == 5 * 8

SteadyInit ==
  /\ Init
  /\ steady_network \in Networks
  /\ steady_network.valid
  /\ steady = FALSE
  /\ elapsed = 0

\* Any window at all, and UDP recovery, while the network is disturbed.
Disturbed ==
  /\ ~steady
  /\ \/ \E any \in Networks : any.valid /\ (Update(any) \/ ResetToNetwork(any))
     \/ ForceEmergency
  /\ UNCHANGED <<steady_network, steady, elapsed>>

\* From here on every window reports `steady_network`.
CalmsDown ==
  /\ ~steady
  /\ steady' = TRUE
  /\ UNCHANGED <<adaptationVars, steady_network, elapsed>>

Window ==
  /\ steady
  /\ Update(steady_network)
  /\ elapsed' = IF elapsed < SettleWindows THEN elapsed + 1 ELSE elapsed
  /\ UNCHANGED <<steady_network, steady>>

SteadyNext == Disturbed \/ CalmsDown \/ Window

\* Fairness: the sender's loop calls update for every new feedback sequence
\* (sender.cpp:186-200), and the receiver reports every 200 ms for as long as
\* the stream runs.  Nothing is assumed of the network's changes.
SteadySpec ==
  SteadyInit /\ [][SteadyNext]_steadyVars /\ WF_steadyVars(Window)

\* The window asks for exactly the level the controller is at.
Settled ==
  level = Larger(LossVerdict(steady_network.loss, level, loss_candidate_level,
                             loss_candidate_windows, TRUE).required,
                 RttRequiredLevel(steady_network.rtt))

(* No flapping: once the network is steady the level converges, whatever   *)
(* confirmation or recovery was under way, to a level at which this        *)
(* network requires exactly that level: the hysteresis of                  *)
(* loss_required_level_for_network has no cycle.                           *)
SteadySettles ==
  []~steady \/ \E l \in Levels : <>[](steady /\ level = l /\ Settled)

(* And it converges in time: SettleWindows windows after the disturbance   *)
(* (eight seconds of reports every 200 ms) the level is the one this       *)
(* network requires, and no later window moves it.                         *)
SettlesInTime ==
  [][ elapsed = SettleWindows => Settled /\ level' = level ]_steadyVars
=============================================================================
