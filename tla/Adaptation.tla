------------------------------ MODULE Adaptation ------------------------------
(***************************************************************************)
(* The profile ladder of the sender: class AdaptationController of         *)
(* src/common/adaptation.cpp.  Nine encoder profiles (levels 0..8) trade   *)
(* bitrate for redundancy.  Every network window moves the level: up at    *)
(* once, or after a confirmation, when the window requires more            *)
(* protection; down by one after five windows that required less.          *)
(*                                                                         *)
(* A loss is a whole percentage: every threshold in the code is a whole    *)
(* number, so the whole numbers hit both sides of each comparison.         *)
(***************************************************************************)
EXTENDS Integers

CONSTANTS
  Losses,          \* loss percentages a network window may report
  Rtts,            \* round-trip times, in ms, a network window may report
  MaxVideoKbps,    \* sender.max_video_kbps of the configuration
  RttWindowBound   \* rtt_high_windows is counted up to this bound

ASSUME AdaptationAssumption ==
  /\ Losses \subseteq 0..100
  /\ Rtts \subseteq Nat
  /\ MaxVideoKbps \in Int
  /\ RttWindowBound \in Nat
  /\ RttWindowBound >= 5

VARIABLES
  level,                          \* level_ (current_ is its profile)
  healthy_windows,                \* windows in a row that required less
  rtt_candidate_level,            \* level the recent high RTTs ask for
  rtt_high_windows,               \* how many windows in a row asked for it
  confirmed_rtt_required_level,   \* level the RTT is confirmed to require
  loss_candidate_level,           \* 0, or the level (2 or 5) being confirmed
  loss_candidate_windows,         \* windows that confirmed it so far
  emergency_recovery_active

rttVars  == <<rtt_candidate_level, rtt_high_windows, confirmed_rtt_required_level>>
lossVars == <<loss_candidate_level, loss_candidate_windows>>
adaptationVars ==
  <<level, healthy_windows, rttVars, lossVars, emergency_recovery_active>>

-----------------------------------------------------------------------------
(* The profile table and the thresholds. *)

Levels == 0..8

BitrateKbps ==
  [l \in Levels |-> <<2000, 900, 700, 500, 350, 220, 150, 90, 60>>[l + 1]]

Larger(a, b) == IF a > b THEN a ELSE b

MaxKbps == IF MaxVideoKbps < 60 THEN 60
           ELSE IF MaxVideoKbps > 2000 THEN 2000 ELSE MaxVideoKbps

\* The first level at or above l whose bitrate fits the configured maximum.
CapLevel(l) ==
  CHOOSE k \in Levels :
    /\ k >= l
    /\ k = 8 \/ BitrateKbps[k] <= MaxKbps
    /\ \A j \in Levels : l <= j /\ j < k => BitrateKbps[j] > MaxKbps

LossRequiredLevel(loss) ==
  IF loss > 77 THEN 8 ELSE
  IF loss > 72 THEN 7 ELSE
  IF loss > 65 THEN 6 ELSE
  IF loss > 50 THEN 5 ELSE
  IF loss > 30 THEN 4 ELSE
  IF loss > 20 THEN 3 ELSE
  IF loss > 15 THEN 2 ELSE
  IF loss > 5 THEN 1 ELSE 0

RttRequiredLevel(rtt) ==
  IF rtt > 400 THEN 7 ELSE
  IF rtt > 300 THEN 6 ELSE
  IF rtt > 220 THEN 5 ELSE
  IF rtt > 160 THEN 3 ELSE 0

Networks == [valid : BOOLEAN, loss : Losses, rtt : Rtts]

-----------------------------------------------------------------------------
(* loss_required_level_for_network: the level a window's loss requires of  *)
(* a controller now at level `at`, and the confirmation state it leaves,   *)
(* when `windows` windows in a row have asked for `candidate` before it.   *)
(* `counted` says whether the window counts towards a confirmation.        *)

Verdict(required, candidate, windows) ==
  [required |-> required, candidate |-> candidate, windows |-> windows]

\* Mutants: one window too many; windows of another candidate count too.
ConfirmingLate(target, needed, below, candidate, windows, counted) ==
  LET total == IF candidate = target THEN windows + 1 ELSE 1
  IN  Verdict(IF total > needed THEN target ELSE below, target, total)

ConfirmingAnyCandidate(target, needed, below, candidate, windows, counted) ==
  Verdict(IF windows + 1 >= needed THEN target ELSE below, target, windows + 1)

Confirming(target, needed, below, candidate, windows, counted) ==
  LET total == IF candidate = target THEN windows + 1 ELSE 1
  IN  IF counted
      THEN Verdict(IF total >= needed THEN target ELSE below, target, total)
      ELSE Verdict(IF windows >= needed THEN target ELSE below, candidate, windows)

LossVerdict(loss, at, candidate, windows, counted) ==
  LET raw == LossRequiredLevel(loss)
      Settled(l) == IF counted THEN Verdict(l, 0, 0)
                               ELSE Verdict(l, candidate, windows)
  IN  IF raw >= 6               THEN Settled(raw) ELSE
      IF at >= 5 /\ loss >= 50  THEN Settled(5) ELSE
      IF raw = 5 /\ loss > 60   THEN Settled(5) ELSE
      IF raw = 5 /\ loss > 55
        THEN Confirming(5, 3, 4, candidate, windows, counted) ELSE
      IF raw = 5                THEN Settled(4) ELSE
      IF raw >= 3               THEN Settled(raw) ELSE
      IF raw = 2 /\ at < 2
        THEN Confirming(2, 3, 1, candidate, windows, counted) ELSE
      IF raw = 2                THEN Settled(2) ELSE
      IF at >= 2 /\ loss >= 12  THEN Settled(2) ELSE
      IF raw = 1                THEN Settled(1) ELSE
      IF at >= 1 /\ loss >= 3   THEN Settled(1) ELSE Settled(0)

\* Mutant: a window of low RTT does not restart the count.
RttVerdictNotReset(rtt) ==
  LET raw == RttRequiredLevel(rtt)
      run == IF rtt_high_windows < RttWindowBound THEN rtt_high_windows + 1
             ELSE rtt_high_windows
  IN  IF raw = 0
      THEN [candidate |-> 0, windows |-> rtt_high_windows, confirmed |-> 0]
      ELSE [candidate |-> raw, windows |-> run,
            confirmed |-> IF run >= 5 \/ confirmed_rtt_required_level > raw
                          THEN raw ELSE confirmed_rtt_required_level]

(* The RTT half of required_level_for_network. *)
RttVerdict(rtt) ==
  LET raw == RttRequiredLevel(rtt)
      run == IF raw # rtt_candidate_level THEN 1
             ELSE IF rtt_high_windows < RttWindowBound THEN rtt_high_windows + 1
             ELSE rtt_high_windows
      confirmed == IF run >= 5 \/ confirmed_rtt_required_level > raw
                   THEN raw ELSE confirmed_rtt_required_level
  IN  IF raw = 0 THEN [candidate |-> 0, windows |-> 0, confirmed |-> 0]
      ELSE [candidate |-> raw, windows |-> run, confirmed |-> confirmed]

-----------------------------------------------------------------------------
Init ==
  /\ level = CapLevel(0)
  /\ healthy_windows = 0
  /\ rtt_candidate_level = 0 /\ rtt_high_windows = 0
  /\ confirmed_rtt_required_level = 0
  /\ loss_candidate_level = 0 /\ loss_candidate_windows = 0
  /\ emergency_recovery_active = FALSE

ResetRttConfirmation ==
  /\ rtt_candidate_level' = 0
  /\ rtt_high_windows' = 0
  /\ confirmed_rtt_required_level' = 0

ResetLossConfirmation ==
  /\ loss_candidate_level' = 0
  /\ loss_candidate_windows' = 0

\* Mutants: the level rises one at a time; the count of healthy windows
\* survives a degradation.
DegradeByOne(required) ==
  /\ required > level
  /\ level' = level + 1
  /\ healthy_windows' = 0
  /\ emergency_recovery_active' = (required = 8)

DegradeKeepsHealthy(required) ==
  /\ required > level
  /\ level' = required
  /\ UNCHANGED healthy_windows
  /\ emergency_recovery_active' = (required = 8)

(* The second half of update: where the required level moves the level. *)
Degrade(required) ==
  /\ required > level
  /\ level' = required
  /\ healthy_windows' = 0
  /\ emergency_recovery_active' = (required = 8)

\* Mutants: the windows are counted after the test; a window that requires
\* this very level counts as one that requires less.
RecoverLate(required) ==
  /\ required < level
  /\ IF healthy_windows >= 5
     THEN /\ level' = level - 1
          /\ healthy_windows' = 0
     ELSE healthy_windows' = healthy_windows + 1 /\ UNCHANGED level
  /\ UNCHANGED emergency_recovery_active

RecoverEager(required) ==
  /\ required <= level
  /\ level > 0
  /\ IF healthy_windows + 1 >= 5
     THEN /\ level' = level - 1
          /\ healthy_windows' = 0
     ELSE healthy_windows' = healthy_windows + 1 /\ UNCHANGED level
  /\ UNCHANGED emergency_recovery_active

Recover(required) ==
  /\ required < level
  /\ IF healthy_windows + 1 >= 5
     THEN /\ level' = level - 1
          /\ healthy_windows' = 0
          /\ emergency_recovery_active' =
               (emergency_recovery_active /\ level - 1 > required)
     ELSE /\ healthy_windows' = healthy_windows + 1
          /\ UNCHANGED <<level, emergency_recovery_active>>

Hold(required) ==
  /\ required = level
  /\ healthy_windows' = 0
  /\ emergency_recovery_active' = (emergency_recovery_active /\ level = 8)
  /\ UNCHANGED level

Update(network) ==
  IF ~network.valid THEN UNCHANGED adaptationVars
  ELSE
    LET loss == LossVerdict(network.loss, level, loss_candidate_level,
                            loss_candidate_windows, TRUE)
        rtt == RttVerdict(network.rtt)
        required == Larger(loss.required, rtt.confirmed)
    IN  /\ loss_candidate_level' = loss.candidate
        /\ loss_candidate_windows' = loss.windows
        /\ rtt_candidate_level' = rtt.candidate
        /\ rtt_high_windows' = rtt.windows
        /\ confirmed_rtt_required_level' = rtt.confirmed
        /\ Degrade(required) \/ Recover(required) \/ Hold(required)

\* Entering UDP recovery, or an SRT send that would block.  The loss
\* confirmation is left as it was.
ForceEmergency ==
  /\ level' = 8
  /\ healthy_windows' = 0
  /\ emergency_recovery_active' = TRUE
  /\ ResetRttConfirmation
  /\ UNCHANGED lossVars

\* Leaving UDP recovery: the confirmations are dropped, then the window
\* selects a level with the hysteresis of the level held until now.
ResetToNetwork(network) ==
  IF ~network.valid THEN UNCHANGED adaptationVars
  ELSE
    /\ level' = CapLevel(LossVerdict(network.loss, level, 0, 0, FALSE).required)
    /\ healthy_windows' = 0
    /\ emergency_recovery_active' = FALSE
    /\ ResetRttConfirmation
    /\ ResetLossConfirmation

Next ==
  \/ \E network \in Networks : Update(network) \/ ResetToNetwork(network)
  \/ ForceEmergency

Spec == Init /\ [][Next]_adaptationVars

-----------------------------------------------------------------------------
(* Type correctness of the controller's fields. *)
TypeOK ==
  /\ level \in Levels
  /\ healthy_windows \in 0..4
  /\ rtt_candidate_level \in {0, 3, 5, 6, 7}
  /\ rtt_high_windows \in 0..RttWindowBound
  /\ confirmed_rtt_required_level \in {0, 3, 5, 6, 7}
  /\ loss_candidate_level \in {0, 2, 5}
  /\ loss_candidate_windows \in 0..3
  /\ emergency_recovery_active \in BOOLEAN

\* The counters of loss_required_level_for_network count windows only while a
\* candidate is being confirmed, and a candidate that reached its three windows
\* has moved the controller to its level.
LossConfirmationConsistent ==
  /\ loss_candidate_level = 0 <=> loss_candidate_windows = 0
  /\ loss_candidate_windows = 3 => level >= loss_candidate_level

\* A confirmed RTT requirement is a floor under the level, and never exceeds
\* what the RTT windows now ask for.
RttFloorHeld ==
  /\ confirmed_rtt_required_level <= level
  /\ confirmed_rtt_required_level <= rtt_candidate_level

(* What was confirmed is in force and what is in force was confirmed: a    *)
(* loss candidate never outlives its confirmation, and a confirmed RTT is  *)
(* a floor that no recovery on loss undercuts, although force_emergency    *)
(* drops one confirmation and keeps the other.                             *)
ConfirmationsHold == LossConfirmationConsistent /\ RttFloorHeld
=============================================================================
