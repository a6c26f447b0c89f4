--------------------------- MODULE AdaptationProofs ---------------------------
(***************************************************************************)
(* Proofs about the controller of Adaptation and its history, for every    *)
(* set of losses and round-trip times and every configured maximum.        *)
(*                                                                         *)
(* IInv is inductive.  Its parts need each other: the loss confirmation    *)
(* counter stays in 0..3 only because a candidate that reached three       *)
(* windows has moved the level (LossConfirmationConsistent), and the       *)
(* confirmed RTT level stays under the level only while it is also under   *)
(* the level the RTT windows now ask for (RttFloorHeld).                   *)
(***************************************************************************)
EXTENDS AdaptationHistory, AdaptationSteady, TLAPS

IInv == TypeOK /\ LossConfirmationConsistent /\ RttFloorHeld

(* The ladder of loss thresholds yields a level. *)
LEMMA LossLevelType ==
  ASSUME NEW loss \in Int
  PROVE  LossRequiredLevel(loss) \in Levels
  BY DEF LossRequiredLevel, Levels

(* The ladder of RTT thresholds yields 0 or one of its four levels. *)
LEMMA RttLevelType ==
  ASSUME NEW rtt \in Int
  PROVE  RttRequiredLevel(rtt) \in {0, 3, 5, 6, 7}
  BY DEF RttRequiredLevel

(* The while loops of the constructor and of reset_to_network stop at a    *)
(* level: there is a first level from l on that fits the maximum or is 8.  *)
LEMMA CapLevelType ==
  ASSUME NEW l \in Levels
  PROVE  CapLevel(l) \in Levels
<1> DEFINE Fits(k) == k = 8 \/ BitrateKbps[k] <= MaxKbps
           First(k) == /\ k >= l
                       /\ k = 8 \/ BitrateKbps[k] <= MaxKbps
                       /\ \A j \in Levels : l <= j /\ j < k => BitrateKbps[j] > MaxKbps
<1>1. MaxKbps \in Int
  BY AdaptationAssumption DEF MaxKbps
<1>2. \A k \in Levels : BitrateKbps[k] \in Int
  BY DEF BitrateKbps, Levels
<1>3. \E k \in Levels : First(k)
  <2>1. PICK f \in [Levels -> BOOLEAN] : \A k \in Levels : f[k] = (k >= l /\ Fits(k))
    <3>1. [k \in Levels |-> (k >= l /\ Fits(k))] \in [Levels -> BOOLEAN]
      OBVIOUS
    <3> QED BY <3>1
  <2>2. f[8]
    BY <2>1 DEF Levels
  <2>3. \E k \in Levels : f[k] /\ \A j \in Levels : j < k => ~f[j]
    BY <2>1, <2>2 DEF Levels
  <2>4. PICK k \in Levels : f[k] /\ \A j \in Levels : j < k => ~f[j]
    BY <2>3
  <2>5. ASSUME NEW j \in Levels, l <= j, j < k
        PROVE  BitrateKbps[j] > MaxKbps
    BY <2>1, <2>4, <2>5, <1>1, <1>2 DEF Levels
  <2> QED BY <2>1, <2>4, <2>5
<1> HIDE DEF First
<1>4. (CHOOSE k \in Levels : First(k)) \in Levels
  BY <1>3
<1> QED BY <1>4 DEF CapLevel, First

(* loss_required_level_for_network returns a level, leaves a consistent    *)
(* confirmation, and never leaves a candidate at three windows without     *)
(* requiring its level.                                                    *)
LEMMA LossVerdictType ==
  ASSUME NEW loss \in 0..100, NEW at \in Levels,
         NEW candidate \in {0, 2, 5}, NEW windows \in 0..3,
         candidate = 0 <=> windows = 0,
         windows = 3 => at >= candidate
  PROVE  LET v == LossVerdict(loss, at, candidate, windows, TRUE)
         IN  /\ v.required \in Levels
             /\ v.candidate \in {0, 2, 5}
             /\ v.windows \in 0..3
             /\ v.candidate = 0 <=> v.windows = 0
             /\ v.windows = 3 => v.required >= v.candidate
<1> DEFINE raw == LossRequiredLevel(loss)
           v == LossVerdict(loss, at, candidate, windows, TRUE)
           Good(w) == /\ w.required \in Levels
                      /\ w.candidate \in {0, 2, 5}
                      /\ w.windows \in 0..3
                      /\ w.candidate = 0 <=> w.windows = 0
                      /\ w.windows = 3 => w.required >= w.candidate
<1>1. raw \in Levels
  BY LossLevelType
<1>2. ASSUME NEW l \in Levels PROVE Good(Verdict(l, 0, 0))
  BY DEF Verdict
<1>3. ASSUME raw = 5, at < 5
      PROVE  Good(Confirming(5, 3, 4, candidate, windows, TRUE))
  BY <1>3 DEF Confirming, Verdict, Levels
<1>4. ASSUME raw = 2, at < 2
      PROVE  Good(Confirming(2, 3, 1, candidate, windows, TRUE))
  BY <1>4 DEF Confirming, Verdict, Levels
<1>5. \/ \E l \in Levels : v = Verdict(l, 0, 0)
      \/ raw = 5 /\ at < 5 /\ v = Confirming(5, 3, 4, candidate, windows, TRUE)
      \/ raw = 2 /\ at < 2 /\ v = Confirming(2, 3, 1, candidate, windows, TRUE)
  <2> HIDE DEF raw
  <2>1. v = IF raw >= 6               THEN Verdict(raw, 0, 0) ELSE
            IF at >= 5 /\ loss >= 50  THEN Verdict(5, 0, 0) ELSE
            IF raw = 5 /\ loss > 60   THEN Verdict(5, 0, 0) ELSE
            IF raw = 5 /\ loss > 55
              THEN Confirming(5, 3, 4, candidate, windows, TRUE) ELSE
            IF raw = 5                THEN Verdict(4, 0, 0) ELSE
            IF raw >= 3               THEN Verdict(raw, 0, 0) ELSE
            IF raw = 2 /\ at < 2
              THEN Confirming(2, 3, 1, candidate, windows, TRUE) ELSE
            IF raw = 2                THEN Verdict(2, 0, 0) ELSE
            IF at >= 2 /\ loss >= 12  THEN Verdict(2, 0, 0) ELSE
            IF raw = 1                THEN Verdict(1, 0, 0) ELSE
            IF at >= 1 /\ loss >= 3   THEN Verdict(1, 0, 0) ELSE Verdict(0, 0, 0)
    BY Zenon DEF LossVerdict, raw
  <2>2. {0, 1, 2, 4, 5} \subseteq Levels
    BY DEF Levels
  <2>3. raw = 5 => loss >= 50
    BY DEF raw, LossRequiredLevel
  <2> HIDE DEF v
  <2>4. \/ v = Verdict(raw, 0, 0)
        \/ \E l \in {0, 1, 2, 4, 5} : v = Verdict(l, 0, 0)
        \/ raw = 5 /\ at < 5 /\ v = Confirming(5, 3, 4, candidate, windows, TRUE)
        \/ raw = 2 /\ at < 2 /\ v = Confirming(2, 3, 1, candidate, windows, TRUE)
    <3>1. at >= 5 \/ at < 5
      BY DEF Levels
    <3> QED BY <2>1, <2>3, <3>1
  <2> QED BY <1>1, <2>2, <2>4
<1> HIDE DEF Good, v, raw
<1>6. Good(v)
  BY <1>2, <1>3, <1>4, <1>5
<1> QED BY <1>6 DEF Good, v

(* reset_to_network asks for a level without counting a confirmation.      *)
LEMMA LossVerdictUncounted ==
  ASSUME NEW loss \in 0..100, NEW at \in Levels
  PROVE  LossVerdict(loss, at, 0, 0, FALSE).required \in Levels
  BY LossLevelType DEF LossVerdict, Confirming, Verdict, Levels

(* The RTT half of required_level_for_network keeps its fields in range,   *)
(* and never confirms more than this window asks for.                      *)
LEMMA RttVerdictType ==
  ASSUME NEW rtt \in Nat, TypeOK
  PROVE  LET v == RttVerdict(rtt)
         IN  /\ v.candidate \in {0, 3, 5, 6, 7}
             /\ v.windows \in 0..RttWindowBound
             /\ v.confirmed \in {0, 3, 5, 6, 7}
             /\ v.confirmed <= v.candidate
<1>1. RttRequiredLevel(rtt) \in {0, 3, 5, 6, 7}
  BY RttLevelType
<1> QED BY <1>1, AdaptationAssumption DEF RttVerdict, TypeOK

(* Where update moves the level: up to the required level, down by one but *)
(* not under it, or nowhere.                                               *)
LEMMA MoveType ==
  ASSUME TypeOK, NEW required \in Levels,
         Degrade(required) \/ Recover(required) \/ Hold(required)
  PROVE  /\ level' \in Levels
         /\ level' >= required
         /\ healthy_windows' \in 0..4
         /\ emergency_recovery_active' \in BOOLEAN
<1>1. CASE Degrade(required)
  BY <1>1 DEF TypeOK, Degrade, Levels
<1>2. CASE Recover(required)
  <2>1. CASE healthy_windows + 1 >= 5
    <3>1. emergency_recovery_active' \in BOOLEAN
      BY <1>2, <2>1, Zenon DEF Recover
    <3>2. /\ required < level /\ level \in Levels
          /\ level' = level - 1
          /\ healthy_windows' = 0
      BY <1>2, <2>1, Zenon DEF TypeOK, Recover
    <3> QED BY <3>1, <3>2 DEF Levels
  <2>2. CASE ~(healthy_windows + 1 >= 5)
    BY <1>2, <2>2 DEF TypeOK, Recover, Levels
  <2> QED BY <2>1, <2>2
<1>3. CASE Hold(required)
  BY <1>3 DEF TypeOK, Hold, Levels
<1> QED BY <1>1, <1>2, <1>3

LEMMA InitIInv == Init => IInv
<1> SUFFICES ASSUME Init PROVE IInv
  OBVIOUS
<1>1. CapLevel(0) \in Levels
  BY CapLevelType DEF Levels
<1>2. level \in Levels
  BY <1>1 DEF Init
<1>3. TypeOK
  <2>1. 0 \in 0..RttWindowBound
    BY AdaptationAssumption
  <2>2. emergency_recovery_active \in BOOLEAN
    BY Zenon DEF Init
  <2> QED BY <1>2, <2>1, <2>2 DEF Init, TypeOK
<1>4. LossConfirmationConsistent
  BY DEF Init, LossConfirmationConsistent
<1>5. RttFloorHeld
  BY <1>2 DEF Init, RttFloorHeld, Levels
<1> QED BY <1>3, <1>4, <1>5 DEF IInv

LEMMA UpdateIInv ==
  ASSUME IInv, NEW network \in Networks, Update(network)
  PROVE  IInv'
<1> USE DEF IInv
<1>1. CASE ~network.valid
  BY <1>1 DEF Update, adaptationVars, rttVars, lossVars, TypeOK,
              LossConfirmationConsistent, RttFloorHeld
<1>2. CASE network.valid
  <2> DEFINE loss == LossVerdict(network.loss, level, loss_candidate_level,
                                 loss_candidate_windows, TRUE)
             rtt == RttVerdict(network.rtt)
             required == Larger(loss.required, rtt.confirmed)
  <2>1. network.loss \in 0..100 /\ network.rtt \in Nat
    BY AdaptationAssumption DEF Networks
  <2>2. /\ loss.required \in Levels
        /\ loss.candidate \in {0, 2, 5}
        /\ loss.windows \in 0..3
        /\ loss.candidate = 0 <=> loss.windows = 0
        /\ loss.windows = 3 => loss.required >= loss.candidate
    BY <2>1, LossVerdictType DEF TypeOK, LossConfirmationConsistent
  <2>3. /\ rtt.candidate \in {0, 3, 5, 6, 7}
        /\ rtt.windows \in 0..RttWindowBound
        /\ rtt.confirmed \in {0, 3, 5, 6, 7}
        /\ rtt.confirmed <= rtt.candidate
    BY <2>1, RttVerdictType
  <2>4. /\ loss_candidate_level' = loss.candidate
        /\ loss_candidate_windows' = loss.windows
        /\ rtt_candidate_level' = rtt.candidate
        /\ rtt_high_windows' = rtt.windows
        /\ confirmed_rtt_required_level' = rtt.confirmed
        /\ Degrade(required) \/ Recover(required) \/ Hold(required)
    BY <1>2 DEF Update
  <2> HIDE DEF loss, rtt
  <2>5. required \in Levels /\ required >= loss.required /\ required >= rtt.confirmed
    BY <2>2, <2>3 DEF Larger, Levels
  <2> HIDE DEF required
  <2>6. /\ level' \in Levels
        /\ level' >= required
        /\ healthy_windows' \in 0..4
        /\ emergency_recovery_active' \in BOOLEAN
    BY <2>4, <2>5, MoveType
  <2>7. TypeOK'
    BY <2>2, <2>3, <2>4, <2>6 DEF TypeOK
  <2>8. LossConfirmationConsistent'
    BY <2>2, <2>4, <2>5, <2>6 DEF LossConfirmationConsistent, Levels
  <2>9. RttFloorHeld'
    BY <2>3, <2>4, <2>5, <2>6 DEF RttFloorHeld, Levels
  <2> QED BY <2>7, <2>8, <2>9
<1> QED BY <1>1, <1>2

LEMMA ResetIInv ==
  ASSUME IInv, NEW network \in Networks, ResetToNetwork(network)
  PROVE  IInv'
<1> USE DEF IInv
<1>1. CASE ~network.valid
  BY <1>1 DEF ResetToNetwork, adaptationVars, rttVars, lossVars, TypeOK,
              LossConfirmationConsistent, RttFloorHeld
<1>2. CASE network.valid
  <2>1. level' \in Levels
    <3>1. network.loss \in 0..100
      BY AdaptationAssumption DEF Networks
    <3>2. LossVerdict(network.loss, level, 0, 0, FALSE).required \in Levels
      BY <3>1, LossVerdictUncounted DEF TypeOK
    <3> QED BY <1>2, <3>2, CapLevelType DEF ResetToNetwork
  <2>2. /\ healthy_windows' = 0
        /\ emergency_recovery_active' = FALSE
        /\ rtt_candidate_level' = 0
        /\ rtt_high_windows' = 0
        /\ confirmed_rtt_required_level' = 0
        /\ loss_candidate_level' = 0
        /\ loss_candidate_windows' = 0
    BY <1>2, Zenon DEF ResetToNetwork, ResetRttConfirmation, ResetLossConfirmation
  <2>3. TypeOK'
    <3>1. 0 \in 0..RttWindowBound
      BY AdaptationAssumption
    <3>2. emergency_recovery_active' \in BOOLEAN
      BY <2>2, Zenon
    <3> QED BY <2>1, <2>2, <3>1, <3>2 DEF TypeOK
  <2>4. LossConfirmationConsistent'
    BY <2>2 DEF LossConfirmationConsistent
  <2>5. RttFloorHeld'
    BY <2>1, <2>2 DEF RttFloorHeld, Levels
  <2> QED BY <2>3, <2>4, <2>5
<1> QED BY <1>1, <1>2

LEMMA ForceIInv ==
  ASSUME IInv, ForceEmergency
  PROVE  IInv'
  BY AdaptationAssumption
  DEF IInv, ForceEmergency, ResetRttConfirmation, lossVars, TypeOK,
      LossConfirmationConsistent, RttFloorHeld, Levels

(* IInv is inductive for the controller. *)
LEMMA NextIInv ==
  ASSUME IInv, [Next]_adaptationVars
  PROVE  IInv'
<1>1. CASE \E network \in Networks : Update(network)
  BY <1>1, UpdateIInv
<1>2. CASE \E network \in Networks : ResetToNetwork(network)
  BY <1>2, ResetIInv
<1>3. CASE ForceEmergency
  BY <1>3, ForceIInv
<1>4. CASE UNCHANGED adaptationVars
  BY <1>4 DEF IInv, adaptationVars, rttVars, lossVars, TypeOK,
              LossConfirmationConsistent, RttFloorHeld
<1> QED BY <1>1, <1>2, <1>3, <1>4 DEF Next

(* The controller's fields stay in range, whatever windows it is given:    *)
(* in particular the level always has a profile in the table.              *)
THEOREM AdaptationTypeCorrect == Spec => []TypeOK
<1>1. Init => IInv
  BY InitIInv
<1>2. IInv /\ [Next]_adaptationVars => IInv'
  BY NextIInv
<1>3. IInv => TypeOK
  BY DEF IInv
<1> QED BY <1>1, <1>2, <1>3, PTL DEF Spec

(* Whatever windows and emergencies are interleaved, the two confirmations *)
(* of update and the level agree.                                          *)
THEOREM ConfirmationsAlwaysHold == Spec => []ConfirmationsHold
<1>1. Init => IInv
  BY InitIInv
<1>2. IInv /\ [Next]_adaptationVars => IInv'
  BY NextIInv
<1>3. IInv => ConfirmationsHold
  BY DEF IInv, ConfirmationsHold
<1> QED BY <1>1, <1>2, <1>3, PTL DEF Spec

-----------------------------------------------------------------------------
(* The controller against its history: its own counters never run ahead of *)
(* the windows that really were high, or calm.                             *)
HInv ==
  /\ IInv
  /\ sample \in Losses
  /\ rtt_run \in 0..RttWindowBound
  /\ calm_run \in 0..RttWindowBound
  /\ rtt_high_windows <= rtt_run
  /\ healthy_windows <= calm_run
  /\ confirmed_rtt_required_level # 0 => rtt_run >= 5
  /\ loss_run \in [{2, 5} -> 0..3]
  /\ loss_candidate_level # 0
       => loss_candidate_windows <= loss_run[loss_candidate_level]

(* A window whose loss requires less than the level held is a calm one.    *)
LEMMA RequiredBelowIsCalm ==
  ASSUME NEW loss \in 0..100, NEW at \in Levels,
         NEW candidate \in {0, 2, 5}, NEW windows \in 0..3,
         LossVerdict(loss, at, candidate, windows, TRUE).required < at
  PROVE  Calm(loss, at)
<1> DEFINE required == LossVerdict(loss, at, candidate, windows, TRUE).required
<1>1. /\ loss > 77 => required >= 8
      /\ loss > 72 => required >= 7
      /\ loss > 65 => required >= 6
      /\ loss >= 50 /\ at >= 5 => required >= 5
      /\ loss > 30 => required >= 4
      /\ loss > 20 => required >= 3
      /\ loss >= 12 /\ at >= 2 => required >= 2
      /\ loss >= 3 /\ at >= 1 => required >= 1
      /\ required >= 0 /\ required \in Int
  BY DEF LossVerdict, LossRequiredLevel, Confirming, Verdict, Levels
<1> HIDE DEF required
<1>2. required < at
  BY DEF required
<1>3. /\ ExitLoss[1] = 3  /\ ExitLoss[2] = 12 /\ ExitLoss[3] = 20
      /\ ExitLoss[4] = 30 /\ ExitLoss[5] = 50 /\ ExitLoss[6] = 65
      /\ ExitLoss[7] = 72 /\ ExitLoss[8] = 77
  BY DEF ExitLoss
<1>4. at \in {1, 2, 3, 4, 5, 6, 7, 8}
  BY <1>1, <1>2 DEF Levels
<1> QED BY <1>1, <1>2, <1>3, <1>4 DEF Calm

(* The loss hysteresis never raises the level beyond the threshold of the  *)
(* window's loss: it only holds a level already reached.                   *)
LEMMA RequiredBounded ==
  ASSUME NEW loss \in 0..100, NEW at \in Levels,
         NEW candidate \in {0, 2, 5}, NEW windows \in 0..3
  PROVE  LET required == LossVerdict(loss, at, candidate, windows, TRUE).required
         IN  required <= LossRequiredLevel(loss) \/ required <= at
  BY DEF LossVerdict, LossRequiredLevel, Confirming, Verdict, Levels

(* A window that leaves a candidate for confirmation counts towards it,    *)
(* and a level that needs confirmation is entered with three windows or    *)
(* past its immediate entry.                                               *)
LEMMA LossVerdictCounted ==
  ASSUME NEW loss \in 0..100, NEW at \in Levels,
         NEW candidate \in {0, 2, 5}, NEW windows \in 0..3
  PROVE  LET v == LossVerdict(loss, at, candidate, windows, TRUE)
         IN  /\ v.candidate # 0 =>
                  /\ Confirmable(loss, v.candidate)
                  /\ v.windows <= IF candidate = v.candidate THEN windows + 1 ELSE 1
             /\ \A l \in {2, 5} :
                  at < l /\ v.required = l =>
                    Immediate(loss, l) \/ (v.candidate = l /\ v.windows >= 3)
  BY DEF LossVerdict, LossRequiredLevel, Confirming, Verdict, Levels,
         Confirmable, Immediate

ConfirmedStep ==
  cause' = "update" /\ level' > level /\ level' > LossRequiredLevel(sample')
    => rtt_run' >= 5

LossConfirmedStep ==
  \A l \in {2, 5} :
    cause' = "update" /\ level < l /\ level' = l
      /\ confirmed_rtt_required_level' < l
    => Immediate(sample', l) \/ loss_run'[l] = 3

EarnedStep ==
  cause' = "update" /\ level' < level
    => level' = level - 1 /\ calm_run >= 4 /\ Calm(sample', level)

(* A window that asks the RTT for a level is counted by the history too.   *)
LEMMA RttVerdictCounted ==
  ASSUME HInv, NEW rtt \in Nat,
         rtt_run' = IF rtt > 160 THEN Count(rtt_run) ELSE 0
  PROVE  LET v == RttVerdict(rtt)
         IN  /\ rtt_run' \in 0..RttWindowBound
             /\ v.windows <= rtt_run'
             /\ v.confirmed # 0 => rtt_run' >= 5
<1> DEFINE raw == RttRequiredLevel(rtt)
<1>1. raw = 0 \/ (raw # 0 /\ rtt > 160)
  BY DEF RttRequiredLevel
<1>2. /\ rtt_run \in 0..RttWindowBound
      /\ rtt_high_windows \in 0..RttWindowBound
      /\ rtt_high_windows <= rtt_run
      /\ confirmed_rtt_required_level # 0 => rtt_run >= 5
      /\ confirmed_rtt_required_level \in Int
  BY DEF HInv, IInv, TypeOK
<1>3. rtt_run' \in 0..RttWindowBound
  BY <1>2, AdaptationAssumption DEF Count
<1>4. CASE raw = 0
  BY <1>2, <1>3, <1>4 DEF RttVerdict
<1>5. CASE raw # 0
  <2> DEFINE run == IF raw # rtt_candidate_level THEN 1
                    ELSE IF rtt_high_windows < RttWindowBound
                         THEN rtt_high_windows + 1 ELSE rtt_high_windows
             confirmed == IF run >= 5 \/ confirmed_rtt_required_level > raw
                          THEN raw ELSE confirmed_rtt_required_level
  <2>1. rtt_run' = Count(rtt_run)
    BY <1>1, <1>5
  <2>2. RttVerdict(rtt) = [candidate |-> raw, windows |-> run, confirmed |-> confirmed]
    BY <1>5, Zenon DEF RttVerdict
  <2>3. raw \in {0, 3, 5, 6, 7}
    BY RttLevelType
  <2> HIDE DEF raw
  <2>4. run \in Int /\ run <= rtt_run'
    BY <1>2, <1>3, <2>1, AdaptationAssumption DEF Count
  <2> HIDE DEF run
  <2>5. confirmed # 0 => rtt_run' >= 5
    <3>1. rtt_run >= 5 => rtt_run' >= 5
      BY <1>2, <2>1 DEF Count
    <3> QED BY <1>2, <1>3, <2>3, <2>4, <3>1
  <2> HIDE DEF confirmed
  <2> QED BY <1>3, <2>2, <2>4, <2>5
<1> QED BY <1>4, <1>5

LEMMA UpdateHInv ==
  ASSUME HInv, NEW network \in Networks, HUpdate(network)
  PROVE  HInv' /\ ConfirmedStep /\ LossConfirmedStep /\ EarnedStep
<1>1. IInv'
  BY UpdateIInv DEF HInv, HUpdate
<1>2. CASE ~network.valid
  <2>1. UNCHANGED adaptationVars
    BY <1>2 DEF HUpdate, Update
  <2>2. /\ cause' = "invalid" /\ UNCHANGED <<rtt_run, calm_run, loss_run>>
        /\ sample' \in Losses
    BY <1>2 DEF HUpdate, Networks
  <2> QED BY <1>1, <2>1, <2>2
       DEF HInv, adaptationVars, rttVars, lossVars,
           ConfirmedStep, LossConfirmedStep, EarnedStep
<1>3. CASE network.valid
  <2> DEFINE loss == LossVerdict(network.loss, level, loss_candidate_level,
                                 loss_candidate_windows, TRUE)
             rtt == RttVerdict(network.rtt)
             required == Larger(loss.required, rtt.confirmed)
  <2>1. network.loss \in 0..100 /\ network.rtt \in Nat
    BY AdaptationAssumption DEF Networks
  <2>2. /\ level \in Levels
        /\ healthy_windows \in 0..4
        /\ loss_candidate_level \in {0, 2, 5}
        /\ loss_candidate_windows \in 0..3
        /\ loss_candidate_level = 0 <=> loss_candidate_windows = 0
        /\ loss_candidate_windows = 3 => level >= loss_candidate_level
    BY DEF HInv, IInv, TypeOK, LossConfirmationConsistent
  <2>3. /\ loss.required \in Levels
        /\ loss.required <= LossRequiredLevel(network.loss) \/ loss.required <= level
        /\ loss.required < level => Calm(network.loss, level)
    BY <2>1, <2>2, LossVerdictType, RequiredBounded, RequiredBelowIsCalm
  <2>4. /\ rtt.confirmed \in {0, 3, 5, 6, 7}
        /\ rtt_run' \in 0..RttWindowBound
        /\ rtt.windows <= rtt_run'
        /\ rtt.confirmed # 0 => rtt_run' >= 5
    BY <1>3, <2>1, RttVerdictType, RttVerdictCounted DEF HInv, IInv, HUpdate
  <2>5. /\ rtt_high_windows' = rtt.windows
        /\ confirmed_rtt_required_level' = rtt.confirmed
        /\ Degrade(required) \/ Recover(required) \/ Hold(required)
    BY <1>3 DEF HUpdate, Update
  <2>6. /\ sample' = network.loss /\ sample' \in Losses
        /\ calm_run' = IF ~Calm(network.loss, level) THEN 0
                       ELSE IF level' # level THEN 0 ELSE Count(calm_run)
        /\ calm_run \in 0..RttWindowBound
        /\ healthy_windows <= calm_run
    BY <1>3 DEF HUpdate, HInv, Networks
  <2>7. LossRequiredLevel(network.loss) \in Levels
    BY <2>1, LossLevelType
  <2> HIDE DEF loss, rtt
  <2>8. /\ required \in Levels
        /\ required >= loss.required /\ required >= rtt.confirmed
        /\ required = loss.required \/ required = rtt.confirmed
    BY <2>3, <2>4 DEF Larger, Levels
  <2> HIDE DEF required
  <2>9. calm_run' \in 0..RttWindowBound
    BY <2>6, AdaptationAssumption DEF Count
  <2>10. /\ healthy_windows' <= calm_run'
         /\ level' < level => level' = level - 1 /\ healthy_windows = 4
                              /\ Calm(network.loss, level)
         /\ level' > level => level' = required
    <3>1. CASE Degrade(required)
      BY <2>2, <2>8, <2>9, <3>1 DEF Degrade, Levels
    <3>2. CASE Recover(required)
      <4>1. Calm(network.loss, level)
        BY <2>2, <2>3, <2>8, <3>2 DEF Recover, Levels
      <4>2. CASE healthy_windows + 1 >= 5
        <5>1. level' = level - 1 /\ healthy_windows' = 0
          BY <3>2, <4>2, Zenon DEF Recover
        <5> QED BY <2>2, <2>9, <4>1, <4>2, <5>1 DEF Levels
      <4>3. CASE ~(healthy_windows + 1 >= 5)
        <5>1. level' = level /\ healthy_windows' = healthy_windows + 1
          BY <3>2, <4>3 DEF Recover
        <5>2. calm_run' = Count(calm_run)
          BY <2>6, <4>1, <5>1
        <5> QED BY <2>2, <2>6, <4>3, <5>1, <5>2, AdaptationAssumption DEF Count, Levels
      <4> QED BY <4>2, <4>3
    <3>3. CASE Hold(required)
      BY <2>2, <2>9, <3>3 DEF Hold, Levels
    <3> QED BY <2>5, <3>1, <3>2, <3>3
  <2>11. /\ loss_run' \in [{2, 5} -> 0..3]
         /\ loss_candidate_level' = loss.candidate
         /\ loss_candidate_windows' = loss.windows
         /\ loss.candidate \in {0, 2, 5} /\ loss.windows \in 0..3
         /\ loss.candidate # 0 => loss.windows <= loss_run'[loss.candidate]
    <3>1. /\ loss_run \in [{2, 5} -> 0..3]
          /\ loss_candidate_level # 0
               => loss_candidate_windows <= loss_run[loss_candidate_level]
          /\ loss_run' = [l \in {2, 5} |->
                            IF ~Confirmable(network.loss, l) THEN 0
                            ELSE IF loss_run[l] < 3 THEN loss_run[l] + 1 ELSE 3]
      BY <1>3 DEF HInv, HUpdate
    <3>2. loss_run' \in [{2, 5} -> 0..3]
      BY <3>1
    <3>3. /\ loss_candidate_level' = loss.candidate
          /\ loss_candidate_windows' = loss.windows
      BY <1>3 DEF HUpdate, Update, loss
    <3>4. loss.candidate \in {0, 2, 5} /\ loss.windows \in 0..3
      BY <2>1, <2>2, LossVerdictType DEF loss
    <3>5. loss.candidate # 0 =>
            /\ Confirmable(network.loss, loss.candidate)
            /\ loss.windows <= IF loss_candidate_level = loss.candidate
                               THEN loss_candidate_windows + 1 ELSE 1
      BY <2>1, <2>2, LossVerdictCounted DEF loss
    <3>6. ASSUME loss.candidate # 0
          PROVE  loss.windows <= loss_run'[loss.candidate]
      <4>1. /\ loss.candidate \in {2, 5}
            /\ loss_run[loss.candidate] \in 0..3
            /\ loss_run'[loss.candidate] = IF loss_run[loss.candidate] < 3
                                           THEN loss_run[loss.candidate] + 1 ELSE 3
        BY <3>1, <3>4, <3>5, <3>6
      <4> QED BY <2>2, <3>1, <3>4, <3>5, <3>6, <4>1
    <3> QED BY <3>2, <3>3, <3>4, <3>6
  <2>12. HInv'
    BY <1>1, <2>4, <2>5, <2>6, <2>9, <2>10, <2>11 DEF HInv
  <2>13. ConfirmedStep
    BY <2>2, <2>3, <2>4, <2>6, <2>7, <2>8, <2>10 DEF ConfirmedStep, Levels
  <2>14. EarnedStep
    BY <2>6, <2>10 DEF EarnedStep
  <2>15. LossConfirmedStep
    <3> SUFFICES ASSUME NEW l \in {2, 5},
                        level < l, level' = l, confirmed_rtt_required_level' < l
                 PROVE  Immediate(network.loss, l) \/ loss_run'[l] = 3
      BY <2>6 DEF LossConfirmedStep
    <3>1. loss.required = l
      BY <2>2, <2>3, <2>4, <2>5, <2>8, <2>10 DEF Levels
    <3>2. Immediate(network.loss, l) \/ (loss.candidate = l /\ loss.windows >= 3)
      <4>1. \A m \in {2, 5} :
              level < m /\ loss.required = m =>
                Immediate(network.loss, m) \/ (loss.candidate = m /\ loss.windows >= 3)
        BY <2>1, <2>2, LossVerdictCounted DEF loss
      <4> QED BY <3>1, <4>1
    <3>3. loss.candidate = l /\ loss.windows >= 3 => loss_run'[l] = 3
      BY <2>11
    <3> QED BY <3>2, <3>3
  <2> QED BY <2>12, <2>13, <2>14, <2>15
<1> QED BY <1>2, <1>3

(* HInv is inductive, and every step from it is a confirmed and an earned  *)
(* one.                                                                    *)
LEMMA HNextHInv ==
  ASSUME HInv, [HNext]_vars
  PROVE  /\ HInv'
         /\ [ConfirmedStep]_vars
         /\ [LossConfirmedStep]_vars
         /\ [EarnedStep]_vars
<1>1. CASE \E network \in Networks : HUpdate(network)
  BY <1>1, UpdateHInv
<1>2. ASSUME NEW network \in Networks, HResetToNetwork(network)
      PROVE  HInv' /\ ConfirmedStep /\ LossConfirmedStep /\ EarnedStep
  <2>1. IInv' /\ cause' # "update" /\ sample' \in Losses
    BY <1>2, ResetIInv DEF HInv, HResetToNetwork, Networks
  <2>2. CASE network.valid
    <3>1. /\ rtt_run' = 0 /\ calm_run' = 0
          /\ loss_run' = [l \in {2, 5} |-> 0]
          /\ healthy_windows' = 0
          /\ rtt_high_windows' = 0
          /\ confirmed_rtt_required_level' = 0
          /\ loss_candidate_level' = 0
      BY <1>2, <2>2 DEF HResetToNetwork, ResetToNetwork, ResetRttConfirmation,
                        ResetLossConfirmation
    <3>2. loss_run' \in [{2, 5} -> 0..3]
      BY <3>1
    <3> QED BY <2>1, <3>1, <3>2, AdaptationAssumption
         DEF HInv, ConfirmedStep, LossConfirmedStep, EarnedStep
  <2>3. CASE ~network.valid
    <3>1. UNCHANGED adaptationVars /\ UNCHANGED <<rtt_run, calm_run, loss_run>>
      BY <1>2, <2>3 DEF HResetToNetwork, ResetToNetwork
    <3> QED BY <2>1, <3>1
         DEF HInv, ConfirmedStep, LossConfirmedStep, EarnedStep,
             adaptationVars, rttVars, lossVars
  <2> QED BY <2>2, <2>3
<1>3. CASE HForceEmergency
  <2>1. IInv' /\ cause' # "update" /\ sample' = sample
    BY <1>3, ForceIInv DEF HInv, HForceEmergency
  <2>2. /\ rtt_run' = 0 /\ calm_run' = 0
        /\ healthy_windows' = 0
        /\ rtt_high_windows' = 0
        /\ confirmed_rtt_required_level' = 0
    BY <1>3 DEF HForceEmergency, ForceEmergency, ResetRttConfirmation
  <2>3. UNCHANGED <<lossVars, loss_run>>
    BY <1>3 DEF HForceEmergency, ForceEmergency
  <2> QED BY <2>1, <2>2, <2>3, AdaptationAssumption
       DEF HInv, ConfirmedStep, LossConfirmedStep, EarnedStep, lossVars
<1>4. CASE UNCHANGED vars
  <2>1. UNCHANGED adaptationVars /\ UNCHANGED historyVars
    BY <1>4 DEF vars
  <2>2. IInv'
    BY <2>1, NextIInv DEF HInv
  <2> QED BY <1>4, <2>1, <2>2
       DEF HInv, adaptationVars, rttVars, lossVars, historyVars
<1> QED BY <1>1, <1>2, <1>3, <1>4 DEF HNext

LEMMA InitHInv == HInit => HInv
<1> SUFFICES ASSUME HInit PROVE HInv
  OBVIOUS
<1>1. IInv /\ sample \in Losses
  BY InitIInv DEF HInit
<1>2. /\ rtt_run = 0 /\ calm_run = 0 /\ rtt_high_windows = 0
      /\ healthy_windows = 0 /\ confirmed_rtt_required_level = 0
      /\ loss_candidate_level = 0 /\ loss_run = [l \in {2, 5} |-> 0]
  BY DEF HInit, Init
<1>3. loss_run \in [{2, 5} -> 0..3]
  BY <1>2
<1> QED BY <1>1, <1>2, <1>3, AdaptationAssumption DEF HInv

(* No RTT spike degrades the profile: beyond what the loss asks for, the   *)
(* level rises only in the fifth or a later high-RTT window in a row.      *)
THEOREM RttDegradeAlwaysConfirmed == HSpec => RttDegradeConfirmed
<1>1. HInit => HInv
  BY InitHInv
<1>2. HInv /\ [HNext]_vars => HInv' /\ [ConfirmedStep]_vars
  BY HNextHInv
<1>3. HSpec => [][ConfirmedStep]_vars
  BY <1>1, <1>2, PTL DEF HSpec
<1> QED BY <1>3 DEF ConfirmedStep, RttDegradeConfirmed

(* Loss never enters level 2 or 5 unconfirmed.                             *)
THEOREM LossDegradeAlwaysConfirmed == HSpec => LossDegradeConfirmed
<1>1. HInit => HInv
  BY InitHInv
<1>2. HInv /\ [HNext]_vars => HInv' /\ [LossConfirmedStep]_vars
  BY HNextHInv
<1>3. HSpec => [][LossConfirmedStep]_vars
  BY <1>1, <1>2, PTL DEF HSpec
<1> QED BY <1>3 DEF LossConfirmedStep, LossDegradeConfirmed

(* The level is given back one at a time, each after five calm windows.    *)
THEOREM RecoveryAlwaysEarned == HSpec => RecoveryEarned
<1>1. HInit => HInv
  BY InitHInv
<1>2. HInv /\ [HNext]_vars => HInv' /\ [EarnedStep]_vars
  BY HNextHInv
<1>3. HSpec => [][EarnedStep]_vars
  BY <1>1, <1>2, PTL DEF HSpec
<1> QED BY <1>3 DEF EarnedStep, RecoveryEarned

\* The level that loss enters without any confirmation.
Unconfirmed(loss) ==
  LET raw == LossRequiredLevel(loss)
  IN  IF raw = 2 \/ (raw = 5 /\ loss <= 60) THEN raw - 1 ELSE raw

(* A loss verdict waits for a confirmation one level below, no lower.      *)
LEMMA RequiredAtLeast ==
  ASSUME NEW loss \in 0..100, NEW at \in Levels,
         NEW candidate \in {0, 2, 5}, NEW windows \in 0..3
  PROVE  LossVerdict(loss, at, candidate, windows, TRUE).required >= Unconfirmed(loss)
  BY DEF LossVerdict, LossRequiredLevel, Confirming, Verdict, Levels, Unconfirmed

(* Protection against loss is never late: what needs no confirmation is    *)
(* entered in the same window, whatever confirmations and recoveries were  *)
(* under way.                                                              *)
THEOREM DegradeAlwaysImmediate == HSpec => DegradeImmediate
<1> DEFINE Prompt == cause' = "update" => level' >= Unconfirmed(sample')
<1>1. ASSUME HInv, NEW network \in Networks, HUpdate(network) PROVE Prompt
  <2> DEFINE loss == LossVerdict(network.loss, level, loss_candidate_level,
                                 loss_candidate_windows, TRUE)
             rtt == RttVerdict(network.rtt)
             required == Larger(loss.required, rtt.confirmed)
  <2>1. CASE ~network.valid
    BY <1>1, <2>1 DEF HUpdate
  <2>2. CASE network.valid
    <3>1. network.loss \in 0..100 /\ network.rtt \in Nat
      BY AdaptationAssumption DEF Networks
    <3>2. sample' = network.loss /\ (Degrade(required) \/ Recover(required) \/ Hold(required))
      BY <1>1, <2>2 DEF HUpdate, Update
    <3>3. loss.required \in Levels /\ rtt.confirmed \in {0, 3, 5, 6, 7}
      BY <1>1, <3>1, LossVerdictType, RttVerdictType
      DEF HInv, IInv, TypeOK, LossConfirmationConsistent
    <3>4. loss.required >= Unconfirmed(network.loss)
      BY <1>1, <3>1, RequiredAtLeast DEF HInv, IInv, TypeOK
    <3>5. Unconfirmed(network.loss) \in Int
      BY <3>1, LossLevelType DEF Unconfirmed, Levels
    <3> HIDE DEF loss, rtt
    <3>6. required \in Levels /\ required >= loss.required
      BY <3>3 DEF Larger, Levels
    <3> HIDE DEF required
    <3>7. level' \in Levels /\ level' >= required
      BY <1>1, <3>2, <3>6, MoveType DEF HInv, IInv
    <3> QED BY <3>2, <3>3, <3>4, <3>5, <3>6, <3>7 DEF Levels
  <2> QED BY <2>1, <2>2
<1>2. ASSUME HNext PROVE cause' # "update" \/ \E network \in Networks : HUpdate(network)
  BY <1>2 DEF HNext, HForceEmergency, HResetToNetwork
<1>3. HInit => HInv
  BY InitHInv
<1>4. HInv /\ [HNext]_vars => HInv' /\ [Prompt]_vars
  BY <1>1, <1>2, HNextHInv
<1>5. HSpec => [][Prompt]_vars
  BY <1>3, <1>4, PTL DEF HSpec
<1> QED BY <1>5 DEF DegradeImmediate, Unconfirmed

-----------------------------------------------------------------------------
(* A steady network: the level settles within SettleWindows windows.       *)

\* The level a loss requires of a controller at level `at` once the
\* confirmations are over, and the level the window leads to.
Need(loss, at) == LossVerdict(loss, at, 0, 3, FALSE).required
Final(at) == Larger(Need(steady_network.loss, at),
                    RttRequiredLevel(steady_network.rtt))

\* The losses that must be confirmed to enter level l.
Confirmed(loss, l) == IF l = 5 THEN 55 < loss /\ loss <= 60
                               ELSE 15 < loss /\ loss <= 20

(* The level required only grows with the level held, and not beyond it.   *)
LEMMA NeedMonotone ==
  ASSUME NEW loss \in 0..100, NEW l \in Levels, NEW m \in Levels, l <= m
  PROVE  /\ Need(loss, l) \in Levels
         /\ Need(loss, l) <= Need(loss, m)
         /\ Need(loss, m) <= Need(loss, l) \/ Need(loss, m) <= m
BY DEF Need, LossVerdict, LossRequiredLevel, Confirming, Verdict, Levels

(* A verdict that counts a confirmation asks for less only while the       *)
(* confirmation lasts.                                                     *)
LEMMA VerdictNeeds ==
  ASSUME NEW loss \in 0..100, NEW at \in Levels,
         NEW candidate \in {0, 2, 5}, NEW windows \in 0..3,
         NEW v, v = LossVerdict(loss, at, candidate, windows, TRUE)
  PROVE  /\ v.required <= Need(loss, at)
         /\ v.required < Need(loss, at)
              => \E l \in {2, 5} : Confirmed(loss, l) /\ at < l
         /\ v.required < at => Need(loss, at) < at
BY DEF Need, LossVerdict, LossRequiredLevel, Confirming, Verdict, Levels, Confirmed

RttSettles ==
  LET raw == RttRequiredLevel(steady_network.rtt)
  IN  /\ elapsed > 0 =>
           /\ rtt_candidate_level = raw
           /\ IF raw = 0 THEN confirmed_rtt_required_level = 0
              ELSE rtt_high_windows >= elapsed \/ rtt_high_windows >= 5
      /\ elapsed >= 5 => confirmed_rtt_required_level = raw

LossSettles ==
  \A l \in {2, 5} :
    elapsed > 0 /\ Confirmed(steady_network.loss, l) =>
      \/ level >= l
      \/ loss_candidate_level = l /\ loss_candidate_windows >= elapsed

\* Above the final level each window counts towards coming down; under it the
\* controller is only while it confirms.
LevelSettles ==
  /\ level > Final(level) => elapsed <= 5 * (8 - level) + healthy_windows
  /\ elapsed >= 5 => level >= Final(level)

SettleInv ==
  /\ IInv
  /\ steady_network \in Networks /\ steady_network.valid
  /\ steady \in BOOLEAN
  /\ elapsed \in 0..SettleWindows
  /\ ~steady => elapsed = 0
  /\ RttSettles
  /\ LossSettles
  /\ LevelSettles


\* The two verdicts on a window of the steady network, and the level they lead to.
OnLoss == LossVerdict(steady_network.loss, level, loss_candidate_level,
                      loss_candidate_windows, TRUE)
OnRtt == RttVerdict(steady_network.rtt)
Required == Larger(OnLoss.required, OnRtt.confirmed)
RttLevel == RttRequiredLevel(steady_network.rtt)

LEMMA SettleTypes ==
  ASSUME SettleInv
  PROVE  /\ steady_network.loss \in 0..100
         /\ RttLevel \in {0, 3, 5, 6, 7}
         /\ level \in Levels
         /\ healthy_windows \in 0..4
         /\ loss_candidate_level \in {0, 2, 5}
         /\ loss_candidate_windows \in 0..3
         /\ loss_candidate_windows = 3 => level >= loss_candidate_level
         /\ elapsed \in 0..SettleWindows
         /\ OnLoss.required \in Levels
         /\ OnRtt.confirmed \in {0, 3, 5, 6, 7}
         /\ OnRtt.confirmed <= RttLevel
         /\ Required \in Levels
<1>1. steady_network.loss \in 0..100 /\ steady_network.rtt \in Nat
  BY AdaptationAssumption DEF SettleInv, Networks
<1>2. IInv /\ elapsed \in 0..SettleWindows
  BY DEF SettleInv
<1>3. /\ level \in Levels
      /\ healthy_windows \in 0..4
      /\ loss_candidate_level \in {0, 2, 5}
      /\ loss_candidate_windows \in 0..3
      /\ loss_candidate_level = 0 <=> loss_candidate_windows = 0
      /\ loss_candidate_windows = 3 => level >= loss_candidate_level
  BY <1>2 DEF IInv, TypeOK, LossConfirmationConsistent
<1>4. RttLevel \in {0, 3, 5, 6, 7}
  BY <1>1, RttLevelType DEF RttLevel
<1>5. OnLoss.required \in Levels
  BY <1>1, <1>3, LossVerdictType DEF OnLoss
<1>6. OnRtt.confirmed \in {0, 3, 5, 6, 7} /\ OnRtt.confirmed <= RttLevel
  <2>1. /\ OnRtt.confirmed \in {0, 3, 5, 6, 7}
        /\ OnRtt.confirmed <= OnRtt.candidate
    BY <1>1, <1>2, RttVerdictType DEF OnRtt, IInv
  <2>2. OnRtt.candidate = RttLevel
    BY DEF OnRtt, RttVerdict, RttLevel
  <2> QED BY <2>1, <2>2
<1>7. Required \in Levels
  BY <1>5, <1>6 DEF Required, Larger, Levels
<1> QED BY <1>1, <1>2, <1>3, <1>4, <1>5, <1>6, <1>7

\* What a window of the steady network does, in terms of its two verdicts.
LEMMA WindowMoves ==
  ASSUME SettleInv, Window
  PROVE  /\ loss_candidate_level' = OnLoss.candidate
         /\ loss_candidate_windows' = OnLoss.windows
         /\ rtt_candidate_level' = OnRtt.candidate
         /\ rtt_high_windows' = OnRtt.windows
         /\ confirmed_rtt_required_level' = OnRtt.confirmed
         /\ Degrade(Required) \/ Recover(Required) \/ Hold(Required)
         /\ elapsed' \in 1..SettleWindows
         /\ elapsed' = elapsed + 1 \/ (elapsed' = elapsed /\ elapsed = SettleWindows)
         /\ UNCHANGED <<steady_network, steady>>
<1>1. elapsed \in 0..SettleWindows /\ steady_network.valid
  BY DEF SettleInv
<1>2. Update(steady_network) /\ UNCHANGED <<steady_network, steady>>
  BY DEF Window
<1>3. elapsed' = IF elapsed < SettleWindows THEN elapsed + 1 ELSE elapsed
  BY DEF Window
<1>4. /\ loss_candidate_level' = OnLoss.candidate
      /\ loss_candidate_windows' = OnLoss.windows
      /\ rtt_candidate_level' = OnRtt.candidate
      /\ rtt_high_windows' = OnRtt.windows
      /\ confirmed_rtt_required_level' = OnRtt.confirmed
      /\ Degrade(Required) \/ Recover(Required) \/ Hold(Required)
  BY <1>1, <1>2, Zenon DEF Update, OnLoss, OnRtt, Required
<1>5. /\ elapsed' \in 1..SettleWindows
      /\ elapsed' = elapsed + 1 \/ (elapsed' = elapsed /\ elapsed = SettleWindows)
  BY <1>1, <1>3 DEF SettleWindows
<1> QED BY <1>2, <1>4, <1>5

LEMMA WindowRtt ==
  ASSUME SettleInv, Window
  PROVE  RttSettles'
<1> DEFINE run == IF RttLevel # rtt_candidate_level THEN 1
                  ELSE IF rtt_high_windows < RttWindowBound
                       THEN rtt_high_windows + 1 ELSE rtt_high_windows
           confirmed == IF run >= 5 \/ confirmed_rtt_required_level > RttLevel
                        THEN RttLevel ELSE confirmed_rtt_required_level
<1>1. /\ rtt_candidate_level' = OnRtt.candidate
      /\ rtt_high_windows' = OnRtt.windows
      /\ confirmed_rtt_required_level' = OnRtt.confirmed
      /\ elapsed' \in 1..SettleWindows
      /\ elapsed' = elapsed + 1 \/ (elapsed' = elapsed /\ elapsed = SettleWindows)
      /\ UNCHANGED <<steady_network, steady>>
  BY WindowMoves
<1>2. /\ RttLevel \in {0, 3, 5, 6, 7}
      /\ elapsed \in 0..SettleWindows
  BY SettleTypes
<1>3. /\ rtt_high_windows \in 0..RttWindowBound
      /\ RttSettles
  BY DEF SettleInv, IInv, TypeOK
<1>4. RttLevel' = RttLevel
  BY <1>1 DEF RttLevel
<1>5. OnRtt = IF RttLevel = 0
              THEN [candidate |-> 0, windows |-> 0, confirmed |-> 0]
              ELSE [candidate |-> RttLevel, windows |-> run, confirmed |-> confirmed]
  BY Zenon DEF OnRtt, RttVerdict, RttLevel
<1>6. CASE RttLevel = 0
  <2>1. OnRtt.candidate = 0 /\ OnRtt.confirmed = 0
    BY <1>5, <1>6
  <2> QED BY <1>1, <1>4, <1>6, <2>1 DEF RttSettles, RttLevel
<1>7. CASE RttLevel # 0
  <2>1. OnRtt.candidate = RttLevel /\ OnRtt.windows = run /\ OnRtt.confirmed = confirmed
    BY <1>5, <1>7
  <2>2. elapsed > 0 => /\ RttLevel = rtt_candidate_level
                       /\ rtt_high_windows >= elapsed \/ rtt_high_windows >= 5
    BY <1>3, <1>7 DEF RttSettles, RttLevel
  <2>3. run \in Nat /\ (run >= elapsed' \/ run >= 5)
    BY <1>1, <1>2, <1>3, <2>2, AdaptationAssumption DEF SettleWindows
  <2> HIDE DEF run
  <2>4. elapsed' >= 5 => confirmed = RttLevel
    BY <1>1, <2>3
  <2> HIDE DEF confirmed
  <2> QED BY <1>1, <1>4, <1>7, <2>1, <2>3, <2>4 DEF RttSettles, RttLevel
<1> QED BY <1>6, <1>7

(* Each window of a confirmation counts, until its level is reached.       *)
LEMMA VerdictConfirms ==
  ASSUME steady_network.loss \in 0..100, level \in Levels,
         loss_candidate_level \in {0, 2, 5}, loss_candidate_windows \in 0..3,
         NEW l \in {2, 5}, Confirmed(steady_network.loss, l)
  PROVE  /\ level >= l => OnLoss.required >= l
         /\ ~(level >= l) => /\ OnLoss.candidate = l
                             /\ OnLoss.windows = IF loss_candidate_level = l
                                                 THEN loss_candidate_windows + 1 ELSE 1
BY DEF OnLoss, LossVerdict, LossRequiredLevel, Confirming, Verdict, Levels, Confirmed

LEMMA WindowLoss ==
  ASSUME SettleInv, Window
  PROVE  LossSettles'
<1> SUFFICES ASSUME NEW l \in {2, 5}, Confirmed(steady_network.loss, l)'
             PROVE  \/ level' >= l
                    \/ loss_candidate_level' = l /\ loss_candidate_windows' >= elapsed'
  BY DEF LossSettles
<1>1. /\ loss_candidate_level' = OnLoss.candidate
      /\ loss_candidate_windows' = OnLoss.windows
      /\ Degrade(Required) \/ Recover(Required) \/ Hold(Required)
      /\ elapsed' \in 1..SettleWindows
      /\ elapsed' = elapsed + 1 \/ (elapsed' = elapsed /\ elapsed = SettleWindows)
      /\ steady_network' = steady_network
  BY WindowMoves
<1>2. Confirmed(steady_network.loss, l)
  BY <1>1 DEF Confirmed
<1>3. /\ steady_network.loss \in 0..100
      /\ level \in Levels
      /\ loss_candidate_level \in {0, 2, 5}
      /\ loss_candidate_windows \in 0..3
      /\ loss_candidate_windows = 3 => level >= loss_candidate_level
      /\ elapsed \in 0..SettleWindows
      /\ OnLoss.required \in Levels
      /\ OnRtt.confirmed \in {0, 3, 5, 6, 7}
      /\ Required \in Levels
  BY SettleTypes
<1>4. /\ level >= l => OnLoss.required >= l
      /\ ~(level >= l) => /\ OnLoss.candidate = l
                          /\ OnLoss.windows = IF loss_candidate_level = l
                                              THEN loss_candidate_windows + 1 ELSE 1
  BY <1>2, <1>3, VerdictConfirms, Zenon
<1>5. level' \in Levels /\ level' >= OnLoss.required
  <2>1. level' \in Levels /\ level' >= Required
    BY <1>1, <1>3, MoveType DEF SettleInv, IInv
  <2> QED BY <1>3, <2>1 DEF Required, Larger, Levels
<1>6. CASE level >= l
  BY <1>3, <1>4, <1>5, <1>6 DEF Levels
<1>7. CASE ~(level >= l)
  <2>1. elapsed > 0 => loss_candidate_level = l /\ loss_candidate_windows >= elapsed
    BY <1>2, <1>7 DEF SettleInv, LossSettles
  <2>2. elapsed' = elapsed + 1
    BY <1>1, <1>3, <2>1 DEF SettleWindows
  <2> QED BY <1>1, <1>3, <1>4, <1>7, <2>1, <2>2
<1> QED BY <1>6, <1>7

\* What the level is against before and after a window.
LEMMA FinalFacts ==
  ASSUME SettleInv, NEW at \in Levels
  PROVE  /\ Need(steady_network.loss, at) \in Levels
         /\ Final(at) \in Levels
         /\ Final(at) >= Need(steady_network.loss, at)
         /\ Final(at) >= RttLevel
         /\ Final(at) = Need(steady_network.loss, at) \/ Final(at) = RttLevel
<1>1. steady_network.loss \in 0..100 /\ RttLevel \in {0, 3, 5, 6, 7}
  BY SettleTypes
<1>2. at <= at
  BY DEF Levels
<1>3. Need(steady_network.loss, at) \in Levels
  BY <1>1, <1>2, NeedMonotone
<1> QED BY <1>1, <1>3 DEF Final, Larger, Levels, RttLevel

\* Which way a window moves the level, seen from where it is to end.
LEMMA WindowLevel ==
  ASSUME SettleInv, Window
  PROVE  LevelSettles'
<1>1. /\ confirmed_rtt_required_level' = OnRtt.confirmed
      /\ Degrade(Required) \/ Recover(Required) \/ Hold(Required)
      /\ elapsed' \in 1..SettleWindows
      /\ elapsed' = elapsed + 1 \/ (elapsed' = elapsed /\ elapsed = SettleWindows)
      /\ steady_network' = steady_network
  BY WindowMoves
<1>2. /\ steady_network.loss \in 0..100
      /\ level \in Levels
      /\ healthy_windows \in 0..4
      /\ loss_candidate_level \in {0, 2, 5}
      /\ loss_candidate_windows \in 0..3
      /\ loss_candidate_windows = 3 => level >= loss_candidate_level
      /\ elapsed \in 0..SettleWindows
      /\ OnLoss.required \in Levels
      /\ OnRtt.confirmed \in {0, 3, 5, 6, 7}
      /\ OnRtt.confirmed <= RttLevel
      /\ RttLevel \in {0, 3, 5, 6, 7}
      /\ Required \in Levels
  BY SettleTypes
<1>3. /\ Required >= OnLoss.required /\ Required >= OnRtt.confirmed
      /\ Required = OnLoss.required \/ Required = OnRtt.confirmed
  BY <1>2 DEF Required, Larger, Levels
<1> DEFINE need == Need(steady_network.loss, level)
<1>4. /\ need \in Levels /\ OnLoss.required <= need
      /\ OnLoss.required < need => \E l \in {2, 5} : /\ Confirmed(steady_network.loss, l)
                                                     /\ level < l
      /\ OnLoss.required < level => need < level
  <2>1. OnLoss = LossVerdict(steady_network.loss, level, loss_candidate_level,
                             loss_candidate_windows, TRUE)
    BY DEF OnLoss
  <2> QED BY <1>2, <2>1, VerdictNeeds, FinalFacts
<1>5. elapsed' >= 5 => OnLoss.required = need /\ OnRtt.confirmed = RttLevel
  <2>1. ASSUME elapsed' >= 5 PROVE OnLoss.required = need
    <3>1. elapsed >= 4
      BY <1>1, <1>2, <2>1 DEF SettleWindows
    <3>2. ASSUME NEW l \in {2, 5}, Confirmed(steady_network.loss, l) PROVE level >= l
      <4>1. level >= l \/ loss_candidate_windows >= elapsed
        BY <1>2, <3>1, <3>2 DEF SettleInv, LossSettles
      <4> QED BY <1>2, <3>1, <4>1
    <3>3. ~(OnLoss.required < need)
      BY <1>2, <1>4, <3>2 DEF Levels
    <3> QED BY <1>2, <1>4, <3>3 DEF Levels
  <2>2. ASSUME elapsed' >= 5 PROVE OnRtt.confirmed = RttLevel
    <3>1. RttSettles'
      BY WindowRtt
    <3> QED BY <1>1, <2>2, <3>1 DEF RttSettles, RttLevel
  <2> QED BY <2>1, <2>2
<1>6. level' \in Levels
  BY <1>1, <1>2, MoveType DEF SettleInv, IInv
<1> DEFINE need2 == Need(steady_network.loss, level')
<1>7. /\ Final(level)' = Final(level')
      /\ need2 \in Levels /\ Final(level') \in Levels
      /\ Final(level') >= need2 /\ Final(level') >= RttLevel
      /\ Final(level') = need2 \/ Final(level') = RttLevel
  <2>1. Final(level)' = Final(level')
    BY <1>1 DEF Final
  <2> QED BY <1>6, <2>1, FinalFacts
<1>8. /\ Final(level) \in Levels
      /\ Final(level) = need \/ Final(level) = RttLevel
      /\ Final(level) >= need /\ Final(level) >= RttLevel
  BY <1>2, FinalFacts DEF need
<1>9. /\ level <= level' => need <= need2 /\ (need2 <= need \/ need2 <= level')
      /\ level' <= level => need2 <= need
  BY <1>2, <1>6, NeedMonotone DEF need
<1>10. level > Final(level) => elapsed <= 5 * (8 - level) + healthy_windows
  BY DEF SettleInv, LevelSettles
<1> HIDE DEF need, need2
<1> SUFFICES /\ level' > Final(level') => elapsed' <= 5 * (8 - level') + healthy_windows'
             /\ elapsed' >= 5 => level' >= Final(level')
  BY <1>7 DEF LevelSettles
<1>11. CASE Degrade(Required)
  <2>1. level' = Required /\ level <= level'
    BY <1>2, <1>11 DEF Degrade, Levels
  <2>2. Required <= Final(level')
    BY <1>2, <1>3, <1>4, <1>7, <1>9, <2>1 DEF Levels
  <2>3. elapsed' >= 5 => Final(level') <= level'
    BY <1>2, <1>3, <1>4, <1>5, <1>7, <1>9, <2>1 DEF Levels
  <2> QED BY <1>2, <1>7, <2>1, <2>2, <2>3 DEF Levels
<1>12. CASE Recover(Required)
  <2>1. /\ Required < level
        /\ \/ level' = level - 1 /\ healthy_windows = 4 /\ healthy_windows' = 0
           \/ level' = level /\ healthy_windows' = healthy_windows + 1
    <3>1. /\ Required < level
          /\ \/ /\ healthy_windows + 1 >= 5
                /\ level' = level - 1 /\ healthy_windows' = 0
             \/ level' = level /\ healthy_windows' = healthy_windows + 1
      BY <1>12, Zenon DEF Recover
    <3> QED BY <1>2, <3>1
  <2>2. level' <= level /\ level' >= level - 1
    BY <1>2, <2>1 DEF Levels
  <2>3. need < level
    BY <1>2, <1>3, <1>4, <2>1 DEF Levels
  <2>4. elapsed' >= 5 => level' >= Final(level')
    BY <1>2, <1>3, <1>4, <1>5, <1>6, <1>7, <1>9, <2>1, <2>2, <2>3 DEF Levels
  <2>5. ASSUME level' > Final(level')
        PROVE  elapsed' <= 5 * (8 - level') + healthy_windows'
    <3>1. level > Final(level)
      BY <1>2, <1>6, <1>7, <1>8, <2>2, <2>3, <2>5 DEF Levels
    <3>2. elapsed' <= elapsed + 1
      BY <1>1, <1>2 DEF SettleWindows
    <3> QED BY <1>1, <1>2, <1>10, <2>1, <3>1, <3>2 DEF Levels, SettleWindows
  <2> QED BY <2>4, <2>5
<1>13. CASE Hold(Required)
  <2>1. level' = level /\ Required = level
    BY <1>13 DEF Hold
  <2>2. Required <= Final(level')
    BY <1>2, <1>3, <1>4, <1>7, <1>9, <2>1 DEF Levels
  <2>3. elapsed' >= 5 => Final(level') <= level'
    BY <1>2, <1>3, <1>4, <1>5, <1>7, <1>9, <2>1 DEF Levels
  <2> QED BY <1>2, <1>7, <2>1, <2>2, <2>3 DEF Levels
<1> QED BY <1>1, <1>11, <1>12, <1>13

\* As many windows as a level is above the bottom of the ladder, and no fewer.
LEMMA StepsDown ==
  ASSUME NEW l \in Levels, NEW windows \in 0..4
  PROVE  0 <= 5 * (8 - l) + windows
BY DEF Levels

LEMMA InitSettleInv == SteadyInit => SettleInv
<1> SUFFICES ASSUME SteadyInit PROVE SettleInv
  OBVIOUS
<1>1. IInv
  BY InitIInv DEF SteadyInit
<1>2. level = CapLevel(0) /\ elapsed = 0 /\ steady = FALSE
  BY DEF SteadyInit, Init
<1>3. level \in Levels /\ healthy_windows = 0
  BY <1>1 DEF SteadyInit, Init, IInv, TypeOK
<1>4. elapsed <= 5 * (8 - level) + healthy_windows /\ ~(elapsed >= 5)
  BY <1>2, <1>3 DEF Levels
<1>5. LevelSettles
  BY <1>4 DEF LevelSettles
<1>6. RttSettles /\ LossSettles
  BY <1>2 DEF RttSettles, LossSettles
<1>7. elapsed \in 0..SettleWindows
  BY <1>2 DEF SettleWindows
<1> QED BY <1>1, <1>2, <1>5, <1>6, <1>7, Zenon DEF SteadyInit, SettleInv

LEMMA NextSettleInv == SettleInv /\ [SteadyNext]_steadyVars => SettleInv'
<1> SUFFICES ASSUME SettleInv, [SteadyNext]_steadyVars PROVE SettleInv'
  OBVIOUS
<1>1. CASE Disturbed
  <2>1. elapsed' = 0 /\ steady_network' = steady_network
    BY <1>1, Zenon DEF Disturbed, SettleInv
  <2>2. [Next]_adaptationVars
    BY <1>1 DEF Disturbed, Next
  <2>3. IInv'
    BY <2>2, NextIInv DEF SettleInv
  <2>4. level' \in Levels /\ healthy_windows' \in 0..4
    BY <2>3 DEF IInv, TypeOK
  <2>5. /\ elapsed' <= 5 * (8 - level') + healthy_windows'
        /\ ~(elapsed' >= 5) /\ ~(elapsed' > 0)
    <3>1. 0 <= 5 * (8 - level') + healthy_windows'
      BY <2>4, StepsDown
    <3> QED BY <2>1, <3>1
  <2>6. RttSettles' /\ LossSettles' /\ LevelSettles'
    BY <2>5, Zenon DEF RttSettles, LossSettles, LevelSettles
  <2>7. elapsed' \in 0..SettleWindows
    BY <2>1 DEF SettleWindows
  <2> QED BY <1>1, <2>1, <2>3, <2>6, <2>7, Zenon DEF SettleInv, Disturbed
<1>2. CASE CalmsDown
  <2>1. elapsed' = 0
    BY <1>2, Zenon DEF CalmsDown, SettleInv
  <2>2. UNCHANGED <<adaptationVars, steady_network, elapsed>>
    BY <1>2 DEF CalmsDown
  <2>3. IInv'
    BY <2>2, NextIInv DEF SettleInv
  <2>4. level' \in Levels /\ healthy_windows' \in 0..4
    BY <2>3 DEF IInv, TypeOK
  <2>5. /\ elapsed' <= 5 * (8 - level') + healthy_windows'
        /\ ~(elapsed' >= 5) /\ ~(elapsed' > 0)
    <3>1. 0 <= 5 * (8 - level') + healthy_windows'
      BY <2>4, StepsDown
    <3> QED BY <2>1, <3>1
  <2>6. RttSettles' /\ LossSettles' /\ LevelSettles'
    BY <2>5, Zenon DEF RttSettles, LossSettles, LevelSettles
  <2>7. elapsed' \in 0..SettleWindows
    BY <2>1 DEF SettleWindows
  <2>8. steady' = TRUE
    BY <1>2 DEF CalmsDown
  <2> QED BY <2>2, <2>3, <2>6, <2>7, <2>8, Zenon DEF SettleInv
<1>3. CASE Window
  <2>1. Next
    BY <1>3 DEF Window, Next, SettleInv
  <2>2. IInv'
    BY <2>1, NextIInv DEF SettleInv
  <2>3. RttSettles' /\ LossSettles' /\ LevelSettles'
    BY <1>3, WindowRtt, WindowLoss, WindowLevel
  <2>4. elapsed' \in 1..SettleWindows /\ UNCHANGED <<steady_network, steady>>
    BY <1>3, WindowMoves
  <2>5. steady' = TRUE
    BY <1>3 DEF Window, SettleInv
  <2> QED BY <2>2, <2>3, <2>4, <2>5 DEF SettleInv, SettleWindows
<1>4. CASE UNCHANGED steadyVars
  <2>1. UNCHANGED <<adaptationVars, steady_network, steady, elapsed>>
    BY <1>4 DEF steadyVars
  <2>2. IInv'
    BY <2>1, NextIInv DEF SettleInv
  <2>3. RttSettles' /\ LossSettles' /\ LevelSettles'
    BY <2>1 DEF SettleInv, RttSettles, LossSettles, LevelSettles, adaptationVars,
               rttVars, lossVars, Confirmed, Final, Need
  <2> QED BY <2>1, <2>2, <2>3 DEF SettleInv
<1> QED BY <1>1, <1>2, <1>3, <1>4 DEF SteadyNext

\* After SettleWindows windows the level is the final one.
LEMMA SettledByNow ==
  ASSUME SettleInv, elapsed = SettleWindows
  PROVE  Settled /\ (Window => level' = level)
<1>1. /\ level \in Levels
      /\ healthy_windows \in 0..4
      /\ steady_network.loss \in 0..100
      /\ loss_candidate_level \in {0, 2, 5}
      /\ loss_candidate_windows \in 0..3
      /\ OnLoss.required \in Levels
      /\ RttLevel \in {0, 3, 5, 6, 7}
      /\ elapsed = 40
  BY SettleTypes DEF SettleWindows
<1> DEFINE need == Need(steady_network.loss, level)
<1>2. /\ need \in Levels /\ Final(level) \in Levels
      /\ Final(level) >= need /\ Final(level) >= RttLevel
      /\ Final(level) = need \/ Final(level) = RttLevel
  BY <1>1, FinalFacts
<1>3. level = Final(level)
  <2>1. /\ level > Final(level) => elapsed <= 5 * (8 - level) + healthy_windows
        /\ elapsed >= 5 => level >= Final(level)
    BY DEF SettleInv, LevelSettles
  <2> QED BY <1>1, <1>2, <2>1 DEF Levels
<1>4. /\ OnLoss.required <= need
      /\ OnLoss.required < need => \E l \in {2, 5} : /\ Confirmed(steady_network.loss, l)
                                                     /\ level < l
  <2>1. OnLoss = LossVerdict(steady_network.loss, level, loss_candidate_level,
                             loss_candidate_windows, TRUE)
    BY DEF OnLoss
  <2> QED BY <1>1, <2>1, VerdictNeeds
<1>5. ASSUME NEW l \in {2, 5}, Confirmed(steady_network.loss, l) PROVE level >= l
  BY <1>1, <1>5 DEF SettleInv, LossSettles
<1> HIDE DEF need
<1>6. OnLoss.required = need
  BY <1>1, <1>2, <1>4, <1>5 DEF Levels
<1>7. level = Larger(OnLoss.required, RttLevel)
  BY <1>1, <1>2, <1>3, <1>6 DEF Larger, Levels
<1>8. Settled
  BY <1>7 DEF Settled, OnLoss, RttLevel
<1>9. ASSUME Window PROVE level' = level
  <2>1. /\ confirmed_rtt_required_level' = OnRtt.confirmed
        /\ Degrade(Required) \/ Recover(Required) \/ Hold(Required)
        /\ elapsed' >= 5
        /\ steady_network' = steady_network
    BY <1>1, <1>9, WindowMoves
  <2>2. OnRtt.confirmed = RttLevel
    BY <1>9, <2>1, WindowRtt DEF RttSettles, RttLevel
  <2>3. Required = level
    BY <1>7, <2>2 DEF Required
  <2> QED BY <1>1, <2>1, <2>3 DEF Degrade, Recover, Hold, Levels
<1> QED BY <1>8, <1>9

(* The ladder settles in time: whatever went on before, SettleWindows      *)
(* windows of a steady network bring the level to the one that network     *)
(* requires, for every loss, RTT and confirmation under way, and it stays. *)
THEOREM LadderSettlesInTime == SteadySpec => SettlesInTime
<1> DEFINE Stays == elapsed = SettleWindows => Settled /\ level' = level
<1>1. SteadyInit => SettleInv
  BY InitSettleInv
<1>2. SettleInv /\ [SteadyNext]_steadyVars => SettleInv'
  BY NextSettleInv
<1>3. SettleInv /\ [SteadyNext]_steadyVars => [Stays]_steadyVars
  <2> SUFFICES ASSUME SettleInv, SteadyNext, elapsed = SettleWindows
               PROVE  Settled /\ level' = level
    OBVIOUS
  <2>1. Window
    BY DEF SteadyNext, Disturbed, CalmsDown, SettleInv, SettleWindows
  <2> QED BY <2>1, SettledByNow
<1>4. SteadySpec => [][Stays]_steadyVars
  BY <1>1, <1>2, <1>3, PTL DEF SteadySpec
<1> QED BY <1>4 DEF SettlesInTime
=============================================================================
