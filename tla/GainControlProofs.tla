-------------------------- MODULE GainControlProofs --------------------------
(***************************************************************************)
(* Theorems about GainControl and GainResponse, for every range of levels  *)
(* and every pair of triggers that GainAssumption allows.                  *)
(***************************************************************************)
EXTENDS GainResponse, TLAPS

(***************************************************************************)
(* The levels, the counters and the flags keep their types; in particular  *)
(* the range that GainController::SetGain asserts is never left, by the    *)
(* AGC nor by a key.                                                       *)
(***************************************************************************)
LEMMA TypeStep == TypeOK /\ [Next]_vars => TypeOK'
<1> SUFFICES ASSUME TypeOK, [Next]_vars PROVE TypeOK'
  OBVIOUS
<1> USE GainAssumption DEF TypeOK, Levels, NoKey
<1>1. ASSUME NEW level \in Levels, SetGain(level)
      PROVE  gain' \in Levels
  BY <1>1 DEF SetGain
<1>2. ASSUME NEW low \in Nat, NEW high \in Nat, CountSample(low, high)
      PROVE  lowCnt' \in Nat /\ highCnt' \in Nat /\ sampleCnt' \in Nat
  BY <1>2 DEF CountSample
<1>3. ASSUME NEW amplitude \in Amplitudes, Sample(amplitude) PROVE TypeOK'
  <2>1. CASE ~agcEnabled
    BY <1>3, <2>1 DEF Sample, agcVars
  <2>2. CASE agcEnabled /\ amplitude = "low"
    <3>1. InspectLow
      BY <1>3, <2>2 DEF Sample, InspectSignalAmplitude
    <3>2. gain' \in Levels
      BY <3>1 DEF InspectLow, ControllerIncrease, SetGain, agcVars
    <3>3. lowCnt' \in Nat /\ highCnt' \in Nat /\ sampleCnt' \in Nat
      BY <3>1 DEF InspectLow, CountSample, agcVars
    <3>4. agcGain' \in Levels
      BY <3>1 DEF InspectLow, agcVars
    <3>. QED BY <1>3, <3>2, <3>3, <3>4 DEF Sample
  <2>3. CASE agcEnabled /\ amplitude = "high"
    <3>1. InspectHigh
      BY <1>3, <2>3 DEF Sample, InspectSignalAmplitude
    <3>2. gain' \in Levels
      BY <3>1 DEF InspectHigh, ControllerDecrease, SetGain, agcVars
    <3>3. lowCnt' \in Nat /\ highCnt' \in Nat /\ sampleCnt' \in Nat
      BY <3>1 DEF InspectHigh, CountSample, agcVars
    <3>4. agcGain' \in Levels
      BY <3>1 DEF InspectHigh, agcVars
    <3>. QED BY <1>3, <3>2, <3>3, <3>4 DEF Sample
  <2>4. CASE agcEnabled /\ amplitude = "inRange"
    <3>1. InspectInRange
      BY <1>3, <2>4 DEF Sample, InspectSignalAmplitude
    <3>. QED BY <1>3, <3>1 DEF Sample, InspectInRange, CountSample
  <2>. QED BY <1>3, <2>1, <2>2, <2>3, <2>4 DEF Amplitudes
<1>4. CASE Key
  <2>1. CASE IncreaseGain
    BY <2>1 DEF IncreaseGain, PressGainKey, agcVars
  <2>2. CASE DecreaseGain
    BY <2>2 DEF DecreaseGain, PressGainKey, agcVars
  <2>3. CASE KeyStoresLevel
    BY <2>3 DEF KeyStoresLevel, agcVars
  <2>4. CASE DisableAGC
    BY <2>4 DEF DisableAGC, agcVars
  <2>. QED BY <1>4, <2>1, <2>2, <2>3, <2>4 DEF Key
<1>5. CASE Life
  <2>0. CASE ResumeTasks
    BY <2>0 DEF ResumeTasks, agcVars, Phases
  <2>1. CASE Enable
    BY <2>1 DEF Enable, SetGain, agcVars, Phases
  <2>2. CASE Disable
    BY <2>2 DEF Disable, SetGain, agcVars, Phases
  <2>3. CASE StartAdc
    BY <2>3 DEF StartAdc, agcVars, Phases
  <2>4. CASE StopAdc
    BY <2>4 DEF StopAdc, agcVars, Phases
  <2>5. CASE EnterNormalMode
    BY <2>5 DEF EnterNormalMode, agcVars
  <2>6. CASE EnterCalibrationMode
    <3>1. MinGain \in Levels
      OBVIOUS
    <3>2. SetGain(MinGain) /\ UNCHANGED <<agcVars, phase, key>>
          /\ mode' = "Calibration" /\ agcEnabled' = FALSE
      BY <2>6 DEF EnterCalibrationMode
    <3>. QED BY <1>1, <3>1, <3>2 DEF agcVars
  <2>7. ASSUME NEW level \in Levels, SelectCalibrationLevel(level) PROVE TypeOK'
    BY <2>7 DEF SelectCalibrationLevel, SetGain, agcVars
  <2>. QED BY <1>5, <2>0, <2>1, <2>2, <2>3, <2>4, <2>5, <2>6, <2>7 DEF Life
<1>6. CASE UNCHANGED vars
  BY <1>6 DEF vars, agcVars
<1>. QED BY <1>3, <1>4, <1>5, <1>6 DEF Next

LEMMA TypeInit == Init => TypeOK
BY GainAssumption DEF Init, TypeOK, Levels, NoKey, Phases

THEOREM TypeCorrect == Spec => []TypeOK
BY TypeInit, TypeStep, PTL DEF Spec

-----------------------------------------------------------------------------
(***************************************************************************)
(* Only a sample handled with the AGC on changes the AGC's own state.      *)
(***************************************************************************)
LEMMA OthersKeepAgc ==
  ASSUME Key \/ Life \/ UNCHANGED vars
  PROVE  UNCHANGED agcVars
BY DEF Key, IncreaseGain, DecreaseGain, PressGainKey, KeyStoresLevel,
       DisableAGC, Life, ResumeTasks, Enable, Disable, StartAdc,
       StopAdc, EnterNormalMode, EnterCalibrationMode, SelectCalibrationLevel, vars, agcVars

(***************************************************************************)
(* What counting one sample does to the counters: either the window ends   *)
(* and all of them are 0, or they are the ones given and the window grows. *)
(***************************************************************************)
LEMMA CountSampleBounds ==
  ASSUME TypeOK,
         NEW low \in Nat, NEW high \in Nat, CountSample(low, high),
         low < LowTrigger, high < HighTrigger, low + high <= sampleCnt + 1
  PROVE  CountersBelowTriggers'
BY GainAssumption DEF TypeOK, CountSample, CountersBelowTriggers

LEMMA CountersStep == TypeOK /\ CountersBelowTriggers /\ [Next]_vars => CountersBelowTriggers'
<1> SUFFICES ASSUME TypeOK, CountersBelowTriggers, [Next]_vars
             PROVE  CountersBelowTriggers'
  OBVIOUS
<1>1. ASSUME NEW amplitude \in Amplitudes, Sample(amplitude)
      PROVE  CountersBelowTriggers'
  <2>1. lowCnt \in Nat /\ highCnt \in Nat /\ sampleCnt \in Nat
        /\ LowTrigger \in Nat \ {0} /\ HighTrigger \in Nat \ {0}
    BY GainAssumption DEF TypeOK
  <2>2. CASE UNCHANGED agcVars
    BY <2>2 DEF agcVars, CountersBelowTriggers
  <2>3. ASSUME InspectLow, agcGain # MaxGain PROVE CountersBelowTriggers'
    <3>1. CASE lowCnt + 1 >= LowTrigger
      <4>1. CountSample(0, highCnt)
        BY <2>3, <3>1 DEF InspectLow
      <4>. QED BY <2>1, <4>1, CountSampleBounds DEF CountersBelowTriggers
    <3>2. CASE ~(lowCnt + 1 >= LowTrigger)
      <4>1. CountSample(lowCnt + 1, highCnt)
        BY <2>3, <3>2 DEF InspectLow
      <4>2. lowCnt + 1 \in Nat /\ lowCnt + 1 < LowTrigger
            /\ lowCnt + 1 + highCnt <= sampleCnt + 1
        BY <2>1, <3>2 DEF CountersBelowTriggers
      <4>. QED BY <2>1, <4>1, <4>2, CountSampleBounds DEF CountersBelowTriggers
    <3>. QED BY <3>1, <3>2
  <2>4. ASSUME InspectHigh, agcGain # MinGain PROVE CountersBelowTriggers'
    <3>1. CASE highCnt + 1 >= HighTrigger
      <4>1. CountSample(lowCnt, 0)
        BY <2>4, <3>1 DEF InspectHigh
      <4>. QED BY <2>1, <4>1, CountSampleBounds DEF CountersBelowTriggers
    <3>2. CASE ~(highCnt + 1 >= HighTrigger)
      <4>1. CountSample(lowCnt, highCnt + 1)
        BY <2>4, <3>2 DEF InspectHigh
      <4>2. highCnt + 1 \in Nat /\ highCnt + 1 < HighTrigger
            /\ lowCnt + (highCnt + 1) <= sampleCnt + 1
        BY <2>1, <3>2 DEF CountersBelowTriggers
      <4>. QED BY <2>1, <4>1, <4>2, CountSampleBounds DEF CountersBelowTriggers
    <3>. QED BY <3>1, <3>2
  <2>5. ASSUME InspectInRange PROVE CountersBelowTriggers'
    BY <2>1, <2>5, CountSampleBounds DEF InspectInRange, CountersBelowTriggers
  <2>6. CASE agcEnabled /\ amplitude = "low"
    BY <1>1, <2>2, <2>3, <2>6 DEF Sample, InspectSignalAmplitude, InspectLow
  <2>7. CASE agcEnabled /\ amplitude = "high"
    BY <1>1, <2>2, <2>4, <2>7 DEF Sample, InspectSignalAmplitude, InspectHigh
  <2>8. CASE agcEnabled /\ amplitude = "inRange"
    BY <1>1, <2>5, <2>8 DEF Sample, InspectSignalAmplitude
  <2>9. CASE ~agcEnabled
    BY <1>1, <2>2, <2>9 DEF Sample
  <2>. QED BY <2>6, <2>7, <2>8, <2>9 DEF Amplitudes
<1>2. CASE Key \/ Life \/ UNCHANGED vars
  BY <1>2, OthersKeepAgc DEF agcVars, CountersBelowTriggers
<1>. QED BY <1>1, <1>2 DEF Next

(***************************************************************************)
(* The AGC's counters stay below their triggers and within their window.   *)
(***************************************************************************)
THEOREM CountersStayBelow == Spec => []CountersBelowTriggers
<1>1. Init => CountersBelowTriggers
  BY GainAssumption DEF Init, CountersBelowTriggers
<1>. QED BY <1>1, TypeCorrect, CountersStep, PTL DEF Spec

-----------------------------------------------------------------------------
(***************************************************************************)
(* The AGC in the meter, with the observers of GainResponse.  A counter of *)
(* low samples that is larger than the low samples since the last (last    *)
(* but one) sample in range must share its window with that sample (those  *)
(* two): the window then has no room left for the trigger to be reached.   *)
(***************************************************************************)
LowSinceType == lowSince \in Nat \X Nat

WindowHoldsInRange ==
  /\ lowCnt <= lowSince[1] \/ lowCnt + 1 <= sampleCnt
  /\ lowCnt <= lowSince[2] \/ lowCnt + 2 <= sampleCnt

SteadyInv == TypeOK /\ CountersBelowTriggers /\ LowSinceType /\ WindowHoldsInRange

LEMMA ObservedStepIsStep == [InMeterNext]_observed => [Next]_vars
BY DEF InMeterNext, AloneNext, ObservedSample, ObservedOther, observed, Next

LEMMA SteadyStep == SteadyInv /\ [InMeterNext]_observed => SteadyInv'
<1> SUFFICES ASSUME SteadyInv, [InMeterNext]_observed
             PROVE  LowSinceType' /\ WindowHoldsInRange'
  BY ObservedStepIsStep, TypeStep, CountersStep DEF SteadyInv
<1> USE DEF SteadyInv
<1>1. CASE ObservedOther \/ UNCHANGED observed
  <2>1. UNCHANGED <<agcVars, lowSince>>
    BY <1>1, OthersKeepAgc DEF ObservedOther, observed
  <2>. QED BY <2>1 DEF agcVars, LowSinceType, WindowHoldsInRange
<1>2. ASSUME NEW amplitude \in Amplitudes, ObservedSample(amplitude)
      PROVE  LowSinceType' /\ WindowHoldsInRange'
  <2>1. /\ lowCnt \in Nat /\ highCnt \in Nat /\ sampleCnt \in Nat
        /\ LowTrigger \in Nat \ {0} /\ lowCnt < LowTrigger /\ lowCnt <= sampleCnt
        /\ lowSince[1] \in Nat /\ lowSince[2] \in Nat
    BY GainAssumption DEF TypeOK, CountersBelowTriggers, LowSinceType
  <2>2. CASE ~agcEnabled
    BY <1>2, <2>2 DEF ObservedSample, Sample, agcVars, LowSinceType, WindowHoldsInRange
  <2>3. CASE agcEnabled /\ amplitude = "low"
    <3>1. lowSince' = <<UpToTrigger(lowSince[1]), UpToTrigger(lowSince[2])>>
      BY <1>2, <2>3 DEF ObservedSample
    <3>2. /\ lowSince'[1] = UpToTrigger(lowSince[1])
          /\ lowSince'[2] = UpToTrigger(lowSince[2])
          /\ LowSinceType'
      BY <2>1, <3>1 DEF LowSinceType, UpToTrigger
    <3>3. InspectLow
      BY <1>2, <2>3 DEF ObservedSample, Sample, InspectSignalAmplitude
    <3>4. \/ UNCHANGED agcVars
          \/ lowCnt' = 0
          \/ /\ lowCnt' = lowCnt + 1 /\ sampleCnt' = sampleCnt + 1
             /\ lowCnt + 1 < LowTrigger
      BY <2>1, <3>3 DEF InspectLow, CountSample
    <3>. QED BY <2>1, <3>2, <3>4 DEF agcVars, UpToTrigger, WindowHoldsInRange
  <2>4. CASE agcEnabled /\ amplitude = "inRange"
    <3>1. lowSince' = <<0, lowSince[1]>>
      BY <1>2, <2>4 DEF ObservedSample
    <3>2. lowSince'[1] = 0 /\ lowSince'[2] = lowSince[1] /\ LowSinceType'
      BY <2>1, <3>1 DEF LowSinceType
    <3>3. \/ lowCnt' = 0
          \/ lowCnt' = lowCnt /\ sampleCnt' = sampleCnt + 1
      BY <1>2, <2>4 DEF ObservedSample, Sample, InspectSignalAmplitude, InspectInRange,
                        CountSample
    <3>. QED BY <2>1, <3>2, <3>3 DEF WindowHoldsInRange
  <2>5. CASE agcEnabled /\ amplitude = "high"
    <3>1. lowSince' = lowSince
      BY <1>2, <2>5 DEF ObservedSample
    <3>2. InspectHigh
      BY <1>2, <2>5 DEF ObservedSample, Sample, InspectSignalAmplitude
    <3>3. \/ UNCHANGED agcVars
          \/ lowCnt' = 0
          \/ lowCnt' = lowCnt /\ sampleCnt' = sampleCnt + 1
      BY <3>2 DEF InspectHigh, CountSample
    <3>. QED BY <2>1, <3>1, <3>3 DEF agcVars, LowSinceType, WindowHoldsInRange
  <2>. QED BY <2>2, <2>3, <2>4, <2>5 DEF Amplitudes
<1>. QED BY <1>1, <1>2 DEF InMeterNext, AloneNext

LEMMA SteadyInit == ResponseInit => SteadyInv
<1> SUFFICES ASSUME ResponseInit PROVE SteadyInv
  OBVIOUS
<1>1. TypeOK /\ CountersBelowTriggers
  BY TypeInit, GainAssumption DEF ResponseInit, Init, CountersBelowTriggers
<1>2. lowSince = <<0, 0>> /\ lowCnt = 0
  BY DEF ResponseInit, Init
<1>. QED BY <1>1, <1>2 DEF SteadyInv, LowSinceType, WindowHoldsInRange

(***************************************************************************)
(* Whatever the keys and the sensor's life do to it, the AGC raises its    *)
(* level only on LowTrigger too-low samples since the last but one sample  *)
(* in range.                                                               *)
(***************************************************************************)
THEOREM RiseIsSteady == InMeterSpec => RiseNeedsSteadyLow
<1>1. ResponseInit => SteadyInv
  BY SteadyInit
<1>2. SteadyInv /\ [InMeterNext]_observed
      => [agcGain' > agcGain => lowSince[2] + 1 >= LowTrigger]_observed
  <2> SUFFICES ASSUME SteadyInv, [InMeterNext]_observed, agcGain' > agcGain
               PROVE  lowSince[2] + 1 >= LowTrigger
    OBVIOUS
  <2>1. agcGain \in Int
    BY GainAssumption DEF SteadyInv, TypeOK, Levels
  <2>2. PICK amplitude \in Amplitudes : ObservedSample(amplitude)
    <3>1. ~UNCHANGED agcVars
      BY <2>1 DEF agcVars
    <3>. QED BY <3>1, OthersKeepAgc DEF InMeterNext, AloneNext, ObservedOther, observed
  <2>3. InspectLow
    BY <2>1, <2>2 DEF ObservedSample, Sample, InspectSignalAmplitude, InspectHigh,
                      InspectInRange, Amplitudes, agcVars
  <2>4. lowCnt + 1 >= LowTrigger
    BY <2>1, <2>3 DEF InspectLow, agcVars
  <2>. QED BY <2>4, GainAssumption DEF SteadyInv, TypeOK, CountersBelowTriggers, LowSinceType,
                                   WindowHoldsInRange
<1>. QED BY <1>1, <1>2, SteadyStep, PTL DEF InMeterSpec, RiseNeedsSteadyLow
-----------------------------------------------------------------------------
(***************************************************************************)
(* A series of low samples lies in one window, and the counter of low      *)
(* samples has counted all of it; or it began in a window that ended since *)
(* (whose last sample no counter kept), and then the new window has low    *)
(* samples only.                                                           *)
(***************************************************************************)
StarvedInv ==
  /\ starved \in Nat
  /\ agcGain = gain =>
       \/ starved <= lowCnt
       \/ sampleCnt = lowCnt /\ starved <= lowCnt + LowTrigger

LEMMA StarvedStep == SteadyInv /\ StarvedInv /\ [InMeterNext]_observed => StarvedInv'
<1> SUFFICES ASSUME SteadyInv, StarvedInv, [InMeterNext]_observed PROVE StarvedInv'
  OBVIOUS
<1>1. CASE UNCHANGED observed
  BY <1>1 DEF observed, vars, agcVars, StarvedInv
<1>2. /\ lowCnt \in Nat /\ highCnt \in Nat /\ sampleCnt \in Nat
      /\ LowTrigger \in Nat \ {0} /\ HighTrigger \in Nat \ {0} /\ HighTrigger <= LowTrigger
      /\ lowCnt < LowTrigger /\ lowCnt <= sampleCnt /\ sampleCnt <= LowTrigger
      /\ gain \in Int /\ agcGain \in Int /\ MaxGain \in Int /\ starved \in Nat
      /\ lowCnt' \in Nat /\ StarvationLimit \in Nat
  <2>1. TypeOK /\ TypeOK' /\ CountersBelowTriggers
    BY ObservedStepIsStep, TypeStep DEF SteadyInv
  <2>. QED BY <2>1, GainAssumption DEF TypeOK, CountersBelowTriggers, Levels, StarvedInv,
                                       StarvationLimit
<1>3. CASE starved' = 0
  <2>1. starved' \in Nat /\ starved' <= lowCnt'
    BY <1>2, <1>3
  <2>. QED BY <2>1 DEF StarvedInv
<1>4. CASE ~UNCHANGED observed /\ starved' # 0
  <2>1. PICK amplitude \in Amplitudes : ObservedSample(amplitude)
    BY <1>4 DEF InMeterNext, AloneNext, ObservedOther
  <2>2. /\ amplitude = "low" /\ agcEnabled /\ gain < MaxGain /\ gain' = gain
        /\ starved' = starved + 1 \/ starved' = starved
    BY <1>4, <2>1 DEF ObservedSample
  <2>3. InspectLow
    BY <2>1, <2>2 DEF ObservedSample, Sample, InspectSignalAmplitude
  <2>4. CASE agcGain # gain
    <3>1. agcGain' # gain'
      <4>1. CASE agcGain' = agcGain
        BY <2>2, <2>4, <4>1
      <4>2. CASE agcGain' # agcGain
        <5>1. ControllerIncrease
          BY <2>3, <4>2 DEF InspectLow, agcVars
        <5>. QED BY <1>2, <2>2, <5>1 DEF ControllerIncrease, SetGain
      <4>. QED BY <4>1, <4>2
    <3>. QED BY <1>2, <2>2, <3>1 DEF StarvedInv
  <2>5. CASE agcGain = gain
    <3>1. lowCnt + 1 < LowTrigger /\ CountSample(lowCnt + 1, highCnt)
      <4>1. ~ControllerIncrease
        BY <1>2, <2>2 DEF ControllerIncrease, SetGain
      <4>. QED BY <1>2, <2>2, <2>3, <2>5, <4>1 DEF InspectLow
    <3>2. starved <= lowCnt \/ (sampleCnt = lowCnt /\ starved <= lowCnt + LowTrigger)
      BY <2>5 DEF StarvedInv
    <3>3. CASE sampleCnt + 1 > LowTrigger
      <4>1. lowCnt' = 0 /\ sampleCnt' = 0
        BY <1>2, <3>1, <3>3 DEF CountSample
      <4>2. starved <= lowCnt
        BY <1>2, <3>1, <3>2, <3>3
      <4>. QED BY <1>2, <2>2, <3>1, <4>1, <4>2 DEF StarvedInv
    <3>4. CASE ~(sampleCnt + 1 > LowTrigger)
      <4>1. lowCnt' = lowCnt + 1 /\ sampleCnt' = sampleCnt + 1
        BY <1>2, <3>1, <3>4 DEF CountSample
      <4>. QED BY <1>2, <2>2, <3>2, <4>1 DEF StarvedInv
    <3>. QED BY <3>3, <3>4
  <2>. QED BY <2>4, <2>5
<1>. QED BY <1>1, <1>3, <1>4

(***************************************************************************)
(* The AGC's answer is bounded, whatever happened before: as long as its   *)
(* level is the controller's, a signal that stays too low raises the level *)
(* after less than two windows of samples.                                 *)
(***************************************************************************)
THEOREM KnownLevelRisesInTime == InMeterSpec => []KnownLevelRises
<1>1. ResponseInit => StarvedInv
  BY DEF ResponseInit, Init, StarvedInv
<1>2. SteadyInv /\ StarvedInv => KnownLevelRises
  BY GainAssumption DEF SteadyInv, TypeOK, CountersBelowTriggers, StarvedInv, KnownLevelRises,
                        LowSignalRaisesGain, StarvationLimit
<1>. QED BY <1>1, <1>2, SteadyInit, SteadyStep, StarvedStep, PTL DEF InMeterSpec

=============================================================================
