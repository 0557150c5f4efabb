----------------------------- MODULE GainControl -----------------------------
(***************************************************************************)
(* The gain path of one measuring sensor: GainController (the level),      *)
(* AutomaticGainController (the AGC, which keeps a level of its own),      *)
(* AmplifierController (which joins them) and the operations of            *)
(* SensorController that touch them.  What a level's functor programs, the *)
(* preamplifier's pins and the gain of the ADC the sensors share, is in    *)
(* ClampMeterDriver.                                                       *)
(*                                                                         *)
(* Two tasks act here.  The sensor's input task (priority 4) forwards      *)
(* every ADC sample to the AGC and is never preempted by the other one, so *)
(* handling a sample is one step.  The keyboard task (priority 2) changes  *)
(* the level with the gain keys and can be preempted by the input task     *)
(* between any two statements, so a gain key reads the level in one step   *)
(* and stores the new one in another.                                      *)
(***************************************************************************)
EXTENDS Integers

CONSTANTS
  MinGain, MaxGain,   \* range of levels, 1 and 10 for the shunt and the clamp
  LowTrigger,         \* too-low samples that raise the level, 500
  HighTrigger         \* too-high samples that lower it, 50

ASSUME GainAssumption ==
  /\ MinGain \in Int /\ MaxGain \in Int /\ MinGain <= MaxGain
  /\ HighTrigger \in Nat \ {0} /\ LowTrigger \in Nat \ {0}
  /\ HighTrigger <= LowTrigger

VARIABLES
  gain,        \* GainController.gain
  agcGain,     \* AutomaticGainController.gain
  lowCnt,      \* amplitudeTooLowCounter
  highCnt,     \* amplitudeTooHighCounter
  sampleCnt,   \* sampleCounter
  agcEnabled,  \* AmplifierController.agcIsEnabled
  mode,        \* SensorController.mode
  phase,       \* where the input task is, see Phases
  key          \* the gain key being handled: whether there is one, and its target level

agcVars == <<agcGain, lowCnt, highCnt, sampleCnt>>
vars == <<gain, agcVars, agcEnabled, mode, phase, key>>

Levels == MinGain .. MaxGain
Amplitudes == {"low", "inRange", "high"}
NoKey == [at |-> "idle", level |-> MinGain]

\* The input task is created suspended and first runs when the sensor is enabled;
\* suspended again while it waits in Receive, it leaves Receive when it is resumed,
\* with an array nothing was written to ("flushing": a block of arbitrary values).
Phases == {"created", "suspended", "flushing", "resumed", "measuring"}

TypeOK ==
  /\ gain \in Levels /\ agcGain \in Levels
  /\ lowCnt \in Nat /\ highCnt \in Nat /\ sampleCnt \in Nat
  /\ agcEnabled \in BOOLEAN
  /\ mode \in {"Normal", "Calibration"}
  /\ phase \in Phases
  /\ key \in [at : {"idle", "store"}, level : Levels]

Init ==
  /\ gain = MinGain
  /\ agcGain = MinGain
  /\ lowCnt = 0 /\ highCnt = 0 /\ sampleCnt = 0
  /\ agcEnabled = TRUE
  /\ mode = "Normal"
  /\ phase = "created"
  /\ key = NoKey

-----------------------------------------------------------------------------
\* GainController

\* SetGain, when nothing preempts it.
SetGain(level) == gain' = level

ControllerIncrease == IF gain < MaxGain THEN SetGain(gain + 1) ELSE UNCHANGED gain

\* Mutant of ControllerDecrease: the controller is not told.
ControllerNotTold == UNCHANGED gain

ControllerDecrease == IF gain > MinGain THEN SetGain(gain - 1) ELSE UNCHANGED gain

-----------------------------------------------------------------------------
\* AutomaticGainController

\* Mutant of CountSample: "or" for "and" between the two triggers.
CountSampleShortWindow(low, high) ==
  IF sampleCnt + 1 > HighTrigger \/ sampleCnt + 1 > LowTrigger
  THEN lowCnt' = 0 /\ highCnt' = 0 /\ sampleCnt' = 0
  ELSE lowCnt' = low /\ highCnt' = high /\ sampleCnt' = sampleCnt + 1

\* Mutant of CountSample: the reset forgets the counter of low samples.
CountSampleKeepsLow(low, high) ==
  IF sampleCnt + 1 > HighTrigger /\ sampleCnt + 1 > LowTrigger
  THEN lowCnt' = low /\ highCnt' = 0 /\ sampleCnt' = 0
  ELSE lowCnt' = low /\ highCnt' = high /\ sampleCnt' = sampleCnt + 1

\* The end of InspectSignalAmplitude: the window of samples is one longer than
\* the larger trigger, then every counter starts again.
CountSample(low, high) ==
  IF sampleCnt + 1 > HighTrigger /\ sampleCnt + 1 > LowTrigger
  THEN lowCnt' = 0 /\ highCnt' = 0 /\ sampleCnt' = 0
  ELSE lowCnt' = low /\ highCnt' = high /\ sampleCnt' = sampleCnt + 1

\* The AGC compares its own level with its own limits, and calls the controller.
InspectLow ==
  IF agcGain = MaxGain THEN UNCHANGED <<agcVars, gain>>
  ELSE IF lowCnt + 1 >= LowTrigger
  THEN /\ ControllerIncrease
       /\ agcGain' = agcGain + 1
       /\ CountSample(0, highCnt)
  ELSE /\ CountSample(lowCnt + 1, highCnt)
       /\ UNCHANGED <<agcGain, gain>>

InspectHigh ==
  IF agcGain = MinGain THEN UNCHANGED <<agcVars, gain>>
  ELSE IF highCnt + 1 >= HighTrigger
  THEN /\ ControllerDecrease
       /\ agcGain' = agcGain - 1
       /\ CountSample(lowCnt, 0)
  ELSE /\ CountSample(lowCnt, highCnt + 1)
       /\ UNCHANGED <<agcGain, gain>>

\* Mutant of InspectInRange: an early return for a sample in range.
InspectInRangeUncounted == UNCHANGED <<agcVars, gain>>

InspectInRange ==
  /\ CountSample(lowCnt, highCnt)
  /\ UNCHANGED <<agcGain, gain>>

InspectSignalAmplitude(amplitude) ==
  CASE amplitude = "low" -> InspectLow
    [] amplitude = "high" -> InspectHigh
    [] OTHER -> InspectInRange

-----------------------------------------------------------------------------
\* The input task: one value (its magnitude) of a block of ADC samples, or of the
\* block that was never written.

Sample(amplitude) ==
  /\ phase \in {"flushing", "measuring"}
  /\ IF agcEnabled THEN InspectSignalAmplitude(amplitude)
                   ELSE UNCHANGED <<agcVars, gain>>
  /\ UNCHANGED <<agcEnabled, mode, phase, key>>

-----------------------------------------------------------------------------
\* The keyboard task on the measurement page.  The level is read once, the functor of
\* the new one programs the hardware, and only then is the new level stored; samples
\* may be handled in between.

PressGainKey(level) ==
  /\ key.at = "idle" /\ phase # "flushing"
  /\ key' = [at |-> "store", level |-> level]
  /\ UNCHANGED <<gain, agcVars, agcEnabled, mode, phase>>

\* Mutant of IncreaseGain: the limit is not checked.
IncreaseGainUnchecked == PressGainKey(gain + 1)

IncreaseGain == gain < MaxGain /\ PressGainKey(gain + 1)
DecreaseGain == gain > MinGain /\ PressGainKey(gain - 1)

KeyStoresLevel ==
  /\ key.at = "store"
  /\ gain' = key.level
  /\ key' = NoKey
  /\ UNCHANGED <<agcVars, agcEnabled, mode, phase>>

DisableAGC ==
  /\ key.at = "idle" /\ phase # "flushing"
  /\ agcEnabled' = FALSE
  /\ UNCHANGED <<gain, agcVars, mode, phase, key>>

-----------------------------------------------------------------------------
\* The sensor's life as ClampMeterDriver drives it.  The ADC is stopped, so each
\* operation is one step but Enable, which lets the input task run first.

\* ResumeTasks, of an input task that waits in Receive.
ResumeTasks ==
  /\ key.at = "idle" /\ phase = "suspended"
  /\ phase' = "flushing"
  /\ UNCHANGED <<gain, agcVars, agcEnabled, mode, key>>

\* The rest of Enable: only the normal mode sets the level and the AGC.
Enable ==
  /\ key.at = "idle" /\ phase \in {"created", "flushing"}
  /\ phase' = "resumed"
  /\ agcEnabled' = (mode = "Normal")
  /\ IF mode = "Normal" THEN SetGain(MinGain) ELSE UNCHANGED gain
  /\ UNCHANGED <<agcVars, mode, key>>

\* SensorController::Disable: the AGC keeps its level and its counters.
Disable ==
  /\ key.at = "idle" /\ phase \in {"created", "suspended", "resumed"}
  /\ phase' = IF phase = "created" THEN "created" ELSE "suspended"
  /\ SetGain(MinGain)
  /\ UNCHANGED <<agcVars, agcEnabled, mode, key>>

StartAdc ==
  /\ key.at = "idle" /\ phase = "resumed"
  /\ phase' = "measuring"
  /\ UNCHANGED <<gain, agcVars, agcEnabled, mode, key>>

StopAdc ==
  /\ key.at = "idle" /\ phase = "measuring"
  /\ phase' = "resumed"
  /\ UNCHANGED <<gain, agcVars, agcEnabled, mode, key>>

\* StartNormalModeOperation sets every sensor's mode.
EnterNormalMode ==
  /\ key.at = "idle" /\ phase \in {"created", "suspended", "resumed"}
  /\ mode' = "Normal"
  /\ agcEnabled' = TRUE
  /\ UNCHANGED <<gain, agcVars, phase, key>>

\* StartCalibration sets every sensor's mode and level.
EnterCalibrationMode ==
  /\ key.at = "idle" /\ phase \in {"created", "suspended", "resumed"}
  /\ mode' = "Calibration"
  /\ agcEnabled' = FALSE
  /\ SetGain(MinGain)
  /\ UNCHANGED <<agcVars, phase, key>>

\* The opening of CalibrateSensor, on the sensor it has just enabled.
SelectCalibrationLevel(level) ==
  /\ key.at = "idle" /\ phase = "resumed"
  /\ mode' = "Calibration"
  /\ agcEnabled' = FALSE
  /\ SetGain(level)
  /\ UNCHANGED <<agcVars, phase, key>>

-----------------------------------------------------------------------------
Key ==
  \/ IncreaseGain \/ DecreaseGain \/ KeyStoresLevel \/ DisableAGC

Life ==
  \/ ResumeTasks \/ Enable \/ Disable \/ StartAdc \/ StopAdc
  \/ EnterNormalMode \/ EnterCalibrationMode
  \/ \E level \in Levels : SelectCalibrationLevel(level)

Next == (\E amplitude \in Amplitudes : Sample(amplitude)) \/ Key \/ Life

Spec == Init /\ [][Next]_vars

-----------------------------------------------------------------------------
\* The counters of the AGC stay below the values that trigger a change, whatever
\* early return InspectSignalAmplitude takes, and together they never count more
\* than the window they belong to.
CountersBelowTriggers ==
  /\ lowCnt < LowTrigger /\ highCnt < HighTrigger
  /\ lowCnt + highCnt <= sampleCnt
  /\ sampleCnt <= LowTrigger
=============================================================================
