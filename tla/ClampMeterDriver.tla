--------------------------- MODULE ClampMeterDriver ---------------------------
(***************************************************************************)
(* ClampMeterDriver: the operations behind the keys and the calibration,   *)
(* which start and stop measurements on the one output stage, ADC and      *)
(* generator the meter has.  Two tasks run them without a lock: the        *)
(* keyboard's (priority 2), inside the handler of a key, and the           *)
(* calibration's (priority 3), so the keyboard's runs only while the       *)
(* calibration's is blocked, and is preempted wherever it ends a delay.    *)
(*                                                                         *)
(* The C++ functions call each other, StartMeasurements and                *)
(* SetAndActivateSensor in both directions.  Their bodies are sequences of *)
(* statements, in the order of the source, and each task has a stack of    *)
(* calls; every statement is one action.                                   *)
(***************************************************************************)
EXTENDS Integers, Sequences, FiniteSets

CONSTANTS
  MaxLevel,              \* gainLevelsQuantity, 10
  NewResistorAt,         \* levels whose calibrationResistances entry is a new one
  Keys,                  \* the keys' operations the user calls
  KeysWhileActive,       \* those of them also called while a measurement is on
  KeysWhileCalibrating,  \* those of them also called during a calibration
  MaxDepth               \* bound on the depth of calls

Sensors == {"Shunt", "Clamp", "Voltage"}
Tasks == {"keyboard", "calibration"}
Operations == {"StartNormalModeOperation", "Stop", "SwitchToNextSensor", "DisableAGC",
               "IncreaseGain", "DecreaseGain", "StartCalibration"}

ASSUME DriverAssumption ==
  /\ MaxLevel \in Nat \ {0}
  /\ NewResistorAt \subseteq 1 .. MaxLevel /\ 1 \in NewResistorAt
  /\ Keys \subseteq Operations
  /\ KeysWhileActive \subseteq Keys /\ KeysWhileCalibrating \subseteq Keys
  /\ MaxDepth \in Nat \ {0}

VARIABLES
  stack,     \* of each task: its calls, the innermost first
  status,    \* of each task: ready, delayed or suspended
  output,    \* power supply, generator and relay of the output
  adc,       \* its clock, its programmable gain, the sensor its inputs come from
  sensor,    \* of each SensorController: input task on and ever on, mode, AGC on,
             \* gain level, and the level its preamplifier's pins are set for
  buzzing,   \* the buzzer has been started
  iq,        \* the tickCounter of the synchronous detector the sensors share, and
             \* where it was when the generator last started its sine
  state,     \* isActive, firstStart, workMode, activeSensor
  dialog,    \* isWaitingForUserInput and decisionMadeSemaphore
  level,     \* gain_level of the calibration's loop
  data,      \* of each sensor: the reading ClampMeterData holds
  stored     \* of each sensor and level: the reading stored as its calibration

vars == <<stack, status, output, adc, sensor, buzzing, iq, state, dialog, level, data, stored>>

Levels == 1 .. MaxLevel
MaxGain(s) == IF s = "Voltage" THEN 1 ELSE MaxLevel
HasAGC(s) == s # "Voltage"

\* The ADC gain the functor of a level sets: 1/3 for the first level of the shunt
\* and of the clamp, 1 for the second one and for the voltage sensor.
AdcGain(s, l) == IF s = "Voltage" THEN 2 ELSE l

\* tickCounter is 0, or it has counted the one block an input task takes from
\* Receive, never written, when it is resumed, or it has counted samples.  A block
\* has 100 values and the table of the sine 22, so the block shifts the counter.
Ticks == {"zero", "shifted", "moved"}

NoReading == [sensor |-> "none", gain |-> 0]     \* of a ClampMeterData never written
NotStored == [sensor |-> "notStored", gain |-> 0]
Readings == [sensor : Sensors, gain : Levels] \cup {NoReading}

-----------------------------------------------------------------------------
\* The bodies of the functions.

StartMeasurements ==
  <<"FirstStart", "Reactivate", "PowerOn", "Delay", "AdcAndGeneratorOn", "RelayOn",
    "SetActive", "Return">>

\* Its first block, made only once.
FirstStart ==
  <<"ActivateVoltage", "StartAdc", "Delay", "StopAdc", "Delay", "ClearFirstStart", "Return">>

\* Mutants of StopMeasurements: the relay opens last; isActive is not cleared.
StopRelayLast ==
  <<"StopAdc", "Delay", "DisableActive", "Delay", "PowerOff", "GeneratorOff", "RelayOff",
    "Delay", "ClearActive", "Return">>
StopStaysActive ==
  <<"StopAdc", "Delay", "DisableActive", "Delay", "RelayOff", "PowerOff", "GeneratorOff",
    "Delay", "Return">>

StopMeasurements ==
  <<"StopAdc", "Delay", "DisableActive", "Delay", "RelayOff", "PowerOff", "GeneratorOff",
    "Delay", "ClearActive", "Return">>

\* Mutant of SetAndActivateSensor: the new sensor is selected before the stop.
SelectBeforeStop ==
  <<"ReadActive", "SelectSensor", "StopIfActive", "DisableActive", "EnableActive",
    "StartIfWasActive", "Return">>

SetAndActivateSensor ==
  <<"ReadActive", "StopIfActive", "DisableActive", "SelectSensor", "EnableActive",
    "StartIfWasActive", "Return">>

\* Mutant of IncreaseGain: the level is stored before its setting is programmed.
IncreaseStoresFirst ==
  <<"ChooseHigher", "StoreLevel", "ProgramPreamp", "ProgramAdc", "Return">>

\* The gain keys, down to GainController::SetGain and the functor of the level: the
\* AGC may move the level between any two of these statements.  A functor's write to the
\* pins of the preamplifier is one statement.
IncreaseGain == <<"ChooseHigher", "ProgramPreamp", "ProgramAdc", "StoreLevel", "Return">>
DecreaseGain == <<"ChooseLower", "ProgramPreamp", "ProgramAdc", "StoreLevel", "Return">>

StartNormalModeOperation ==
  <<"SetNormal", "ActivateVoltage", "AllNormal", "Start", "Return">>

StartCalibration ==
  <<"SetCalibration", "ActivateVoltage", "AllCalibration", "ResumeCalibration", "Return">>

\* Mutant of Stop: the calibration is suspended last.
StopSuspendsLast == <<"StopAll", "SuspendCalibration", "Return">>

Stop == <<"SuspendCalibration", "StopAll", "Return">>

SwitchToNextSensor == <<"StopAll", "ActivateNext", "Start", "Return">>

\* Mutant of CalibrationTask: it goes round without the final Stop.
CalibrationNeverStops ==
  <<"ActivateVoltage", "CalibrateVoltage", "Start", "Ask", "TakeAnswer", "Delay",
    "StableData", "StopAll", "StoreVoltage", "Delay", "FirstLevel",
    "CheckVout", "CalibrateShunt", "ShuntMinGain", "CalibrateClamp", "ClampMinGain",
    "NextLevel", "Delay", "Loop">>

\* The body of its loop; the loop over the levels goes back from NextLevel.
CalibrationTask ==
  <<"ActivateVoltage", "CalibrateVoltage", "Start", "Ask", "TakeAnswer", "Delay",
    "StableData", "StopAll", "StoreVoltage", "Delay", "FirstLevel",
    "CheckVout", "CalibrateShunt", "ShuntMinGain", "CalibrateClamp", "ClampMinGain",
    "NextLevel", "Delay", "StopDriver", "Loop">>

RequestResistorChangeAndCheckVout ==
  <<"Ask", "TakeAnswer", "VoltageNormal", "ActivateVoltage", "Start", "Delay",
    "StableData", "StopAll", "Return">>

\* Mutant of CalibrateSensor: the sensor to calibrate is not activated.
CalibrateInactive ==
  <<"SetLevel", "Delay", "Start", "Delay", "StableData", "StopAll", "Delay",
    "StoreReading", "Return">>

CalibrateSensor ==
  <<"ActivateThis", "SetLevel", "Delay", "Start", "Delay", "StableData", "StopAll",
    "Delay", "StoreReading", "Return">>

Body == [
  StartMeasurements |-> StartMeasurements, FirstStart |-> FirstStart,
  StopMeasurements |-> StopMeasurements, SetAndActivateSensor |-> SetAndActivateSensor,
  StartNormalModeOperation |-> StartNormalModeOperation,
  StartCalibration |-> StartCalibration, Stop |-> Stop,
  SwitchToNextSensor |-> SwitchToNextSensor,
  DisableAGC |-> <<"TurnAgcOff", "Return">>,
  IncreaseGain |-> IncreaseGain, DecreaseGain |-> DecreaseGain,
  CalibrationTask |-> CalibrationTask,
  RequestResistorChangeAndCheckVout |-> RequestResistorChangeAndCheckVout,
  CalibrateSensor |-> CalibrateSensor
]

\* The statements that call a function, and the function.
Callee == [
  FirstStart |-> "FirstStart", Start |-> "StartMeasurements",
  StartIfWasActive |-> "StartMeasurements",
  StopAll |-> "StopMeasurements", StopIfActive |-> "StopMeasurements",
  ActivateVoltage |-> "SetAndActivateSensor", ActivateNext |-> "SetAndActivateSensor",
  ActivateThis |-> "SetAndActivateSensor", Reactivate |-> "SetAndActivateSensor",
  CheckVout |-> "RequestResistorChangeAndCheckVout",
  CalibrateShunt |-> "CalibrateSensor", CalibrateClamp |-> "CalibrateSensor",
  StopDriver |-> "Stop"
]

NextSensor == [Voltage |-> "Shunt", Shunt |-> "Clamp", Clamp |-> "Voltage"]

\* The sensor a call is about; a function that has no such argument ignores it.
Argument(statement, frame) ==
  CASE statement = "ActivateNext" -> NextSensor[state.activeSensor]
    [] statement = "Reactivate" -> state.activeSensor
    [] statement = "ActivateThis" -> frame.sensor
    [] statement = "CalibrateShunt" -> "Shunt"
    [] statement = "CalibrateClamp" -> "Clamp"
    [] OTHER -> "Voltage"

\* The condition under which the source makes a call.
Made(statement, frame) ==
  CASE statement = "FirstStart" -> state.firstStart
    [] statement = "StopIfActive" -> state.isActive
    [] statement = "StartIfWasActive" -> frame.wasActive
    [] statement = "CheckVout" -> level \in NewResistorAt
    [] OTHER -> TRUE

\* newGain is the level a gain key sets, 0 when it sets none.
Frame(function, s) ==
  [function |-> function, pc |-> 1, sensor |-> s, wasActive |-> FALSE, newGain |-> 0]
Frames == [function : DOMAIN Body, pc : 1 .. 20, sensor : Sensors, wasActive : BOOLEAN,
           newGain : 0 .. MaxLevel]

-----------------------------------------------------------------------------
\* Who runs.

Running(t) == Head(stack[t])
Statement(t) == Body[Running(t).function][Running(t).pc]

CalibrationRuns ==
  /\ status["calibration"] = "ready"
  /\ Statement("calibration") = "TakeAnswer" => dialog.answered

Runs(t) ==
  IF t = "calibration" THEN CalibrationRuns
  ELSE status[t] = "ready" /\ stack[t] # <<>> /\ ~CalibrationRuns

Advanced(calls) == <<[Head(calls) EXCEPT !.pc = @ + 1]>> \o Tail(calls)

\* Task t is at a statement of that name and goes on to the next one.
Does(t, statement) ==
  /\ Runs(t) /\ Statement(t) = statement
  /\ stack' = [stack EXCEPT ![t] = Advanced(@)]

Init ==
  /\ stack = [keyboard |-> <<>>, calibration |-> <<Frame("CalibrationTask", "Voltage")>>]
  /\ status = [keyboard |-> "ready", calibration |-> "suspended"]
  /\ output = [power |-> FALSE, generator |-> FALSE, relay |-> FALSE]
  /\ adc = [on |-> FALSE, gain |-> 2, input |-> "Voltage"]
  /\ sensor = [s \in Sensors |->
                 [on |-> FALSE, ran |-> FALSE, mode |-> "Normal", agc |-> HasAGC(s),
                  gain |-> 1, preamp |-> 1]]
  /\ buzzing = FALSE
  /\ iq = [tick |-> "zero", start |-> "zero"]
  /\ state = [isActive |-> FALSE, firstStart |-> TRUE, workMode |-> "Normal",
              activeSensor |-> "Shunt"]
  /\ dialog = [asking |-> FALSE, answered |-> FALSE]
  /\ level = 1
  /\ data = [s \in Sensors |-> NoReading]
  /\ stored = [s \in Sensors |-> [l \in Levels |-> NotStored]]

-----------------------------------------------------------------------------
\* Calls, returns and delays.

Call(t) ==
  /\ Runs(t) /\ Statement(t) \in DOMAIN Callee
  /\ LET statement == Statement(t)
         caller == [Running(t) EXCEPT !.pc = @ + 1,
                                      !.wasActive = IF statement = "StopIfActive"
                                                    THEN @ \/ state.isActive ELSE @]
         callee == Frame(Callee[statement], Argument(statement, Running(t)))
     IN  IF Made(statement, Running(t))
         THEN /\ Len(stack[t]) < MaxDepth
              /\ stack' = [stack EXCEPT ![t] = <<callee, caller>> \o Tail(@)]
         ELSE stack' = [stack EXCEPT ![t] = <<caller>> \o Tail(@)]
  /\ UNCHANGED <<status, output, adc, sensor, buzzing, iq, state, dialog, level, data, stored>>

Return(t) ==
  /\ Runs(t) /\ Statement(t) = "Return"
  /\ stack' = [stack EXCEPT ![t] = Tail(@)]
  /\ UNCHANGED <<status, output, adc, sensor, buzzing, iq, state, dialog, level, data, stored>>

Loop(t) ==
  /\ Runs(t) /\ Statement(t) = "Loop"
  /\ stack' = [stack EXCEPT ![t] = <<Frame("CalibrationTask", "Voltage")>>]
  /\ UNCHANGED <<status, output, adc, sensor, buzzing, iq, state, dialog, level, data, stored>>

Delay(t) ==
  /\ Does(t, "Delay")
  /\ status' = [status EXCEPT ![t] = "delayed"]
  /\ UNCHANGED <<output, adc, sensor, buzzing, iq, state, dialog, level, data, stored>>

\* The delay ends, at any time.
Wake(t) ==
  /\ status[t] = "delayed"
  /\ status' = [status EXCEPT ![t] = "ready"]
  /\ UNCHANGED <<stack, output, adc, sensor, buzzing, iq, state, dialog, level, data, stored>>

-----------------------------------------------------------------------------
\* The output stage and the ADC's clock.

Switch(t, statement, field, on) ==
  /\ Does(t, statement)
  /\ output' = [output EXCEPT ![field] = on]
  /\ UNCHANGED <<status, adc, sensor, buzzing, iq, state, dialog, level, data, stored>>

PowerOn(t) == Switch(t, "PowerOn", "power", TRUE)
PowerOff(t) == Switch(t, "PowerOff", "power", FALSE)
RelayOn(t) == Switch(t, "RelayOn", "relay", TRUE)
RelayOff(t) == Switch(t, "RelayOff", "relay", FALSE)
GeneratorOff(t) == Switch(t, "GeneratorOff", "generator", FALSE)

\* Between SuspendAll and ResumeAll.
AdcAndGeneratorOn(t) ==
  /\ Does(t, "AdcAndGeneratorOn")
  /\ adc' = [adc EXCEPT !.on = TRUE]
  /\ output' = [output EXCEPT !.generator = TRUE]
  /\ iq' = [tick |-> "moved", start |-> iq.tick]
  /\ UNCHANGED <<status, sensor, buzzing, state, dialog, level, data, stored>>

SwitchAdc(t, statement, on) ==
  /\ Does(t, statement)
  /\ adc' = [adc EXCEPT !.on = on]
  /\ iq' = IF on THEN [iq EXCEPT !.tick = "moved"] ELSE iq
  /\ UNCHANGED <<status, output, sensor, buzzing, state, dialog, level, data, stored>>

StartAdc(t) == SwitchAdc(t, "StartAdc", TRUE)
StopAdc(t) == SwitchAdc(t, "StopAdc", FALSE)

-----------------------------------------------------------------------------
\* The driver's own fields.

ReadActive(t) ==
  /\ Runs(t) /\ Statement(t) = "ReadActive"
  /\ stack' = [stack EXCEPT ![t] =
                 Advanced(<<[Head(@) EXCEPT !.wasActive = state.isActive]>> \o Tail(@))]
  /\ UNCHANGED <<status, output, adc, sensor, buzzing, iq, state, dialog, level, data, stored>>

Assign(t, statement, field, value) ==
  /\ Does(t, statement)
  /\ state' = [state EXCEPT ![field] = value]
  /\ UNCHANGED <<status, output, adc, sensor, buzzing, iq, dialog, level, data, stored>>

SelectSensor(t) == Assign(t, "SelectSensor", "activeSensor", Running(t).sensor)
SetActive(t) == Assign(t, "SetActive", "isActive", TRUE)
ClearActive(t) == Assign(t, "ClearActive", "isActive", FALSE)
ClearFirstStart(t) == Assign(t, "ClearFirstStart", "firstStart", FALSE)
SetNormal(t) == Assign(t, "SetNormal", "workMode", "Normal")
SetCalibration(t) == Assign(t, "SetCalibration", "workMode", "Calibration")

-----------------------------------------------------------------------------
\* The sensors.

Active == state.activeSensor

\* SensorController::Enable and its callback.  The tick counter is reset before the
\* input task is resumed; a task that has run before was waiting in Receive.
EnableActive(t) ==
  /\ Does(t, "EnableActive")
  /\ LET normal == sensor[Active].mode = "Normal"
     IN  /\ sensor' = [sensor EXCEPT ![Active] =
                         [@ EXCEPT !.on = TRUE, !.ran = TRUE,
                                   !.agc = normal /\ HasAGC(Active),
                                   !.gain = IF normal THEN 1 ELSE sensor[Active].gain,
                                   !.preamp = IF normal THEN 1 ELSE sensor[Active].preamp]]
         /\ adc' = [adc EXCEPT !.input = Active,
                               !.gain = IF normal THEN AdcGain(Active, 1) ELSE @]
  /\ iq' = [iq EXCEPT !.tick = CASE adc.on -> "moved"
                                 [] ~adc.on /\ sensor[Active].ran -> "shifted"
                                 [] OTHER -> "zero"]
  /\ buzzing' = (buzzing \/ (Active = "Clamp" /\ state.workMode = "Normal"))
  /\ UNCHANGED <<status, output, state, dialog, level, data, stored>>

\* Mutant of DisableActive: the callback does not stop the buzzer.
DisableWithoutCallback(t) ==
  /\ Does(t, "DisableActive")
  /\ sensor' = [sensor EXCEPT ![Active].on = FALSE, ![Active].gain = 1, ![Active].preamp = 1]
  /\ adc' = [adc EXCEPT !.gain = AdcGain(Active, 1)]
  /\ UNCHANGED <<status, output, buzzing, iq, state, dialog, level, data, stored>>

\* SensorController::Disable and its callback.
DisableActive(t) ==
  /\ Does(t, "DisableActive")
  /\ sensor' = [sensor EXCEPT ![Active].on = FALSE, ![Active].gain = 1, ![Active].preamp = 1]
  /\ adc' = [adc EXCEPT !.gain = AdcGain(Active, 1)]
  /\ buzzing' = (buzzing /\ Active # "Clamp")
  /\ UNCHANGED <<status, output, iq, state, dialog, level, data, stored>>

\* SetMode of every sensor; StartCalibration also sets their levels, the voltage
\* sensor's last.
AllNormal(t) ==
  /\ Does(t, "AllNormal")
  /\ sensor' = [s \in Sensors |-> [sensor[s] EXCEPT !.mode = "Normal", !.agc = HasAGC(s)]]
  /\ UNCHANGED <<status, output, adc, buzzing, iq, state, dialog, level, data, stored>>

\* Mutant of AllCalibration: the shunt's level is set last.
AllCalibrationShuntLast(t) ==
  /\ Does(t, "AllCalibration")
  /\ sensor' = [s \in Sensors |->
                  [sensor[s] EXCEPT !.mode = "Calibration", !.agc = FALSE,
                                    !.gain = 1, !.preamp = 1]]
  /\ adc' = [adc EXCEPT !.gain = AdcGain("Shunt", 1)]
  /\ UNCHANGED <<status, output, buzzing, iq, state, dialog, level, data, stored>>

AllCalibration(t) ==
  /\ Does(t, "AllCalibration")
  /\ sensor' = [s \in Sensors |->
                  [sensor[s] EXCEPT !.mode = "Calibration", !.agc = FALSE,
                                    !.gain = 1, !.preamp = 1]]
  /\ adc' = [adc EXCEPT !.gain = AdcGain("Voltage", 1)]
  /\ UNCHANGED <<status, output, buzzing, iq, state, dialog, level, data, stored>>

\* SetMode and SetGain, or SetGain alone, of sensor s.
Adjust(t, statement, s, mode, l) ==
  /\ Does(t, statement)
  /\ sensor' = [sensor EXCEPT ![s] =
                  [@ EXCEPT !.mode = mode, !.gain = l, !.preamp = l,
                            !.agc = mode = "Normal" /\ (sensor[s].agc \/ HasAGC(s))]]
  /\ adc' = [adc EXCEPT !.gain = AdcGain(s, l)]
  /\ UNCHANGED <<status, output, buzzing, iq, state, dialog, level, data, stored>>

CalibrateVoltage(t) == Adjust(t, "CalibrateVoltage", "Voltage", "Calibration", 1)
VoltageNormal(t) == Adjust(t, "VoltageNormal", "Voltage", "Normal", 1)
SetLevel(t) == Adjust(t, "SetLevel", Running(t).sensor, "Calibration", level)

MinGain(t, statement, s) ==
  /\ Does(t, statement)
  /\ sensor' = [sensor EXCEPT ![s].gain = 1, ![s].preamp = 1]
  /\ adc' = [adc EXCEPT !.gain = AdcGain(s, 1)]
  /\ UNCHANGED <<status, output, buzzing, iq, state, dialog, level, data, stored>>

ShuntMinGain(t) == MinGain(t, "ShuntMinGain", "Shunt")
ClampMinGain(t) == MinGain(t, "ClampMinGain", "Clamp")

TurnAgcOff(t) ==
  /\ Does(t, "TurnAgcOff")
  /\ sensor' = [sensor EXCEPT ![Active].agc = FALSE]
  /\ UNCHANGED <<status, output, adc, buzzing, iq, state, dialog, level, data, stored>>

\* A gain key reads the level once; one already at its limit is left alone.
ChooseLevel(t, statement, by) ==
  /\ Runs(t) /\ Statement(t) = statement
  /\ LET l == sensor[Active].gain + by
         chosen == [Running(t) EXCEPT !.newGain = IF l \in 1 .. MaxGain(Active) THEN l ELSE 0]
     IN  stack' = [stack EXCEPT ![t] = Advanced(<<chosen>> \o Tail(@))]
  /\ UNCHANGED <<status, output, adc, sensor, buzzing, iq, state, dialog, level, data, stored>>

ChooseHigher(t) == ChooseLevel(t, "ChooseHigher", 1)
ChooseLower(t) == ChooseLevel(t, "ChooseLower", -1)

\* The active sensor's preamplifier pins, or its level, take the level chosen.
TakeNewGain(t, statement, field) ==
  /\ Does(t, statement)
  /\ sensor' = IF Running(t).newGain = 0 THEN sensor
               ELSE [sensor EXCEPT ![Active][field] = Running(t).newGain]
  /\ UNCHANGED <<status, output, adc, buzzing, iq, state, dialog, level, data, stored>>

ProgramPreamp(t) == TakeNewGain(t, "ProgramPreamp", "preamp")
StoreLevel(t) == TakeNewGain(t, "StoreLevel", "gain")

ProgramAdc(t) ==
  /\ Does(t, "ProgramAdc")
  /\ adc' = IF Running(t).newGain = 0 THEN adc
            ELSE [adc EXCEPT !.gain = AdcGain(Active, Running(t).newGain)]
  /\ UNCHANGED <<status, output, sensor, buzzing, iq, state, dialog, level, data, stored>>

\* The AGC of the sensor that receives the ADC's samples, in its input task.
AgcMovesGain(by) ==
  LET s == adc.input
      l == sensor[s].gain + by
  IN  /\ adc.on /\ sensor[s].on /\ sensor[s].agc
      /\ l \in 1 .. MaxGain(s)
      /\ sensor' = [sensor EXCEPT ![s].gain = l, ![s].preamp = l]
      /\ adc' = [adc EXCEPT !.gain = AdcGain(s, l)]
      /\ UNCHANGED <<stack, status, output, buzzing, iq, state, dialog, level, data, stored>>

-----------------------------------------------------------------------------
\* The calibration.

Ask(t) ==
  /\ Does(t, "Ask")
  /\ dialog' = [dialog EXCEPT !.asking = TRUE]
  /\ UNCHANGED <<status, output, adc, sensor, buzzing, iq, state, level, data, stored>>

TakeAnswer(t) ==
  /\ Does(t, "TakeAnswer")
  /\ dialog' = [asking |-> FALSE, answered |-> FALSE]
  /\ UNCHANGED <<status, output, adc, sensor, buzzing, iq, state, level, data, stored>>

\* The end of WaitForStableData, at least five seconds of samples long: the data of
\* the active sensor is a reading of the sensor the ADC samples, at its level.
StableData(t) ==
  /\ Does(t, "StableData")
  /\ data' = IF adc.on /\ sensor[adc.input].on
             THEN [data EXCEPT ![Active] =
                     [sensor |-> adc.input, gain |-> sensor[adc.input].gain]]
             ELSE data
  /\ UNCHANGED <<status, output, adc, sensor, buzzing, iq, state, dialog, level, stored>>

Store(t, statement, s, l) ==
  /\ Does(t, statement)
  /\ stored' = [stored EXCEPT ![s][l] = data[s]]
  /\ UNCHANGED <<status, output, adc, sensor, buzzing, iq, state, dialog, level, data>>

StoreVoltage(t) == Store(t, "StoreVoltage", "Voltage", 1)
StoreReading(t) == Store(t, "StoreReading", Running(t).sensor, level)

FirstLevel(t) ==
  /\ Does(t, "FirstLevel")
  /\ level' = 1
  /\ UNCHANGED <<status, output, adc, sensor, buzzing, iq, state, dialog, data, stored>>

\* From NextLevel back to CheckVout.
BackToCheckVout == 5

\* Mutant of NextLevel: one level too many.
NextLevelInclusive(t) ==
  /\ Runs(t) /\ Statement(t) = "NextLevel"
  /\ IF level <= MaxLevel
     THEN /\ level' = level + 1
          /\ stack' = [stack EXCEPT ![t][1].pc = @ - BackToCheckVout]
     ELSE /\ stack' = [stack EXCEPT ![t] = Advanced(@)]
          /\ UNCHANGED level
  /\ UNCHANGED <<status, output, adc, sensor, buzzing, iq, state, dialog, data, stored>>

\* The end of the loop's body; after the last level follows the store to flash.
NextLevel(t) ==
  /\ Runs(t) /\ Statement(t) = "NextLevel"
  /\ IF level < MaxLevel
     THEN /\ level' = level + 1
          /\ stack' = [stack EXCEPT ![t][1].pc = @ - BackToCheckVout]
     ELSE /\ stack' = [stack EXCEPT ![t] = Advanced(@)]
          /\ UNCHANGED level
  /\ UNCHANGED <<status, output, adc, sensor, buzzing, iq, state, dialog, data, stored>>

\* vTaskSuspend and vTaskResume of the calibration's task; resuming a delayed task
\* that was suspended ends its delay, resuming a task that is not does nothing.
SuspendCalibration(t) ==
  /\ Does(t, "SuspendCalibration")
  /\ status' = [status EXCEPT !["calibration"] = "suspended"]
  /\ UNCHANGED <<output, adc, sensor, buzzing, iq, state, dialog, level, data, stored>>

ResumeCalibration(t) ==
  /\ Does(t, "ResumeCalibration")
  /\ status' = [status EXCEPT !["calibration"] = IF @ = "suspended" THEN "ready" ELSE @]
  /\ UNCHANGED <<output, adc, sensor, buzzing, iq, state, dialog, level, data, stored>>

-----------------------------------------------------------------------------
\* The user.

Calibrating == status["calibration"] # "suspended"

\* While the dialog waits for the user every key goes to it.
PressKey(operation) ==
  /\ stack["keyboard"] = <<>> /\ ~CalibrationRuns /\ ~dialog.asking
  /\ Calibrating => operation \in KeysWhileCalibrating
  /\ state.isActive => operation \in KeysWhileActive \cup KeysWhileCalibrating
  /\ stack' = [stack EXCEPT !["keyboard"] = <<Frame(operation, "Voltage")>>]
  /\ UNCHANGED <<status, output, adc, sensor, buzzing, iq, state, dialog, level, data, stored>>

AnswerDialog ==
  /\ stack["keyboard"] = <<>> /\ ~CalibrationRuns /\ dialog.asking
  /\ dialog' = [dialog EXCEPT !.answered = TRUE]
  /\ UNCHANGED <<stack, status, output, adc, sensor, buzzing, iq, state, level, data, stored>>

-----------------------------------------------------------------------------
Control(t) == Call(t) \/ Return(t) \/ Loop(t) \/ Delay(t)

Hardware(t) ==
  \/ PowerOn(t) \/ PowerOff(t) \/ RelayOn(t) \/ RelayOff(t)
  \/ GeneratorOff(t) \/ AdcAndGeneratorOn(t) \/ StartAdc(t) \/ StopAdc(t)

Fields(t) ==
  \/ ReadActive(t) \/ SelectSensor(t) \/ SetActive(t) \/ ClearActive(t)
  \/ ClearFirstStart(t) \/ SetNormal(t) \/ SetCalibration(t)

SensorSteps(t) ==
  \/ EnableActive(t) \/ DisableActive(t) \/ AllNormal(t) \/ AllCalibration(t)
  \/ CalibrateVoltage(t) \/ VoltageNormal(t) \/ SetLevel(t)
  \/ ShuntMinGain(t) \/ ClampMinGain(t) \/ TurnAgcOff(t)

GainKeySteps(t) ==
  \/ ChooseHigher(t) \/ ChooseLower(t)
  \/ ProgramPreamp(t) \/ ProgramAdc(t) \/ StoreLevel(t)

CalibrationSteps(t) ==
  \/ Ask(t) \/ TakeAnswer(t) \/ StableData(t) \/ StoreVoltage(t) \/ StoreReading(t)
  \/ FirstLevel(t) \/ NextLevel(t) \/ SuspendCalibration(t) \/ ResumeCalibration(t)

Step(t) ==
  \/ Control(t) \/ Hardware(t) \/ Fields(t)
  \/ SensorSteps(t) \/ GainKeySteps(t) \/ CalibrationSteps(t)

Next ==
  \/ \E t \in Tasks : Step(t) \/ Wake(t)
  \/ \E by \in {-1, 1} : AgcMovesGain(by)
  \/ \E operation \in Keys : PressKey(operation)
  \/ AnswerDialog

Spec == Init /\ [][Next]_vars

\* The scheduler runs the ready task of the highest priority, delays end, and the
\* user answers a dialog.
Fairness ==
  /\ \A t \in Tasks : WF_vars(Step(t)) /\ WF_vars(Wake(t))
  /\ WF_vars(AnswerDialog)

FairSpec == Spec /\ Fairness

-----------------------------------------------------------------------------
TypeOK ==
  /\ stack \in [Tasks -> Seq(Frames)]
  /\ status \in [Tasks -> {"ready", "delayed", "suspended"}]
  /\ output \in [power : BOOLEAN, generator : BOOLEAN, relay : BOOLEAN]
  /\ adc \in [on : BOOLEAN, gain : 1 .. 2 \cup Levels, input : Sensors]
  /\ sensor \in [Sensors -> [on : BOOLEAN, ran : BOOLEAN, mode : {"Normal", "Calibration"},
                             agc : BOOLEAN, gain : Levels, preamp : Levels]]
  /\ buzzing \in BOOLEAN
  /\ iq \in [tick : Ticks, start : Ticks]
  /\ state \in [isActive : BOOLEAN, firstStart : BOOLEAN,
                workMode : {"Normal", "Calibration"}, activeSensor : Sensors]
  /\ dialog \in [asking : BOOLEAN, answered : BOOLEAN]
  /\ level \in Levels
  /\ data \in [Sensors -> Readings]
  /\ stored \in [Sensors -> [Levels -> Readings \cup {NotStored}]]

\* The relay connects the output only while its power supply and the generator
\* are on, however StartMeasurements and SetAndActivateSensor are nested.
OutputInterlock == output.relay => output.power /\ output.generator

\* The output of the driver is an output stage: its parts are switched one by one in
\* the order OutputStage gives, and never stay half way.
Stage ==
  CASE output = [power |-> FALSE, generator |-> FALSE, relay |-> FALSE] -> "off"
    [] output = [power |-> TRUE, generator |-> FALSE, relay |-> FALSE] -> "powered"
    [] output = [power |-> TRUE, generator |-> TRUE, relay |-> FALSE] -> "driven"
    [] output = [power |-> TRUE, generator |-> TRUE, relay |-> TRUE] -> "connected"
    [] output = [power |-> FALSE, generator |-> TRUE, relay |-> FALSE] -> "draining"
    [] OTHER -> "unsafe"

Output == INSTANCE OutputStage WITH stage <- Stage
OutputIsStaged == Output!Spec

\* No key is being handled and the calibration waits, for the user or for a key.
AtRest ==
  /\ stack["keyboard"] = <<>>
  /\ ~Calibrating \/ (Statement("calibration") = "TakeAnswer" /\ ~dialog.answered)

Consistent ==
  /\ output = [power |-> state.isActive, generator |-> state.isActive,
               relay |-> state.isActive]
  /\ adc.on = state.isActive
  /\ state.isActive => sensor[state.activeSensor].on

\* At rest isActive tells the truth: everything is on, or everything is off.
ActiveMeansOn == AtRest => Consistent

\* When the handler of Stop returns everything is off, although the calibration's
\* task has the higher priority and may have preempted the handler anywhere.
StopAlwaysStops ==
  (stack["keyboard"] # <<>> /\ Running("keyboard").function = "Stop"
                           /\ Statement("keyboard") = "Return")
  => ~Calibrating /\ ~state.isActive /\ Consistent

\* The three sensors share the filters and the synchronous detector: at most one of
\* their input tasks runs.
OneSensorOn == \A r, s \in Sensors : sensor[r].on /\ sensor[s].on => r = s

Measuring == adc.on /\ output.relay

\* What sensor s measures is amplified as its level says, by its preamplifier and by
\* the ADC, which the sensors share.
AtItsLevel(s) == sensor[s].preamp = sensor[s].gain /\ adc.gain = AdcGain(s, sensor[s].gain)

\* While the output is connected and sampled, the ADC's inputs are the active
\* sensor's.  A calibration measures it at its level, although the levels of the other
\* sensors are set through the same ADC, and although a gain key may have left level
\* and amplification apart before the calibration was started.
AdcServesActive ==
  Measuring => adc.input = Active /\ (Calibrating => AtItsLevel(Active))

\* The keyboard's task executes that statement.
KeyDoes(statement) ==
  /\ stack["keyboard"] # <<>> /\ Statement("keyboard") = statement
  /\ stack'["keyboard"] # stack["keyboard"]

\* While the output is connected and sampled, the active sensor's level and its
\* amplification come apart only inside the handler of a gain key.  They are together
\* when a measurement starts, and again whenever the AGC moves the level.  At the end of
\* a gain key they are apart only if the AGC was on, and overtook it.
OnlyKeysPartThem ==
  [][Measuring' /\ ~AtItsLevel(Active)' =>
       \/ KeyDoes("ProgramPreamp") \/ KeyDoes("ProgramAdc")
       \/ KeyDoes("StoreLevel") /\ sensor[Active].agc
       \/ Measuring /\ ~AtItsLevel(Active) /\ sensor'[Active].gain = sensor[Active].gain]_vars

\* The detector is a lock-in amplifier: the phase it measures is relative to the sine
\* of the generator, so whenever the output is measured the sine must have started
\* at the same tick, the one the stored phase shifts were measured with.
PhaseLocked == output.relay => iq.start = "shifted"

\* The buzzer sounds for the clamp sensor only.
BuzzerNeedsClamp == buzzing => sensor["Clamp"].on

\* StartMeasurements and SetAndActivateSensor call each other, but not for ever: the
\* stack of a task has room for the deepest nesting.
DeepestNesting == 5
RecursionBounded == \A t \in Tasks : Len(stack[t]) <= DeepestNesting

\* What is stored as a sensor's calibration was read from that sensor, although
\* readings are filed under whichever sensor is active when they arrive.
StoredFromItsSensor ==
  \A s \in Sensors, l \in Levels : stored[s][l].sensor \in {s, "notStored"}

\* "Gain level N Calibration": what is stored for a level was read at that level.
StoredAtItsLevel ==
  \A s \in Sensors, l \in Levels : stored[s][l].gain \in {l, 0}

\* Every key's handler ends, so the next key is heard.
KeyHandlersEnd == stack["keyboard"] # <<>> ~> stack["keyboard"] = <<>>

\* A calibration ends, when the user answers its dialogs.
CalibrationEnds == Calibrating ~> ~Calibrating

\* "... and press Enter": a user who answers is heard.
EnterIsHeard == dialog.asking ~> ~dialog.asking
=============================================================================
