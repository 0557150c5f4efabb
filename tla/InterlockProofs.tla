------------------------------ MODULE InterlockProofs ------------------------------
(***************************************************************************)
(* The driver's safety when its two tasks share it, for any levels, keys   *)
(* and depth of calls.  First, if no key but Stop acts during a            *)
(* calibration: one sensor at a time, and what Stop has reached.  Then, if *)
(* no key acts during one: what the task at work has reached in each       *)
(* function, from which follow the interlock, the consistency at rest and  *)
(* the order in which the output is switched.                              *)
(***************************************************************************)
EXTENDS ClampMeterDriverProofs

\* Each statement is executed by one action.
LEMMA StatementOfStep ==
  ASSUME NEW t \in Tasks, Step(t)
  PROVE  /\ Statement(t) = "PowerOn" => PowerOn(t)
         /\ Statement(t) = "PowerOff" => PowerOff(t)
         /\ Statement(t) = "RelayOn" => RelayOn(t)
         /\ Statement(t) = "RelayOff" => RelayOff(t)
         /\ Statement(t) = "GeneratorOff" => GeneratorOff(t)
         /\ Statement(t) = "AdcAndGeneratorOn" => AdcAndGeneratorOn(t)
         /\ Statement(t) = "StartAdc" => StartAdc(t)
         /\ Statement(t) = "StopAdc" => StopAdc(t)
         /\ Statement(t) = "ReadActive" => ReadActive(t)
         /\ Statement(t) = "SelectSensor" => SelectSensor(t)
         /\ Statement(t) = "SetActive" => SetActive(t)
         /\ Statement(t) = "ClearActive" => ClearActive(t)
         /\ Statement(t) = "ClearFirstStart" => ClearFirstStart(t)
         /\ Statement(t) = "SetNormal" => SetNormal(t)
         /\ Statement(t) = "SetCalibration" => SetCalibration(t)
         /\ Statement(t) = "EnableActive" => EnableActive(t)
         /\ Statement(t) = "DisableActive" => DisableActive(t)
         /\ Statement(t) = "AllNormal" => AllNormal(t)
         /\ Statement(t) = "AllCalibration" => AllCalibration(t)
         /\ Statement(t) = "CalibrateVoltage" => CalibrateVoltage(t)
         /\ Statement(t) = "VoltageNormal" => VoltageNormal(t)
         /\ Statement(t) = "SetLevel" => SetLevel(t)
         /\ Statement(t) = "ShuntMinGain" => ShuntMinGain(t)
         /\ Statement(t) = "ClampMinGain" => ClampMinGain(t)
         /\ Statement(t) = "TurnAgcOff" => TurnAgcOff(t)
         /\ Statement(t) = "ChooseHigher" => ChooseHigher(t)
         /\ Statement(t) = "ChooseLower" => ChooseLower(t)
         /\ Statement(t) = "ProgramPreamp" => ProgramPreamp(t)
         /\ Statement(t) = "ProgramAdc" => ProgramAdc(t)
         /\ Statement(t) = "StoreLevel" => StoreLevel(t)
         /\ Statement(t) = "Ask" => Ask(t)
         /\ Statement(t) = "TakeAnswer" => TakeAnswer(t)
         /\ Statement(t) = "StableData" => StableData(t)
         /\ Statement(t) = "StoreVoltage" => StoreVoltage(t)
         /\ Statement(t) = "StoreReading" => StoreReading(t)
         /\ Statement(t) = "FirstLevel" => FirstLevel(t)
         /\ Statement(t) = "NextLevel" => NextLevel(t)
         /\ Statement(t) = "SuspendCalibration" => SuspendCalibration(t)
         /\ Statement(t) = "ResumeCalibration" => ResumeCalibration(t)
         /\ Statement(t) = "Return" => Return(t)
         /\ Statement(t) = "Loop" => Loop(t)
         /\ Statement(t) = "Delay" => Delay(t)
         /\ Statement(t) \in DOMAIN Callee => Call(t)
  <1>1. /\ PowerOn(t) => Statement(t) = "PowerOn"
        /\ PowerOff(t) => Statement(t) = "PowerOff"
        /\ RelayOn(t) => Statement(t) = "RelayOn"
        /\ RelayOff(t) => Statement(t) = "RelayOff"
        /\ GeneratorOff(t) => Statement(t) = "GeneratorOff"
        /\ AdcAndGeneratorOn(t) => Statement(t) = "AdcAndGeneratorOn"
        /\ StartAdc(t) => Statement(t) = "StartAdc"
        /\ StopAdc(t) => Statement(t) = "StopAdc"
        /\ ReadActive(t) => Statement(t) = "ReadActive"
        /\ SelectSensor(t) => Statement(t) = "SelectSensor"
        /\ SetActive(t) => Statement(t) = "SetActive"
        /\ ClearActive(t) => Statement(t) = "ClearActive"
        /\ ClearFirstStart(t) => Statement(t) = "ClearFirstStart"
        /\ SetNormal(t) => Statement(t) = "SetNormal"
        /\ SetCalibration(t) => Statement(t) = "SetCalibration"
    BY DEF PowerOn, PowerOff, RelayOn, RelayOff, GeneratorOff, AdcAndGeneratorOn, StartAdc,
           StopAdc, ReadActive, SelectSensor, SetActive, ClearActive, ClearFirstStart,
           SetNormal, SetCalibration, Does, Switch, SwitchAdc, Assign
  <1>2. /\ EnableActive(t) => Statement(t) = "EnableActive"
        /\ DisableActive(t) => Statement(t) = "DisableActive"
        /\ AllNormal(t) => Statement(t) = "AllNormal"
        /\ AllCalibration(t) => Statement(t) = "AllCalibration"
        /\ CalibrateVoltage(t) => Statement(t) = "CalibrateVoltage"
        /\ VoltageNormal(t) => Statement(t) = "VoltageNormal"
        /\ SetLevel(t) => Statement(t) = "SetLevel"
        /\ ShuntMinGain(t) => Statement(t) = "ShuntMinGain"
        /\ ClampMinGain(t) => Statement(t) = "ClampMinGain"
        /\ TurnAgcOff(t) => Statement(t) = "TurnAgcOff"
        /\ ChooseHigher(t) => Statement(t) = "ChooseHigher"
        /\ ChooseLower(t) => Statement(t) = "ChooseLower"
        /\ ProgramPreamp(t) => Statement(t) = "ProgramPreamp"
        /\ ProgramAdc(t) => Statement(t) = "ProgramAdc"
        /\ StoreLevel(t) => Statement(t) = "StoreLevel"
    BY DEF EnableActive, DisableActive, AllNormal, AllCalibration, CalibrateVoltage,
           VoltageNormal, SetLevel, ShuntMinGain, ClampMinGain, TurnAgcOff, ChooseHigher,
           ChooseLower, ChooseLevel, ProgramPreamp, ProgramAdc, StoreLevel, TakeNewGain, Does,
           Adjust, MinGain
  <1>3. /\ Ask(t) => Statement(t) = "Ask"
        /\ TakeAnswer(t) => Statement(t) = "TakeAnswer"
        /\ StableData(t) => Statement(t) = "StableData"
        /\ StoreVoltage(t) => Statement(t) = "StoreVoltage"
        /\ StoreReading(t) => Statement(t) = "StoreReading"
        /\ FirstLevel(t) => Statement(t) = "FirstLevel"
        /\ NextLevel(t) => Statement(t) = "NextLevel"
        /\ SuspendCalibration(t) => Statement(t) = "SuspendCalibration"
        /\ ResumeCalibration(t) => Statement(t) = "ResumeCalibration"
        /\ Return(t) => Statement(t) = "Return"
        /\ Loop(t) => Statement(t) = "Loop"
        /\ Delay(t) => Statement(t) = "Delay"
    BY DEF Ask, TakeAnswer, StableData, StoreVoltage, StoreReading, FirstLevel, NextLevel,
           SuspendCalibration, ResumeCalibration, Return, Loop, Delay, Does, Store
  <1>4. Call(t) => Statement(t) \in DOMAIN Callee
    BY DEF Call
  <1>5. DOMAIN Callee \cap {"PowerOn", "PowerOff", "RelayOn", "RelayOff", "GeneratorOff", "AdcAndGeneratorOn",
         "StartAdc", "StopAdc", "ReadActive", "SelectSensor", "SetActive", "ClearActive",
         "ClearFirstStart", "SetNormal", "SetCalibration", "EnableActive", "DisableActive",
         "AllNormal", "AllCalibration", "CalibrateVoltage", "VoltageNormal", "SetLevel",
         "ShuntMinGain", "ClampMinGain", "TurnAgcOff", "ChooseHigher", "ChooseLower",
         "ProgramPreamp", "ProgramAdc", "StoreLevel", "Ask",
         "TakeAnswer", "StableData", "StoreVoltage", "StoreReading", "FirstLevel", "NextLevel",
         "SuspendCalibration", "ResumeCalibration", "Return", "Loop", "Delay"} = {}
    BY DEF Callee
  <1> QED BY <1>1, <1>2, <1>3, <1>4, <1>5
          DEF Step, Control, Hardware, Fields, SensorSteps, GainKeySteps, CalibrationSteps

-----------------------------------------------------------------------------
\* Where a task can have come from.

CalledFrom(f, p) == p > 1 /\ Body[f][p - 1] \in DOMAIN Callee

LEMMA CameFrom ==
  ASSUME StackInv, NEW t \in Tasks, Moves(t), NEW f, NEW p, At(t, f, p)'
  PROVE  \/ p # 1 /\ At(t, f, p - 1) /\ Goes(t)
         \/ p = 1 /\ Calls(t) /\ \E s \in DOMAIN Callee : f = Callee[s]
         \/ p # 1 /\ CalledFrom(f, p) /\ Returns(t) /\ Running(t).function = Callee[Body[f][p - 1]]
         \/ /\ f = "CalibrationTask" /\ p \in {1, 12}
            /\ Running(t).function = "CalibrationTask" /\ Running(t).pc \in {17, 20}
  <1> DEFINE calls == stack[t]
             new == stack'[t]
  <1>1. /\ WellFormed(calls) /\ calls # <<>> /\ stack \in [Tasks -> Seq(Frames)]
        /\ calls \in Seq(Frames) /\ Running(t) = Head(calls) /\ Running(t).pc \in 1 .. 20
    BY TopOfTask DEF Moves, StackInv, Running
  <1>2. new # <<>> /\ Head(new).function = f /\ Head(new).pc = p
    BY DEF At, Running
  <1>3. CASE Goes(t)
    <2>1. PICK h \in Frames : /\ h.function = Running(t).function /\ h.pc = Running(t).pc + 1
                              /\ stack' = [stack EXCEPT ![t] = GoneOn(@, h)]
      BY <1>3 DEF Goes, Onward
    <2>2. new = GoneOn(calls, h)
      BY <1>1, <2>1
    <2> HIDE DEF calls, new
    <2>3. Head(new) = h
      BY <1>1, <2>2 DEF GoneOn
    <2>4. p = Running(t).pc + 1 /\ f = Running(t).function
      BY <1>2, <2>1, <2>3
    <2>5. p # 1 /\ p - 1 = Running(t).pc
      <3> DEFINE k == Running(t).pc
      <3>1. k \in 1 .. 20 /\ p = k + 1
        BY <1>1, <2>4
      <3> HIDE DEF k
      <3>2. p # 1 /\ p - 1 = k
        BY <3>1
      <3> QED BY <3>2 DEF k
    <2> QED BY <1>1, <1>3, <2>4, <2>5 DEF At, calls
  <1>4. CASE Calls(t)
    <2>1. PICK h \in Frames, g \in Frames : /\ g.pc = 1 /\ WaitsFor(h, g.function)
                              /\ stack' = [stack EXCEPT ![t] = Called(@, g, h)]
      BY <1>4 DEF Calls, Frame
    <2>2. new = Called(calls, g, h)
      BY <1>1, <2>1
    <2> HIDE DEF calls, new
    <2>3. Head(new) = g
      BY <1>1, <2>2 DEF Called
    <2>4. p = 1 /\ f = g.function
      BY <1>2, <2>1, <2>3
    <2> QED BY <1>4, <2>1, <2>4 DEF WaitsFor
  <1>5. CASE Returns(t)
    <2>1. stack' = [stack EXCEPT ![t] = Tail(@)]
      BY <1>5 DEF Returns
    <2>2. new = Tail(calls)
      BY <1>1, <2>1
    <2> HIDE DEF calls, new
    <2>3. WaitsFor(Head(new), Running(t).function)
      BY <1>1, <1>2, <2>2, TopReturns
    <2>4. p > 1 /\ Body[f][p - 1] \in DOMAIN Callee /\ Running(t).function = Callee[Body[f][p - 1]]
      BY <1>2, <2>3 DEF WaitsFor
    <2>5. new \in Seq(Frames)
      BY <1>1, <1>2, <2>2, TopReturns DEF WellFormed
    <2>6. p \in Nat
      <3>1. Head(new) \in Frames
        BY <1>2, <2>5, HeadTailProperties
      <3>2. Head(new).pc \in 1 .. 20
        BY <3>1, FrameTyped
      <3> QED BY <1>2, <3>2
    <2> QED BY <1>5, <2>4, <2>6 DEF CalledFrom
  <1>6. CASE Loops(t)
    <2>1. new = <<Frame("CalibrationTask", "Voltage")>>
      BY <1>1, <1>6 DEF Loops
    <2> QED BY <1>2, <1>6, <2>1 DEF Frame, Loops
  <1>7. CASE GoesBack(t)
    <2>1. PICK h \in Frames : /\ h.function = "CalibrationTask" /\ h.pc = 12
                              /\ stack' = [stack EXCEPT ![t] = GoneOn(@, h)]
      BY <1>7 DEF GoesBack
    <2>2. new = GoneOn(calls, h)
      BY <1>1, <2>1
    <2> HIDE DEF calls, new
    <2>3. Head(new) = h
      BY <1>1, <2>2 DEF GoneOn
    <2> QED BY <1>2, <1>7, <2>1, <2>3 DEF GoesBack
  <1> QED BY <1>3, <1>4, <1>5, <1>6, <1>7 DEF Moves

-----------------------------------------------------------------------------
\* What the statements of one task leave alone.

LEMMA StatusKept ==
  ASSUME NEW t \in Tasks, Step(t)
  PROVE  Delay(t) \/ SuspendCalibration(t) \/ ResumeCalibration(t) \/ status' = status
  <1>1. CASE Control(t) \/ Hardware(t) \/ Fields(t)
    BY <1>1 DEF Control, Call, Return, Loop, Hardware, PowerOn, PowerOff, RelayOn, RelayOff,
                GeneratorOff, Switch, AdcAndGeneratorOn, StartAdc, StopAdc, SwitchAdc, Fields,
                ReadActive, SelectSensor, SetActive, ClearActive, ClearFirstStart, SetNormal,
                SetCalibration, Assign
  <1>2. CASE SensorSteps(t) \/ GainKeySteps(t)
    BY <1>2 DEF SensorSteps, EnableActive, DisableActive, AllNormal, AllCalibration,
                CalibrateVoltage, VoltageNormal, SetLevel, Adjust, ShuntMinGain, ClampMinGain,
                MinGain, TurnAgcOff, GainKeySteps, ChooseHigher, ChooseLower, ChooseLevel,
                ProgramPreamp, ProgramAdc, StoreLevel, TakeNewGain
  <1>3. CASE CalibrationSteps(t)
    BY <1>3 DEF CalibrationSteps, Ask, TakeAnswer, StableData, StoreVoltage, StoreReading, Store,
                FirstLevel, NextLevel
  <1> QED BY <1>1, <1>2, <1>3 DEF Step

LEMMA StateKept ==
  ASSUME NEW t \in Tasks, Step(t)
  PROVE  SelectSensor(t) \/ SetActive(t) \/ ClearActive(t) \/ ClearFirstStart(t)
         \/ SetNormal(t) \/ SetCalibration(t) \/ state' = state
  <1>1. CASE Control(t) \/ Hardware(t) \/ Fields(t)
    BY <1>1 DEF Control, Call, Return, Loop, Delay, Hardware, PowerOn, PowerOff, RelayOn, RelayOff,
                GeneratorOff, Switch, AdcAndGeneratorOn, StartAdc, StopAdc, SwitchAdc, Fields,
                ReadActive
  <1>2. CASE SensorSteps(t) \/ GainKeySteps(t)
    BY <1>2 DEF SensorSteps, EnableActive, DisableActive, AllNormal, AllCalibration,
                CalibrateVoltage, VoltageNormal, SetLevel, Adjust, ShuntMinGain, ClampMinGain,
                MinGain, TurnAgcOff, GainKeySteps, ChooseHigher, ChooseLower, ChooseLevel,
                ProgramPreamp, ProgramAdc, StoreLevel, TakeNewGain
  <1>3. CASE CalibrationSteps(t)
    BY <1>3 DEF CalibrationSteps, Ask, TakeAnswer, StableData, StoreVoltage, StoreReading, Store,
                FirstLevel, NextLevel, SuspendCalibration, ResumeCalibration
  <1> QED BY <1>1, <1>2, <1>3 DEF Step

LEMMA FieldsAre ==
  ASSUME DataOK, NEW t \in Tasks
  PROVE  /\ SelectSensor(t) => /\ Active' = Running(t).sensor
                               /\ state'.isActive = state.isActive
                               /\ state'.firstStart = state.firstStart
         /\ SetActive(t) => /\ state'.isActive /\ Active' = Active
                            /\ state'.firstStart = state.firstStart
         /\ ClearActive(t) => /\ ~state'.isActive /\ Active' = Active
                              /\ state'.firstStart = state.firstStart
         /\ ClearFirstStart(t) => /\ ~state'.firstStart /\ Active' = Active
                                  /\ state'.isActive = state.isActive
         /\ SetNormal(t) \/ SetCalibration(t) => /\ Active' = Active
                                                 /\ state'.isActive = state.isActive
                                                 /\ state'.firstStart = state.firstStart
  BY DEF DataOK, SelectSensor, SetActive, ClearActive, ClearFirstStart, SetNormal, SetCalibration,
         Assign, Active

LEMMA OutputKept ==
  ASSUME NEW t \in Tasks, Step(t)
  PROVE  PowerOn(t) \/ PowerOff(t) \/ RelayOn(t) \/ RelayOff(t) \/ GeneratorOff(t)
         \/ AdcAndGeneratorOn(t) \/ output' = output
  <1>1. CASE Control(t) \/ Hardware(t) \/ Fields(t)
    BY <1>1 DEF Control, Call, Return, Loop, Delay, Hardware, StartAdc, StopAdc, SwitchAdc, Fields,
                ReadActive, SelectSensor, SetActive, ClearActive, ClearFirstStart, SetNormal,
                SetCalibration, Assign
  <1>2. CASE SensorSteps(t) \/ GainKeySteps(t)
    BY <1>2 DEF SensorSteps, EnableActive, DisableActive, AllNormal, AllCalibration,
                CalibrateVoltage, VoltageNormal, SetLevel, Adjust, ShuntMinGain, ClampMinGain,
                MinGain, TurnAgcOff, GainKeySteps, ChooseHigher, ChooseLower, ChooseLevel,
                ProgramPreamp, ProgramAdc, StoreLevel, TakeNewGain
  <1>3. CASE CalibrationSteps(t)
    BY <1>3 DEF CalibrationSteps, Ask, TakeAnswer, StableData, StoreVoltage, StoreReading, Store,
                FirstLevel, NextLevel, SuspendCalibration, ResumeCalibration
  <1> QED BY <1>1, <1>2, <1>3 DEF Step

LEMMA ClockKept ==
  ASSUME DataOK, NEW t \in Tasks, Step(t)
  PROVE  AdcAndGeneratorOn(t) \/ StartAdc(t) \/ StopAdc(t) \/ adc'.on = adc.on
  <1>0. adc \in [on : BOOLEAN, gain : 1 .. 2 \cup Levels, input : Sensors]
    BY DEF DataOK
  <1>1. CASE Control(t) \/ Hardware(t) \/ Fields(t)
    BY <1>1 DEF Control, Call, Return, Loop, Delay, Hardware, PowerOn, PowerOff, RelayOn, RelayOff,
                GeneratorOff, Switch, Fields, ReadActive, SelectSensor, SetActive, ClearActive,
                ClearFirstStart, SetNormal, SetCalibration, Assign
  <1>2. CASE SensorSteps(t) \/ GainKeySteps(t)
    BY <1>0, <1>2 DEF SensorSteps, EnableActive, DisableActive, AllNormal, AllCalibration,
                CalibrateVoltage, VoltageNormal, SetLevel, Adjust, ShuntMinGain, ClampMinGain,
                MinGain, TurnAgcOff, GainKeySteps, ChooseHigher, ChooseLower, ChooseLevel,
                ProgramPreamp, ProgramAdc, StoreLevel, TakeNewGain
  <1>3. CASE CalibrationSteps(t)
    BY <1>3 DEF CalibrationSteps, Ask, TakeAnswer, StableData, StoreVoltage, StoreReading, Store,
                FirstLevel, NextLevel, SuspendCalibration, ResumeCalibration
  <1> QED BY <1>1, <1>2, <1>3 DEF Step

LEMMA HardwareIs ==
  ASSUME DataOK, NEW t \in Tasks
  PROVE  /\ PowerOn(t) => output' = [output EXCEPT !.power = TRUE] /\ adc' = adc
         /\ PowerOff(t) => output' = [output EXCEPT !.power = FALSE] /\ adc' = adc
         /\ RelayOn(t) => output' = [output EXCEPT !.relay = TRUE] /\ adc' = adc
         /\ RelayOff(t) => output' = [output EXCEPT !.relay = FALSE] /\ adc' = adc
         /\ GeneratorOff(t) => output' = [output EXCEPT !.generator = FALSE] /\ adc' = adc
         /\ AdcAndGeneratorOn(t) => output' = [output EXCEPT !.generator = TRUE] /\ adc'.on
         /\ StartAdc(t) => adc'.on /\ output' = output
         /\ StopAdc(t) => ~adc'.on /\ output' = output
  <1>0. adc \in [on : BOOLEAN, gain : 1 .. 2 \cup Levels, input : Sensors]
    BY DEF DataOK
  <1> QED BY <1>0 DEF PowerOn, PowerOff, RelayOn, RelayOff, GeneratorOff, Switch, AdcAndGeneratorOn,
                StartAdc, StopAdc, SwitchAdc

-----------------------------------------------------------------------------
\* The two tasks.  While a calibration is on, the keyboard's task only handles Stop, up
\* to its first statement, or has just started the calibration.
KeyboardAlone ==
  stack["keyboard"] # <<>> /\ Calibrating =>
    /\ Len(stack["keyboard"]) = 1
    /\ At("keyboard", "Stop", 1) \/ At("keyboard", "StartCalibration", 5)

LEMMA StepRuns ==
  ASSUME NEW t \in Tasks, Step(t)
  PROVE  Runs(t)
  <1>1. CASE Control(t) \/ Hardware(t) \/ Fields(t)
    BY <1>1 DEF Control, Call, Return, Loop, Delay, Hardware, PowerOn, PowerOff, RelayOn, RelayOff,
                GeneratorOff, Switch, AdcAndGeneratorOn, StartAdc, StopAdc, SwitchAdc, Fields,
                ReadActive, SelectSensor, SetActive, ClearActive, ClearFirstStart, SetNormal,
                SetCalibration, Assign, Does
  <1>2. CASE SensorSteps(t) \/ GainKeySteps(t)
    BY <1>2 DEF SensorSteps, EnableActive, DisableActive, AllNormal, AllCalibration,
                CalibrateVoltage, VoltageNormal, SetLevel, Adjust, ShuntMinGain, ClampMinGain,
                MinGain, TurnAgcOff, GainKeySteps, ChooseHigher, ChooseLower, ChooseLevel,
                ProgramPreamp, ProgramAdc, StoreLevel, TakeNewGain, Does
  <1>3. CASE CalibrationSteps(t)
    BY <1>3 DEF CalibrationSteps, Ask, TakeAnswer, StableData, StoreVoltage, StoreReading, Store,
                FirstLevel, NextLevel, SuspendCalibration, ResumeCalibration, Does
  <1> QED BY <1>1, <1>2, <1>3 DEF Step

\* The other task's stack.
LEMMA OtherStack ==
  ASSUME DriverTypes, NEW t \in Tasks, Step(t)
  PROVE  /\ StackInv' /\ stack[t] # <<>> /\ Moves(t)
         /\ t = "calibration" => stack'["keyboard"] = stack["keyboard"] /\ Calibrating
         /\ t = "keyboard" => stack'["calibration"] = stack["calibration"] /\ ~CalibrationRuns
  <1>1. Moves(t) /\ Runs(t)
    BY StepMoves, StepRuns
  <1>2. StackInv' /\ \A u \in Tasks \ {t} : stack'[u] = stack[u]
    BY <1>1, MovesKeepStack DEF DriverTypes
  <1> QED BY <1>1, <1>2 DEF Moves, Tasks, Runs, CalibrationRuns, Calibrating

\* No function calls StartCalibration or CalibrationTask, and of the keys' operations
\* only Stop.
LEMMA NotCalled ==
  ASSUME NEW calls, WellFormed(calls), calls # <<>>,
         Head(calls).function \in (Operations \ {"Stop"}) \cup {"CalibrationTask"}
  PROVE  Len(calls) = 1
  <1>1. Len(calls) \in Nat \ {0} /\ Head(calls) = calls[1]
    BY TopOf
  <1>2. ASSUME 2 \in 2 .. Len(calls) PROVE FALSE
    <2>1. WaitsFor(calls[2], calls[2 - 1].function)
      BY <1>2 DEF WellFormed
    <2>2. Head(calls).function = Callee[Body[calls[2].function][calls[2].pc - 1]]
          /\ Body[calls[2].function][calls[2].pc - 1] \in DOMAIN Callee
      BY <1>1, <2>1 DEF WaitsFor
    <2> QED BY <2>2, CalleesAre DEF Operations
  <1> DEFINE n == Len(calls)
  <1>3. n \in Nat \ {0} /\ 2 \notin 2 .. n
    BY <1>1, <1>2
  <1> HIDE DEF n
  <1>4. n = 1
    BY <1>3
  <1> QED BY <1>4 DEF n

LEMMA StatusIs ==
  ASSUME DataOK, NEW t \in Tasks
  PROVE  /\ Delay(t) => status'[t] = "delayed" /\ \A u \in Tasks \ {t} : status'[u] = status[u]
         /\ Wake(t) => status[t] = "delayed" /\ status'[t] = "ready"
                       /\ \A u \in Tasks \ {t} : status'[u] = status[u]
         /\ SuspendCalibration(t) => status'["calibration"] = "suspended"
                                     /\ status'["keyboard"] = status["keyboard"]
         /\ ResumeCalibration(t) =>
              /\ status'["calibration"] = IF status["calibration"] = "suspended" THEN "ready"
                                          ELSE status["calibration"]
              /\ status'["keyboard"] = status["keyboard"]
  BY DEF DataOK, Delay, Wake, SuspendCalibration, ResumeCalibration, Tasks

LEMMA KeyboardStaysAlone ==
  ASSUME KeysWhileCalibrating \subseteq {"Stop"}, DriverTypes, KeyboardAlone, [Next]_vars
  PROVE  KeyboardAlone'
  <1>0. "keyboard" \in Tasks /\ "calibration" \in Tasks /\ StackInv /\ DataOK
    BY DEF Tasks, DriverTypes
  <1>1. CASE Step("keyboard") /\ Calibrating
    <2>1. stack["keyboard"] # <<>> /\ Moves("keyboard")
      BY <1>0, <1>1, OtherStack
    <2>2. /\ Len(stack["keyboard"]) = 1
          /\ At("keyboard", "Stop", 1) \/ At("keyboard", "StartCalibration", 5)
      BY <1>1, <2>1 DEF KeyboardAlone
    <2>3. CASE At("keyboard", "Stop", 1)
      <3>1. Statement("keyboard") = "SuspendCalibration"
        BY <2>3 DEF At, Statement, Body, Stop
      <3>2. SuspendCalibration("keyboard")
        BY <1>0, <1>1, <3>1, StatementOfStep
      <3> QED BY <1>0, <3>2, StatusIs DEF KeyboardAlone, Calibrating
    <2>4. CASE At("keyboard", "StartCalibration", 5)
      <3>1. Statement("keyboard") = "Return"
        BY <2>4 DEF At, Statement, Body, StartCalibration
      <3>2. Return("keyboard")
        BY <1>0, <1>1, <3>1, StatementOfStep
      <3> DEFINE calls == stack["keyboard"]
      <3>3. stack'["keyboard"] = Tail(calls) /\ calls \in Seq(Frames)
        BY <1>0, <3>2 DEF Return, StackInv
      <3>4. Len(calls) = 1
        BY <2>2
      <3> HIDE DEF calls
      <3>5. Tail(calls) = <<>>
        BY <3>3, <3>4
      <3> QED BY <3>3, <3>5 DEF KeyboardAlone
    <2> QED BY <2>2, <2>3, <2>4
  <1>2. CASE Step("keyboard") /\ ~Calibrating
    <2>1. CASE ResumeCalibration("keyboard")
      <3>1. stack["keyboard"] # <<>> /\ WellFormed(stack["keyboard"])
        BY <1>0, <1>2, OtherStack DEF StackInv
      <3>2. Statement("keyboard") = "ResumeCalibration"
        BY <2>1 DEF ResumeCalibration, Does
      <3>3. Running("keyboard").function = "StartCalibration" /\ Running("keyboard").pc = 4
        BY <1>0, <3>1, <3>2, TopOfTask, BodyShape
      <3>4. Len(stack["keyboard"]) = 1
        BY <3>1, <3>3, NotCalled DEF Running, Operations
      <3>5. Goes("keyboard")
        BY <1>0, <2>1, DoesGoes DEF ResumeCalibration
      <3>6. PICK f \in Frames : /\ f.function = "StartCalibration" /\ f.pc = 4 + 1
                                /\ f.pc <= Len(Body[f.function])
                                /\ stack' = [stack EXCEPT !["keyboard"] = GoneOn(@, f)]
        BY <3>3, <3>5 DEF Goes, Onward
      <3> DEFINE calls == stack["keyboard"]
                 new == stack'["keyboard"]
      <3>7. new = GoneOn(calls, f)
        BY <1>0, <3>6 DEF StackInv
      <3>8. calls # <<>> /\ WellFormed(calls) /\ Head(calls).function = f.function /\ Len(calls) = 1
        BY <3>1, <3>3, <3>4, <3>6 DEF Running
      <3> HIDE DEF calls, new
      <3>9. new # <<>> /\ Head(new) = f /\ Len(new) = Len(calls)
        BY <3>6, <3>7, <3>8, TopReplaced
      <3> QED BY <3>6, <3>8, <3>9 DEF KeyboardAlone, At, Running, new
    <2>2. CASE ~ResumeCalibration("keyboard")
      <3>1. status'["calibration"] = "suspended"
        BY <1>0, <1>2, <2>2, StatusKept, StatusIs DEF Calibrating, Tasks
      <3> QED BY <3>1 DEF KeyboardAlone, Calibrating
    <2> QED BY <2>1, <2>2
  <1>3. CASE Step("calibration")
    <2>1. stack'["keyboard"] = stack["keyboard"] /\ Calibrating
      BY <1>0, <1>3, OtherStack
    <2> QED BY <2>1 DEF KeyboardAlone, At, Running
  <1>4. ASSUME NEW t \in Tasks, Wake(t) PROVE KeyboardAlone'
    <2>1. Calibrating' <=> Calibrating
      BY <1>0, <1>4, StatusIs DEF Calibrating, Tasks
    <2>2. stack' = stack
      BY <1>4 DEF Wake
    <2> QED BY <2>1, <2>2 DEF KeyboardAlone, At, Running
  <1>5. ASSUME NEW operation \in Keys, PressKey(operation) PROVE KeyboardAlone'
    <2>1. stack'["keyboard"] = <<Frame(operation, "Voltage")>> /\ status' = status
      BY <1>0, <1>5, PressKeyKeepsStack DEF PressKey
    <2>2. CASE Calibrating
      <3>1. operation = "Stop"
        BY <1>5, <2>2 DEF PressKey
      <3> QED BY <2>1, <3>1 DEF KeyboardAlone, At, Running, Frame
    <2>3. CASE ~Calibrating
      BY <2>1, <2>3 DEF KeyboardAlone, Calibrating
    <2> QED BY <2>2, <2>3
  <1>6. CASE (\E by \in {-1, 1} : AgcMovesGain(by)) \/ AnswerDialog \/ UNCHANGED vars
    <2>1. stack' = stack /\ status' = status
      BY <1>6 DEF AgcMovesGain, AnswerDialog, vars
    <2> QED BY <2>1 DEF KeyboardAlone, At, Running, Calibrating
  <1> QED BY <1>1, <1>2, <1>3, <1>4, <1>5, <1>6 DEF Next, Tasks

-----------------------------------------------------------------------------
\* One sensor at a time: the sensor is changed between Disable and Enable, and no
\* other task runs in between.
OnlyActiveOn == \A s \in Sensors : sensor[s].on => s = Active

Selecting ==
  \A t \in Tasks : At(t, "SetAndActivateSensor", 4) =>
    /\ ~sensor[Active].on
    /\ t = "calibration" => status[t] = "ready"

\* What a stop in the keyboard's task has reached.
Stopping ==
  /\ \A p \in 1 .. 10 : At("keyboard", "StopMeasurements", p) =>
       /\ p >= 2 => ~adc.on
       /\ p >= 6 => ~output.relay
       /\ p >= 7 => ~output.power
       /\ p >= 8 => ~output.generator
       /\ p >= 10 => ~state.isActive
  /\ At("keyboard", "Stop", 3) =>
       ~adc.on /\ ~output.relay /\ ~output.power /\ ~output.generator /\ ~state.isActive

InterferenceInv == DriverTypes /\ KeyboardAlone /\ OnlyActiveOn /\ Selecting /\ Stopping

LEMMA SelectsFrom ==
  ASSUME NEW f \in Functions, NEW p \in 1 .. Len(Body[f]), Body[f][p] = "SelectSensor"
  PROVE  f = "SetAndActivateSensor" /\ p = 4
  BY BodyShape

\* No task but the one at SelectSensor can run.
LEMMA SelectingAlone ==
  ASSUME InterferenceInv, NEW t \in Tasks, At(t, "SetAndActivateSensor", 4)
  PROVE  /\ \A u \in Tasks : Step(u) => u = t
         /\ \A u \in Tasks : Wake(u) => u = "keyboard"
  <1>1. Statement(t) = "SelectSensor"
    BY DEF At, Statement, Body, SetAndActivateSensor
  <1>2. CASE t = "calibration"
    <2>1. CalibrationRuns
      BY <1>1, <1>2 DEF InterferenceInv, Selecting, CalibrationRuns
    <2>2. ~Step("keyboard")
      BY <2>1, StepRuns DEF Runs, Tasks
    <2>3. ~Wake("calibration")
      BY <2>1 DEF Wake, CalibrationRuns
    <2> QED BY <1>2, <2>2, <2>3 DEF Tasks
  <1>3. CASE t = "keyboard"
    <2>1. ~Calibrating
      BY <1>3 DEF InterferenceInv, KeyboardAlone, At
    <2>2. ~Step("calibration") /\ ~Wake("calibration")
      BY <2>1, StepRuns DEF Runs, CalibrationRuns, Calibrating, Tasks, Wake
    <2> QED BY <1>3, <2>2 DEF Tasks
  <1> QED BY <1>2, <1>3 DEF Tasks

LEMMA StaysOnlyActive ==
  ASSUME InterferenceInv, [Next]_vars
  PROVE  OnlyActiveOn'
  <1>0. DriverTypes /\ DataOK /\ StackInv /\ OnlyActiveOn /\ Active \in Sensors
    BY StateTyped DEF InterferenceInv, DriverTypes
  <1>1. ASSUME NEW t \in Tasks, SelectSensor(t), Step(t) PROVE OnlyActiveOn'
    <2>1. Statement(t) = "SelectSensor" /\ stack[t] # <<>>
      BY <1>0, <1>1, OtherStack DEF SelectSensor, Assign, Does
    <2>2. Running(t).function = "SetAndActivateSensor" /\ Running(t).pc = 4
      BY <1>0, <2>1, TopOfTask, SelectsFrom
    <2>3. ~sensor[Active].on
      BY <2>1, <2>2 DEF InterferenceInv, Selecting, At
    <2>4. sensor' = sensor
      BY <1>1 DEF SelectSensor, Assign
    <2> QED BY <1>0, <2>3, <2>4 DEF OnlyActiveOn
  <1>2. ASSUME Active' = Active, InputsKept PROVE OnlyActiveOn'
    BY <1>0, <1>2 DEF OnlyActiveOn, InputsKept
  <1>3. ASSUME NEW t \in Tasks, EnableActive(t) \/ DisableActive(t) PROVE OnlyActiveOn'
    <2>1. Active' = Active
      BY <1>3 DEF EnableActive, DisableActive, Active
    <2> QED BY <1>0, <1>3, <2>1, EnableTurnsOn, DisableTurnsOff DEF OnlyActiveOn
  <1>4. ASSUME NEW t \in Tasks, Step(t) PROVE OnlyActiveOn'
    <2>1. SelectSensor(t) \/ Active' = Active
      BY <1>0, <1>4, StateKept, FieldsAre DEF Active
    <2> QED BY <1>0, <1>1, <1>2, <1>3, <1>4, <2>1, StepsKeepInputs
  <1>5. ASSUME NEW t \in Tasks, Wake(t) PROVE OnlyActiveOn'
    <2>1. Active' = Active /\ InputsKept
      BY <1>5 DEF Wake, Active, InputsKept
    <2> QED BY <1>2, <2>1
  <1>6. CASE (\E by \in {-1, 1} : AgcMovesGain(by)) \/ AnswerDialog
             \/ (\E operation \in Keys : PressKey(operation)) \/ UNCHANGED vars
    <2>1. Active' = Active
      BY <1>6 DEF AgcMovesGain, AnswerDialog, PressKey, vars, Active
    <2> QED BY <1>0, <1>2, <1>6, <2>1, OthersKeepInputs
  <1> QED BY <1>4, <1>5, <1>6 DEF Next

LEMMA KeepsSelecting ==
  ASSUME InterferenceInv, [Next]_vars
  PROVE  Selecting'
  <1>0. DriverTypes /\ DataOK /\ StackInv /\ Active \in Sensors
    BY StateTyped DEF InterferenceInv, DriverTypes
  <1> SUFFICES ASSUME NEW t \in Tasks, At(t, "SetAndActivateSensor", 4)'
               PROVE  /\ ~sensor'[Active'].on
                      /\ t = "calibration" => status'[t] = "ready"
    BY DEF Selecting
  <1>1. CASE Step(t)
    <2>1. StackInv' /\ Moves(t) /\ stack[t] # <<>> /\ Runs(t)
      BY <1>0, <1>1, OtherStack, StepRuns
    <2>2. ~CalledFrom("SetAndActivateSensor", 4)
      BY DEF CalledFrom, Body, SetAndActivateSensor, Callee
    <2>3. At(t, "SetAndActivateSensor", 4 - 1)
      BY <1>0, <2>1, <2>2, CameFrom
    <2>4. Statement(t) = "DisableActive"
      BY <2>3 DEF At, Statement, Body, SetAndActivateSensor
    <2>5. DisableActive(t)
      BY <1>1, <2>4, StatementOfStep
    <2>6. Active' = Active /\ status' = status
      BY <2>5 DEF DisableActive, Active
    <2>7. ~sensor'[Active].on
      BY <1>0, <2>5, DisableTurnsOff
    <2> QED BY <2>1, <2>6, <2>7 DEF Runs, CalibrationRuns
  <1>2. CASE ~Step(t)
    <2>1. At(t, "SetAndActivateSensor", 4)
      <3>1. ASSUME NEW u \in Tasks, Step(u) PROVE stack'[t] = stack[t]
        BY <1>0, <1>2, <3>1, OtherStack DEF Tasks
      <3>2. ASSUME NEW operation \in Keys, PressKey(operation) PROVE stack'[t] = stack[t]
        <4>1. ~At("keyboard", "SetAndActivateSensor", 4)'
          <5>1. stack'["keyboard"] = <<Frame(operation, "Voltage")>>
            BY <1>0, <3>2, PressKeyKeepsStack
          <5> QED BY <5>1 DEF At, Running, Frame
        <4> QED BY <1>0, <3>2, <4>1, PressKeyKeepsStack DEF Tasks
      <3>3. stack'[t] = stack[t]
        BY <3>1, <3>2 DEF Next, Wake, AgcMovesGain, AnswerDialog, vars
      <3> QED BY <3>3 DEF At, Running
    <2>2. ~sensor[Active].on /\ (t = "calibration" => status[t] = "ready")
      BY <2>1 DEF InterferenceInv, Selecting
    <2>3. \A u \in Tasks : ~Step(u) /\ (Wake(u) => u = "keyboard")
      BY <1>2, <2>1, SelectingAlone
    <2>4. CASE \E u \in Tasks : Wake(u)
      <3>1. Wake("keyboard")
        BY <2>3, <2>4
      <3> QED BY <1>0, <2>2, <3>1, StatusIs DEF Wake, Active, Tasks
    <2>5. CASE (\E by \in {-1, 1} : AgcMovesGain(by)) \/ AnswerDialog
             \/ (\E operation \in Keys : PressKey(operation)) \/ UNCHANGED vars
      <3>1. Active' = Active /\ status' = status
        BY <2>5 DEF AgcMovesGain, AnswerDialog, PressKey, vars, Active
      <3>2. InputsKept
        BY <1>0, <2>5, OthersKeepInputs
      <3> QED BY <1>0, <2>2, <3>1, <3>2 DEF InputsKept
    <2> QED BY <2>3, <2>4, <2>5 DEF Next
  <1> QED BY <1>1, <1>2

LEMMA StepOfStop ==
  ASSUME InterferenceInv, NEW p \in 2 .. 10, Step("keyboard"),
         At("keyboard", "StopMeasurements", p - 1)
  PROVE  /\ ~adc'.on
         /\ p >= 6 => ~output'.relay
         /\ p >= 7 => ~output'.power
         /\ p >= 8 => ~output'.generator
         /\ p >= 10 => ~state'.isActive
  <1> DEFINE t == "keyboard"
  <1>0. /\ t \in Tasks /\ DataOK /\ Statement(t) = StopMeasurements[p - 1]
        /\ p - 1 >= 2 => ~adc.on
        /\ p - 1 >= 6 => ~output.relay
        /\ p - 1 >= 7 => ~output.power
        /\ p - 1 >= 8 => ~output.generator
        /\ p - 1 >= 10 => ~state.isActive
        /\ output \in [power : BOOLEAN, generator : BOOLEAN, relay : BOOLEAN]
    BY DEF InterferenceInv, Stopping, DriverTypes, DataOK, At, Statement, Body, Tasks
  <1>1. CASE p = 2
    <2>1. StopAdc(t)
      BY <1>0, <1>1, StatementOfStep DEF StopMeasurements
    <2> QED BY <1>0, <1>1, <2>1, HardwareIs
  <1>2. CASE p \in {3, 5, 9}
    <2>1. Delay(t)
      BY <1>0, <1>2, StatementOfStep DEF StopMeasurements
    <2> QED BY <1>0, <1>2, <2>1 DEF Delay
  <1>3. CASE p = 4
    <2>1. DisableActive(t)
      BY <1>0, <1>3, StatementOfStep DEF StopMeasurements
    <2>2. adc'.on = adc.on
      BY <1>0, <2>1 DEF DisableActive, DataOK
    <2> QED BY <1>0, <1>3, <2>2
  <1>4. CASE p = 6
    <2>1. RelayOff(t)
      BY <1>0, <1>4, StatementOfStep DEF StopMeasurements
    <2>2. output' = [output EXCEPT !.relay = FALSE] /\ adc' = adc
      BY <1>0, <2>1, HardwareIs
    <2> QED BY <1>0, <1>4, <2>2
  <1>5. CASE p = 7
    <2>1. PowerOff(t)
      BY <1>0, <1>5, StatementOfStep DEF StopMeasurements
    <2>2. output' = [output EXCEPT !.power = FALSE] /\ adc' = adc
      BY <1>0, <2>1, HardwareIs
    <2> QED BY <1>0, <1>5, <2>2
  <1>6. CASE p = 8
    <2>1. GeneratorOff(t)
      BY <1>0, <1>6, StatementOfStep DEF StopMeasurements
    <2>2. output' = [output EXCEPT !.generator = FALSE] /\ adc' = adc
      BY <1>0, <2>1, HardwareIs
    <2> QED BY <1>0, <1>6, <2>2
  <1>7. CASE p = 10
    <2>1. ClearActive(t)
      BY <1>0, <1>7, StatementOfStep DEF StopMeasurements
    <2>2. ~state'.isActive /\ output' = output /\ adc' = adc
      BY <1>0, <2>1, FieldsAre DEF ClearActive, Assign
    <2> QED BY <1>0, <1>7, <2>2
  <1> QED BY <1>1, <1>2, <1>3, <1>4, <1>5, <1>6, <1>7

\* The calibration's task does not run while the keyboard's stops.
LEMMA StoppingAlone ==
  ASSUME KeyboardAlone, NEW p, At("keyboard", "StopMeasurements", p) \/ At("keyboard", "Stop", 3)
  PROVE  ~Calibrating
  BY DEF KeyboardAlone, At

LEMMA KeepsStopping ==
  ASSUME InterferenceInv, [Next]_vars
  PROVE  Stopping'
  <1> DEFINE t == "keyboard"
  <1>0. DriverTypes /\ DataOK /\ StackInv /\ KeyboardAlone /\ Stopping /\ t \in Tasks
    BY DEF InterferenceInv, DriverTypes, Tasks
  <1>1. CASE Step(t)
    <2>1. StackInv' /\ Moves(t) /\ stack[t] # <<>>
      BY <1>0, <1>1, OtherStack
    <2>2. ASSUME NEW p \in 1 .. 10, At(t, "StopMeasurements", p)', p # 1
          PROVE  At(t, "StopMeasurements", p - 1)
      <3>1. ~CalledFrom("StopMeasurements", p)
        BY <2>2 DEF CalledFrom, Body, StopMeasurements, Callee
      <3> QED BY <1>0, <2>1, <2>2, <3>1, CameFrom
    <2>3. ASSUME NEW p \in 1 .. 10, At(t, "StopMeasurements", p)'
          PROVE  /\ p >= 2 => ~adc'.on
                 /\ p >= 6 => ~output'.relay
                 /\ p >= 7 => ~output'.power
                 /\ p >= 8 => ~output'.generator
                 /\ p >= 10 => ~state'.isActive
      <3>1. CASE p = 1
        BY <3>1
      <3>2. CASE p # 1
        <4>1. p \in 2 .. 10
          BY <3>2
        <4> QED BY <1>1, <2>2, <2>3, <3>2, <4>1, StepOfStop
      <3> QED BY <3>1, <3>2
    <2>4. ASSUME At(t, "Stop", 3)'
          PROVE  /\ At(t, "StopMeasurements", 10)
                 /\ UNCHANGED <<adc, output, state>>
      <3>1. ~At(t, "Stop", 3 - 1)
        <4> SUFFICES ASSUME At(t, "Stop", 2) PROVE FALSE
          OBVIOUS
        <4>1. Statement(t) = "StopAll"
          BY DEF At, Statement, Body, Stop
        <4>2. Call(t) /\ Made(Statement(t), Running(t)) /\ Callee[Statement(t)] = "StopMeasurements"
          BY <1>0, <1>1, <4>1, StatementOfStep DEF Callee, Made
        <4>3. Head(stack'[t]).function = "StopMeasurements"
          BY <1>0, <4>2, CallMoves, StateTyped
        <4> QED BY <2>4, <4>3 DEF At, Running
      <3>2. Returns(t) /\ Running(t).function = Callee[Body["Stop"][3 - 1]]
        BY <1>0, <2>1, <2>4, <3>1, CameFrom
      <3>3. Running(t).function = "StopMeasurements" /\ Len(Body["StopMeasurements"]) = 10
        BY <3>2 DEF Body, Stop, Callee, StopMeasurements
      <3>4. Return(t)
        BY <1>0, <1>1, <3>2, StatementOfStep DEF Returns
      <3> QED BY <2>1, <3>2, <3>3, <3>4 DEF Returns, At, Return
    <2>5. At(t, "Stop", 3)' =>
            ~adc'.on /\ ~output'.relay /\ ~output'.power /\ ~output'.generator /\ ~state'.isActive
      BY <1>0, <2>4 DEF Stopping
    <2> QED BY <2>3, <2>5 DEF Stopping
  <1>2. CASE Step("calibration")
    <2>1. stack'[t] = stack[t] /\ Calibrating
      BY <1>0, <1>2, OtherStack DEF Tasks
    <2>2. \A p : ~At(t, "StopMeasurements", p) /\ ~At(t, "Stop", 3)
      BY <1>0, <2>1, StoppingAlone
    <2> QED BY <2>1, <2>2 DEF Stopping, At, Running
  <1>3. ASSUME NEW operation \in Keys, PressKey(operation) PROVE Stopping'
    <2>1. stack'[t] = <<Frame(operation, "Voltage")>> /\ operation \in Operations
      BY <1>0, <1>3, PressKeyKeepsStack, DriverAssumption
    <2> QED BY <2>1 DEF Stopping, At, Running, Frame, Operations
  <1>4. CASE (\E u \in Tasks : Wake(u)) \/ (\E by \in {-1, 1} : AgcMovesGain(by)) \/ AnswerDialog
             \/ UNCHANGED vars
    <2>1. stack' = stack /\ output' = output /\ state' = state
      BY <1>4 DEF Wake, AgcMovesGain, AnswerDialog, vars
    <2>2. adc'.on = adc.on
      BY <1>0, <1>4 DEF Wake, AgcMovesGain, AnswerDialog, vars, DataOK
    <2> QED BY <1>0, <2>1, <2>2 DEF Stopping, At, Running
  <1> QED BY <1>1, <1>2, <1>3, <1>4 DEF Next, Tasks

-----------------------------------------------------------------------------
LEMMA InitInterference == Init => InterferenceInv
  <1> SUFFICES ASSUME Init PROVE InterferenceInv
    OBVIOUS
  <1>1. stack["keyboard"] = <<>> /\ stack["calibration"] = <<Frame("CalibrationTask", "Voltage")>>
    BY DEF Init
  <1>2. \A s \in Sensors : ~sensor[s].on
    BY DEF Init
  <1>3. KeyboardAlone
    BY <1>1 DEF KeyboardAlone
  <1>4. \A t \in Tasks : ~At(t, "SetAndActivateSensor", 4)
    BY <1>1 DEF At, Running, Frame, Tasks
  <1> QED BY <1>1, <1>2, <1>3, <1>4, InitTyped DEF InterferenceInv, OnlyActiveOn, Selecting, Stopping, At

LEMMA KeepsInterference ==
  ASSUME KeysWhileCalibrating \subseteq {"Stop"}
  PROVE  InterferenceInv /\ [Next]_vars => InterferenceInv'
  BY KeyboardStaysAlone, StaysOnlyActive, KeepsSelecting, KeepsStopping, NextKeepsTypes
     DEF InterferenceInv

LEMMA AlwaysInterference ==
  ASSUME KeysWhileCalibrating \subseteq {"Stop"}
  PROVE  Spec => []InterferenceInv
  <1> QED BY InitInterference, KeepsInterference, PTL DEF Spec

\* At most one sensor's input task is enabled, however starts, stops, switches and the
\* calibration are nested and whenever Stop interrupts the calibration.
THEOREM OneSensorAtATime ==
  ASSUME KeysWhileCalibrating \subseteq {"Stop"}
  PROVE  Spec => []OneSensorOn
  <1>1. InterferenceInv => OneSensorOn
    BY DEF InterferenceInv, OnlyActiveOn, OneSensorOn
  <1> QED BY <1>1, AlwaysInterference, PTL

\* Stop leaves everything off, wherever it interrupted the calibration.
THEOREM StopStops ==
  ASSUME KeysWhileCalibrating \subseteq {"Stop"}
  PROVE  Spec => []StopAlwaysStops
  <1>1. InterferenceInv => StopAlwaysStops
    <2> SUFFICES ASSUME InterferenceInv, stack["keyboard"] # <<>>,
                        Running("keyboard").function = "Stop", Statement("keyboard") = "Return"
                 PROVE  ~Calibrating /\ ~state.isActive /\ Consistent
      BY DEF StopAlwaysStops
    <2>0. DataOK /\ StackInv /\ "keyboard" \in Tasks
      BY DEF InterferenceInv, DriverTypes, Tasks
    <2>1. Running("keyboard").pc = Len(Body["Stop"]) /\ Len(Body["Stop"]) = 3
      <3>1. "Stop" \in Functions /\ Len(Body["Stop"]) = 3
        BY FunctionsAre DEF Body, Stop
      <3> DEFINE pc == Running("keyboard").pc
      <3>2. pc \in 1 .. Len(Body["Stop"]) /\ Body["Stop"][pc] = "Return"
        BY <2>0, TopOfTask
      <3> HIDE DEF pc
      <3>3. pc = Len(Body["Stop"])
        BY <3>2 DEF Body, Stop
      <3> QED BY <3>1, <3>3 DEF pc
    <2>2. At("keyboard", "Stop", 3)
      BY <2>1 DEF At
    <2>3. ~Calibrating
      BY <2>2, StoppingAlone DEF InterferenceInv
    <2>4. ~adc.on /\ ~output.relay /\ ~output.power /\ ~output.generator /\ ~state.isActive
      BY <2>2 DEF InterferenceInv, Stopping
    <2>5. /\ output = [power |-> FALSE, generator |-> FALSE, relay |-> FALSE]
          /\ adc.on = FALSE /\ state.isActive = FALSE
      BY <2>0, <2>4 DEF DataOK
    <2> QED BY <2>3, <2>5 DEF Consistent
  <1> QED BY <1>1, AlwaysInterference, PTL

-----------------------------------------------------------------------------
\* The output.  With no key during a calibration one task at a time is at work; what
\* it may rely on depends on where it is.
AllOff ==
  /\ output = [power |-> FALSE, generator |-> FALSE, relay |-> FALSE]
  /\ ~adc.on /\ ~state.isActive

AllOn ==
  /\ output = [power |-> TRUE, generator |-> TRUE, relay |-> TRUE]
  /\ adc.on /\ state.isActive /\ sensor[Active].on

Settled == AllOff \/ AllOn

InStart(p) ==
  /\ p <= 3 => Settled
  /\ p >= 2 => ~state.firstStart
  /\ p >= 3 => sensor[Active].on
  /\ p \in 4 .. 5 => /\ output = [power |-> TRUE, generator |-> state.isActive,
                                  relay |-> state.isActive]
                     /\ adc.on = state.isActive
  /\ p = 6 => /\ output = [power |-> TRUE, generator |-> TRUE, relay |-> state.isActive]
              /\ adc.on
  /\ p = 7 => output = [power |-> TRUE, generator |-> TRUE, relay |-> TRUE] /\ adc.on
  /\ p >= 8 => AllOn

InFirstStart(p) ==
  /\ output = [power |-> FALSE, generator |-> FALSE, relay |-> FALSE]
  /\ ~state.isActive
  /\ p \notin {3, 4} => ~adc.on
  /\ state.firstStart <=> p <= 6

InStop(p) ==
  /\ p = 1 => Settled
  /\ p >= 2 => ~adc.on
  /\ p \in 2 .. 5 => output = [power |-> state.isActive, generator |-> state.isActive,
                               relay |-> state.isActive]
  /\ p = 6 => output = [power |-> state.isActive, generator |-> state.isActive, relay |-> FALSE]
  /\ p = 7 => output = [power |-> FALSE, generator |-> state.isActive, relay |-> FALSE]
  /\ p >= 8 => output = [power |-> FALSE, generator |-> FALSE, relay |-> FALSE]
  /\ p >= 10 => ~state.isActive

InActivate(p) ==
  /\ Settled
  /\ p \in 3 .. 6 => AllOff
  /\ p >= 6 => sensor[Active].on

\* The other functions' statements change nothing of the output; after their Start it is on.
Started(f, p) ==
  \/ f = "CalibrationTask" /\ p \in 4 .. 8
  \/ f = "RequestResistorChangeAndCheckVout" /\ p \in 6 .. 8
  \/ f = "CalibrateSensor" /\ p \in 5 .. 7

Switching == {"StartMeasurements", "FirstStart", "StopMeasurements", "SetAndActivateSensor"}

Reached(f, p) ==
  /\ f = "StartMeasurements" => InStart(p)
  /\ f = "FirstStart" => InFirstStart(p)
  /\ f = "StopMeasurements" => InStop(p)
  /\ f = "SetAndActivateSensor" => InActivate(p)
  /\ f \notin Switching => Settled /\ (Started(f, p) => AllOn)

Actor == IF Calibrating THEN "calibration" ELSE "keyboard"

ActorReached ==
  /\ stack[Actor] = <<>> => Settled
  /\ \A f \in Functions, p \in 1 .. 20 : At(Actor, f, p) => Reached(f, p)

\* Where a suspended calibration waits, and the keyboard during a calibration.
Parked ==
  /\ ~Calibrating => At("calibration", "CalibrationTask", 1) \/ At("calibration", "Stop", 2)
  /\ Calibrating => ~At("keyboard", "Stop", 1)

\* The first start is made once, inside the first StartMeasurements.
NotStarted ==
  state.firstStart =>
    /\ ~state.isActive
    /\ \A t \in Tasks : \A i \in 1 .. Len(stack[t]) :
         /\ stack[t][i].wasActive = FALSE
         /\ stack[t][i].function = "StartMeasurements" => stack[t][i].pc <= 2

InsideFirstStart ==
  \A t \in Tasks : \A i \in 2 .. Len(stack[t]) :
    stack[t][i].function = "FirstStart" => state.firstStart /\ i = 2

OutputInv == InterferenceInv /\ Parked /\ NotStarted /\ InsideFirstStart /\ ActorReached

SameOutput ==
  /\ output' = output /\ adc'.on = adc.on /\ Active' = Active
  /\ state'.isActive = state.isActive /\ state'.firstStart = state.firstStart
  /\ \A s \in Sensors : sensor'[s].on = sensor[s].on

\* The statements that change something the conditions above are about.
Switches == {"PowerOn", "PowerOff", "RelayOn", "RelayOff", "GeneratorOff", "AdcAndGeneratorOn",
             "StartAdc", "StopAdc", "SelectSensor", "SetActive", "ClearActive",
             "ClearFirstStart", "EnableActive", "DisableActive"}

LEMMA PlainSteps ==
  ASSUME DriverTypes, NEW t \in Tasks, Step(t), Statement(t) \notin Switches
  PROVE  SameOutput
  <1>1. /\ ~PowerOn(t) /\ ~PowerOff(t) /\ ~RelayOn(t) /\ ~RelayOff(t) /\ ~GeneratorOff(t)
        /\ ~AdcAndGeneratorOn(t) /\ ~StartAdc(t) /\ ~StopAdc(t) /\ ~SelectSensor(t)
        /\ ~SetActive(t) /\ ~ClearActive(t) /\ ~ClearFirstStart(t) /\ ~EnableActive(t)
        /\ ~DisableActive(t)
    BY DEF PowerOn, PowerOff, RelayOn, RelayOff, GeneratorOff, Switch, AdcAndGeneratorOn, StartAdc,
           StopAdc, SwitchAdc, SelectSensor, SetActive, ClearActive, ClearFirstStart, Assign,
           EnableActive, DisableActive, Does, Switches
  <1>2. output' = output
    BY <1>1, OutputKept
  <1>3. adc'.on = adc.on
    BY <1>1, ClockKept DEF DriverTypes
  <1>4. /\ Active' = Active
        /\ state'.isActive = state.isActive /\ state'.firstStart = state.firstStart
    BY <1>1, StateKept, FieldsAre DEF DriverTypes, Active
  <1>5. \A s \in Sensors : sensor'[s].on = sensor[s].on
    BY <1>1, StepsKeepInputs DEF InputsKept
  <1> QED BY <1>2, <1>3, <1>4, <1>5 DEF SameOutput

LEMMA SettledStays ==
  ASSUME DataOK, SameOutput
  PROVE  /\ Settled => Settled'
         /\ AllOff => AllOff'
         /\ AllOn => AllOn'
         /\ sensor[Active].on => sensor'[Active'].on
  <1>1. sensor'[Active'].on = sensor[Active].on
    BY StateTyped DEF SameOutput
  <1>2. AllOff => AllOff'
    BY DEF SameOutput, AllOff
  <1>3. AllOn => AllOn'
    BY <1>1 DEF SameOutput, AllOn
  <1> QED BY <1>1, <1>2, <1>3 DEF Settled

LEMMA ReachedStays ==
  ASSUME DataOK, SameOutput, NEW f, NEW p, Reached(f, p)
  PROVE  Reached(f, p)'
  <1>1. f = "StartMeasurements" => InStart(p)'
    BY SettledStays DEF SameOutput, InStart, Reached
  <1>2. f = "FirstStart" => InFirstStart(p)'
    BY SettledStays DEF SameOutput, InFirstStart, Reached
  <1>3. f = "StopMeasurements" => InStop(p)'
    BY SettledStays DEF SameOutput, InStop, Reached
  <1>4. f = "SetAndActivateSensor" => InActivate(p)'
    BY SettledStays DEF SameOutput, InActivate, Reached
  <1>5. f \notin Switching => Settled' /\ (Started(f, p) => AllOn')
    BY SettledStays DEF Reached
  <1> QED BY <1>1, <1>2, <1>3, <1>4, <1>5 DEF Reached, Started

-----------------------------------------------------------------------------
\* The statements of the functions that switch the output, one after the other.

LEMMA StartGoesOn ==
  ASSUME DriverTypes, NEW t \in Tasks, Step(t), NEW p \in 3 .. 7, At(t, "StartMeasurements", p),
         InStart(p)
  PROVE  InStart(p + 1)'
  <1>0. /\ DataOK /\ Statement(t) = StartMeasurements[p] /\ Active \in Sensors
        /\ output \in [power : BOOLEAN, generator : BOOLEAN, relay : BOOLEAN]
    BY StateTyped DEF DriverTypes, DataOK, At, Statement, Body
  <1>1. CASE p = 3
    <2>1. PowerOn(t)
      BY <1>0, <1>1, StatementOfStep DEF StartMeasurements
    <2>2. output' = [output EXCEPT !.power = TRUE] /\ adc' = adc /\ state' = state /\ sensor' = sensor
      BY <1>0, <2>1, HardwareIs DEF PowerOn, Switch
    <2>3. Active' = Active /\ sensor'[Active'].on = sensor[Active].on
      BY <2>2 DEF Active
    <2>4. Settled /\ ~state.firstStart /\ sensor[Active].on /\ state.isActive \in BOOLEAN
      BY <1>0, <1>1, StateTyped DEF InStart
    <2>5. /\ adc.on = state.isActive
          /\ output.generator = state.isActive /\ output.relay = state.isActive
      <3>1. CASE AllOff
        BY <1>0, <2>4, <3>1 DEF AllOff, DataOK
      <3>2. CASE AllOn
        BY <1>0, <2>4, <3>2 DEF AllOn, DataOK
      <3> QED BY <2>4, <3>1, <3>2 DEF Settled
    <2>6. output' = [power |-> TRUE, generator |-> state.isActive, relay |-> state.isActive]
      BY <1>0, <2>2, <2>5
    <2>7. adc'.on = state'.isActive /\ state'.isActive = state.isActive
      BY <2>2, <2>5
    <2>8. ~state'.firstStart /\ sensor'[Active'].on
      BY <2>2, <2>3, <2>4
    <2> QED BY <1>1, <2>6, <2>7, <2>8 DEF InStart
  <1>2. CASE p = 4
    <2>1. Delay(t)
      BY <1>0, <1>2, StatementOfStep DEF StartMeasurements
    <2>2. output' = output /\ adc' = adc /\ state' = state /\ sensor' = sensor
      BY <2>1 DEF Delay
    <2>3. Active' = Active /\ sensor'[Active'].on = sensor[Active].on
      BY <2>2 DEF Active
    <2> QED BY <1>2, <2>2, <2>3 DEF InStart
  <1>3. CASE p = 5
    <2>1. AdcAndGeneratorOn(t)
      BY <1>0, <1>3, StatementOfStep DEF StartMeasurements
    <2>2. output' = [output EXCEPT !.generator = TRUE] /\ adc'.on /\ state' = state /\ sensor' = sensor
      BY <1>0, <2>1, HardwareIs DEF AdcAndGeneratorOn
    <2>3. Active' = Active /\ sensor'[Active'].on = sensor[Active].on
      BY <2>2 DEF Active
    <2>4. /\ output = [power |-> TRUE, generator |-> state.isActive, relay |-> state.isActive]
          /\ ~state.firstStart /\ sensor[Active].on
      BY <1>3 DEF InStart
    <2>5. output' = [power |-> TRUE, generator |-> TRUE, relay |-> state'.isActive]
      BY <2>2, <2>4
    <2>6. ~state'.firstStart /\ sensor'[Active'].on /\ adc'.on
      BY <2>2, <2>3, <2>4
    <2>7. InStart(6)'
      BY <2>5, <2>6 DEF InStart
    <2> QED BY <1>3, <2>7
  <1>4. CASE p = 6
    <2>1. RelayOn(t)
      BY <1>0, <1>4, StatementOfStep DEF StartMeasurements
    <2>2. output' = [output EXCEPT !.relay = TRUE] /\ adc' = adc /\ state' = state /\ sensor' = sensor
      BY <1>0, <2>1, HardwareIs DEF RelayOn, Switch
    <2>3. Active' = Active /\ sensor'[Active'].on = sensor[Active].on
      BY <2>2 DEF Active
    <2>4. /\ output = [power |-> TRUE, generator |-> TRUE, relay |-> state.isActive]
          /\ ~state.firstStart /\ sensor[Active].on /\ adc.on
      BY <1>4 DEF InStart
    <2>5. output' = [power |-> TRUE, generator |-> TRUE, relay |-> TRUE]
      BY <2>2, <2>4
    <2>6. ~state'.firstStart /\ sensor'[Active'].on /\ adc'.on
      BY <2>2, <2>3, <2>4
    <2>7. InStart(7)'
      BY <2>5, <2>6 DEF InStart
    <2> QED BY <1>4, <2>7
  <1>5. CASE p = 7
    <2>1. SetActive(t)
      BY <1>0, <1>5, StatementOfStep DEF StartMeasurements
    <2>2. /\ output' = output /\ adc' = adc /\ sensor' = sensor /\ Active' = Active
          /\ state'.isActive /\ state'.firstStart = state.firstStart
      BY <1>0, <2>1, FieldsAre DEF SetActive, Assign
    <2>3. sensor'[Active'].on = sensor[Active].on
      BY <2>2
    <2> QED BY <1>5, <2>2, <2>3 DEF InStart, AllOn
  <1> QED BY <1>1, <1>2, <1>3, <1>4, <1>5

LEMMA FirstStartGoesOn ==
  ASSUME DriverTypes, NEW t \in Tasks, Step(t), NEW p \in 2 .. 6, At(t, "FirstStart", p),
         InFirstStart(p)
  PROVE  InFirstStart(p + 1)'
  <1>0. DataOK /\ Statement(t) = FirstStart[p]
    BY DEF DriverTypes, At, Statement, Body
  <1>1. CASE p = 2
    <2>1. StartAdc(t)
      BY <1>0, <1>1, StatementOfStep DEF FirstStart
    <2>2. output' = output /\ state' = state
      BY <2>1 DEF StartAdc, SwitchAdc
    <2> QED BY <1>1, <2>2 DEF InFirstStart
  <1>2. CASE p \in {3, 5}
    <2>1. Delay(t)
      BY <1>0, <1>2, StatementOfStep DEF FirstStart
    <2>2. output' = output /\ adc' = adc /\ state' = state
      BY <2>1 DEF Delay
    <2> QED BY <1>2, <2>2 DEF InFirstStart
  <1>3. CASE p = 4
    <2>1. StopAdc(t)
      BY <1>0, <1>3, StatementOfStep DEF FirstStart
    <2>2. output' = output /\ ~adc'.on /\ state' = state
      BY <1>0, <2>1, HardwareIs DEF StopAdc, SwitchAdc
    <2> QED BY <1>3, <2>2 DEF InFirstStart
  <1>4. CASE p = 6
    <2>1. ClearFirstStart(t)
      BY <1>0, <1>4, StatementOfStep DEF FirstStart
    <2>2. output' = output /\ adc' = adc /\ ~state'.firstStart /\ state'.isActive = state.isActive
      BY <1>0, <2>1, FieldsAre DEF ClearFirstStart, Assign
    <2> QED BY <1>4, <2>2 DEF InFirstStart
  <1> QED BY <1>1, <1>2, <1>3, <1>4

LEMMA StopGoesOn ==
  ASSUME DriverTypes, NEW t \in Tasks, Step(t), NEW p \in 1 .. 9, At(t, "StopMeasurements", p),
         InStop(p)
  PROVE  InStop(p + 1)'
  <1>0. /\ DataOK /\ Statement(t) = StopMeasurements[p] /\ state.isActive \in BOOLEAN
        /\ output \in [power : BOOLEAN, generator : BOOLEAN, relay : BOOLEAN]
    BY StateTyped DEF DriverTypes, DataOK, At, Statement, Body
  <1> DEFINE b == state.isActive
  <1>1. CASE p = 1
    <2>1. StopAdc(t)
      BY <1>0, <1>1, StatementOfStep DEF StopMeasurements
    <2>2. output' = output /\ ~adc'.on /\ state' = state
      BY <1>0, <2>1, HardwareIs DEF StopAdc, SwitchAdc
    <2>3. output = [power |-> b, generator |-> b, relay |-> b]
      <3>1. CASE AllOff
        BY <1>0, <3>1 DEF AllOff
      <3>2. CASE AllOn
        BY <1>0, <3>2 DEF AllOn
      <3> QED BY <1>1, <3>1, <3>2 DEF Settled, InStop
    <2>4. output' = [power |-> state'.isActive, generator |-> state'.isActive, relay |-> state'.isActive]
      BY <2>2, <2>3
    <2>5. InStop(2)'
      BY <2>2, <2>4 DEF InStop
    <2> QED BY <1>1, <2>5
  <1>2. CASE p \in {2, 4, 8}
    <2>1. Delay(t)
      BY <1>0, <1>2, StatementOfStep DEF StopMeasurements
    <2>2. output' = output /\ adc' = adc /\ state' = state
      BY <2>1 DEF Delay
    <2> QED BY <1>2, <2>2 DEF InStop
  <1>3. CASE p = 3
    <2>1. DisableActive(t)
      BY <1>0, <1>3, StatementOfStep DEF StopMeasurements
    <2>2. output' = output /\ adc'.on = adc.on /\ state' = state
      BY <1>0, <2>1 DEF DisableActive, DataOK
    <2> QED BY <1>3, <2>2 DEF InStop
  <1>4. CASE p = 5
    <2>1. RelayOff(t)
      BY <1>0, <1>4, StatementOfStep DEF StopMeasurements
    <2>2. output' = [output EXCEPT !.relay = FALSE] /\ adc' = adc /\ state' = state
      BY <1>0, <2>1, HardwareIs DEF RelayOff, Switch
    <2>3. output = [power |-> b, generator |-> b, relay |-> b] /\ ~adc.on
      BY <1>4 DEF InStop
    <2>4. output' = [power |-> state'.isActive, generator |-> state'.isActive, relay |-> FALSE]
      BY <2>2, <2>3
    <2>5. ~adc'.on
      BY <2>2, <2>3
    <2>6. InStop(6)'
      BY <2>4, <2>5 DEF InStop
    <2> QED BY <1>4, <2>6
  <1>5. CASE p = 6
    <2>1. PowerOff(t)
      BY <1>0, <1>5, StatementOfStep DEF StopMeasurements
    <2>2. output' = [output EXCEPT !.power = FALSE] /\ adc' = adc /\ state' = state
      BY <1>0, <2>1, HardwareIs DEF PowerOff, Switch
    <2>3. output = [power |-> b, generator |-> b, relay |-> FALSE] /\ ~adc.on
      BY <1>5 DEF InStop
    <2>4. output' = [power |-> FALSE, generator |-> state'.isActive, relay |-> FALSE]
      BY <2>2, <2>3
    <2>5. ~adc'.on
      BY <2>2, <2>3
    <2>6. InStop(7)'
      BY <2>4, <2>5 DEF InStop
    <2> QED BY <1>5, <2>6
  <1>6. CASE p = 7
    <2>1. GeneratorOff(t)
      BY <1>0, <1>6, StatementOfStep DEF StopMeasurements
    <2>2. output' = [output EXCEPT !.generator = FALSE] /\ adc' = adc /\ state' = state
      BY <1>0, <2>1, HardwareIs DEF GeneratorOff, Switch
    <2>3. output = [power |-> FALSE, generator |-> b, relay |-> FALSE] /\ ~adc.on
      BY <1>6 DEF InStop
    <2>4. output' = [power |-> FALSE, generator |-> FALSE, relay |-> FALSE]
      BY <2>2, <2>3
    <2>5. ~adc'.on
      BY <2>2, <2>3
    <2>6. InStop(8)'
      BY <2>4, <2>5 DEF InStop
    <2> QED BY <1>6, <2>6
  <1>7. CASE p = 9
    <2>1. ClearActive(t)
      BY <1>0, <1>7, StatementOfStep DEF StopMeasurements
    <2>2. output' = output /\ adc' = adc /\ ~state'.isActive
      BY <1>0, <2>1, FieldsAre DEF ClearActive, Assign
    <2>3. output = [power |-> FALSE, generator |-> FALSE, relay |-> FALSE] /\ ~adc.on
      BY <1>7 DEF InStop
    <2>4. InStop(10)'
      BY <2>2, <2>3 DEF InStop
    <2> QED BY <1>7, <2>4
  <1> QED BY <1>1, <1>2, <1>3, <1>4, <1>5, <1>6, <1>7

LEMMA ActivateGoesOn ==
  ASSUME DriverTypes, NEW t \in Tasks, Step(t), NEW p \in {1, 3, 4, 5},
         At(t, "SetAndActivateSensor", p), InActivate(p)
  PROVE  InActivate(p + 1)'
  <1>0. /\ DataOK /\ Statement(t) = SetAndActivateSensor[p]
        /\ adc \in [on : BOOLEAN, gain : 1 .. 2 \cup Levels, input : Sensors]
    BY StateTyped DEF DriverTypes, DataOK, At, Statement, Body
  <1>1. CASE p = 1
    <2>1. Statement(t) \notin Switches
      BY <1>0, <1>1 DEF SetAndActivateSensor, Switches
    <2>2. Settled'
      BY <1>0, <2>1, PlainSteps, SettledStays DEF InActivate
    <2> QED BY <1>1, <2>2 DEF InActivate
  <1>2. CASE p \in {3, 4, 5}
    <2>1. AllOff
      BY <1>2 DEF InActivate
    <2>2. CASE p = 3
      <3>1. DisableActive(t)
        BY <1>0, <2>2, StatementOfStep DEF SetAndActivateSensor
      <3>2. output' = output /\ adc'.on = adc.on /\ state' = state
        BY <1>0, <3>1 DEF DisableActive
      <3>3. AllOff'
        BY <2>1, <3>2 DEF AllOff
      <3> QED BY <2>2, <3>3 DEF InActivate, Settled
    <2>3. CASE p = 4
      <3>1. SelectSensor(t)
        BY <1>0, <2>3, StatementOfStep DEF SetAndActivateSensor
      <3>2. output' = output /\ adc' = adc /\ state'.isActive = state.isActive
        BY <1>0, <3>1, FieldsAre DEF SelectSensor, Assign
      <3>3. AllOff'
        BY <2>1, <3>2 DEF AllOff
      <3> QED BY <2>3, <3>3 DEF InActivate, Settled
    <2>4. CASE p = 5
      <3>1. EnableActive(t)
        BY <1>0, <2>4, StatementOfStep DEF SetAndActivateSensor
      <3>2. output' = output /\ adc'.on = adc.on /\ state' = state
        BY <1>0, <3>1 DEF EnableActive
      <3>3. AllOff' /\ Active' = Active
        BY <2>1, <3>2 DEF AllOff, Active
      <3>4. sensor'[Active'].on
        BY <3>1, <3>3, EnableTurnsOn
      <3> QED BY <2>4, <3>3, <3>4 DEF InActivate, Settled
    <2> QED BY <1>2, <2>2, <2>3, <2>4
  <1> QED BY <1>1, <1>2

-----------------------------------------------------------------------------
\* Calls and returns.
\* What the bodies of the other functions have in common.
LEMMA PlainBodies ==
  ASSUME NEW f \in Functions \ Switching, NEW p \in 1 .. Len(Body[f])
  PROVE  /\ Body[f][p] \notin Switches /\ ~Started(f, 1)
         /\ Body[f][p] \in DOMAIN Callee =>
              Body[f][p] \in {"Start", "StopAll", "ActivateVoltage", "ActivateNext", "ActivateThis",
                              "CheckVout", "CalibrateShunt", "CalibrateClamp", "StopDriver"}
         /\ Body[f][p] = "CheckVout" => f = "CalibrationTask"
         /\ Body[f][p] = "SuspendCalibration" => f = "Stop" /\ p = 1
         /\ p > 1 /\ Started(f, p) => \/ Body[f][p - 1] = "Start"
                                      \/ Started(f, p - 1) /\ Body[f][p - 1] \notin DOMAIN Callee
  <1>1. CASE f = "StartNormalModeOperation"
    BY <1>1 DEF Body, StartNormalModeOperation, Switches, Started, Callee
  <1>2. CASE f = "StartCalibration"
    BY <1>2 DEF Body, StartCalibration, Switches, Started, Callee
  <1>3. CASE f = "Stop"
    BY <1>3 DEF Body, Stop, Switches, Started, Callee
  <1>4. CASE f = "SwitchToNextSensor"
    BY <1>4 DEF Body, SwitchToNextSensor, Switches, Started, Callee
  <1>5. CASE f = "DisableAGC"
    BY <1>5 DEF Body, Switches, Started, Callee
  <1>6. CASE f = "IncreaseGain"
    BY <1>6 DEF Body, IncreaseGain, Switches, Started, Callee
  <1>7. CASE f = "DecreaseGain"
    BY <1>7 DEF Body, DecreaseGain, Switches, Started, Callee
  <1>8. CASE f = "CalibrationTask"
    BY <1>8 DEF Body, CalibrationTask, Switches, Started, Callee
  <1>9. CASE f = "RequestResistorChangeAndCheckVout"
    BY <1>9 DEF Body, RequestResistorChangeAndCheckVout, Switches, Started, Callee
  <1>10. CASE f = "CalibrateSensor"
    BY <1>10 DEF Body, CalibrateSensor, Switches, Started, Callee
  <1> QED BY FunctionsAre, <1>1, <1>2, <1>3, <1>4, <1>5, <1>6, <1>7, <1>8, <1>9, <1>10 DEF Switching

\* The first statement of every function a call leads to finds the output settled.
LEMMA CallReaches ==
  ASSUME OutputInv, NEW f \in Functions, NEW p \in 1 .. Len(Body[f]), NEW frame,
         Body[f][p] \in DOMAIN Callee, Reached(f, p)
  PROVE  /\ Settled
         /\ Made(Body[f][p], frame) => Reached(Callee[Body[f][p]], 1)
         /\ f \notin Switching /\ ~Made(Body[f][p], frame) => Body[f][p] = "CheckVout"
  <1>a. ASSUME Settled, NEW g \in Functions, g # "FirstStart" PROVE Reached(g, 1)
    BY <1>a, PlainBodies, BodyShape DEF Reached, InStart, InStop, InActivate, Switching
  <1>1. CASE f = "StartMeasurements"
    <2>1. p \in {1, 2} /\ Settled /\ Body[f][p] \in {"FirstStart", "Reactivate"}
      BY <1>1 DEF Body, StartMeasurements, Callee, Reached, InStart
    <2>2. Made("FirstStart", frame) => Reached("FirstStart", 1)
      BY <2>1 DEF Made, OutputInv, NotStarted, Reached, InFirstStart, Settled, AllOff, AllOn, Switching
    <2>3. Callee["FirstStart"] = "FirstStart" /\ Callee["Reactivate"] = "SetAndActivateSensor"
      BY DEF Callee
    <2>4. Reached("SetAndActivateSensor", 1)
      BY <1>a, <2>1, FunctionsAre
    <2> QED BY <1>1, <2>1, <2>2, <2>3, <2>4 DEF Switching
  <1>2. CASE f = "FirstStart"
    <2>1. p = 1 /\ Settled /\ Body[f][p] = "ActivateVoltage"
      BY <1>2 DEF Body, FirstStart, Callee, Reached, InFirstStart, Settled, AllOff
    <2>2. Callee["ActivateVoltage"] = "SetAndActivateSensor"
      BY DEF Callee
    <2>3. Reached("SetAndActivateSensor", 1)
      BY <1>a, <2>1, FunctionsAre
    <2> QED BY <1>2, <2>1, <2>2, <2>3 DEF Switching
  <1>3. CASE f = "StopMeasurements"
    BY <1>3 DEF Body, StopMeasurements, Callee
  <1>4. CASE f = "SetAndActivateSensor"
    <2>1. Settled /\ Body[f][p] \in {"StopIfActive", "StartIfWasActive"}
      BY <1>4 DEF Body, SetAndActivateSensor, Callee, Reached, InActivate
    <2>2. Callee["StopIfActive"] = "StopMeasurements" /\ Callee["StartIfWasActive"] = "StartMeasurements"
      BY DEF Callee
    <2>3. Reached("StopMeasurements", 1) /\ Reached("StartMeasurements", 1)
      BY <1>a, <2>1, FunctionsAre
    <2> QED BY <1>4, <2>1, <2>2, <2>3 DEF Switching
  <1>5. CASE f \notin Switching
    <2>1. Settled
      BY <1>5 DEF Reached
    <2>2. Body[f][p] \in {"Start", "StopAll", "ActivateVoltage", "ActivateNext", "ActivateThis",
                          "CheckVout", "CalibrateShunt", "CalibrateClamp", "StopDriver"}
      BY <1>5, PlainBodies
    <2>3. Callee[Body[f][p]] \in Functions /\ Callee[Body[f][p]] # "FirstStart"
      BY <2>2, CalleesAre DEF Callee
    <2>4. Reached(Callee[Body[f][p]], 1)
      BY <1>a, <2>1, <2>3
    <2>5. ~Made(Body[f][p], frame) => Body[f][p] = "CheckVout"
      BY <2>2 DEF Made
    <2> QED BY <2>1, <2>4, <2>5
  <1> QED BY <1>1, <1>2, <1>3, <1>4, <1>5 DEF Switching

\* What a function has reached when it returns.
LEMMA AtReturn ==
  ASSUME NEW g \in Functions, Reached(g, Len(Body[g]))
  PROVE  /\ Settled
         /\ g = "StartMeasurements" => AllOn /\ ~state.firstStart
         /\ g \in {"StopMeasurements", "FirstStart"} => AllOff
         /\ g = "FirstStart" => ~state.firstStart
         /\ g = "SetAndActivateSensor" => sensor[Active].on
  <1>0. /\ Len(Body["StartMeasurements"]) = 8 /\ Len(Body["FirstStart"]) = 7
        /\ Len(Body["StopMeasurements"]) = 10 /\ Len(Body["SetAndActivateSensor"]) = 7
    BY DEF Body, StartMeasurements, FirstStart, StopMeasurements, SetAndActivateSensor
  <1>1. CASE g = "StartMeasurements"
    <2>1. InStart(8)
      BY <1>0, <1>1 DEF Reached
    <2> QED BY <1>1, <2>1 DEF InStart, Settled
  <1>2. CASE g = "FirstStart"
    <2>1. InFirstStart(7)
      BY <1>0, <1>2 DEF Reached
    <2> QED BY <1>2, <2>1 DEF InFirstStart, Settled, AllOff
  <1>3. CASE g = "StopMeasurements"
    <2>1. InStop(10)
      BY <1>0, <1>3 DEF Reached
    <2> QED BY <1>3, <2>1 DEF InStop, Settled, AllOff
  <1>4. CASE g = "SetAndActivateSensor"
    <2>1. InActivate(7)
      BY <1>0, <1>4 DEF Reached
    <2> QED BY <1>4, <2>1 DEF InActivate
  <1>5. CASE g \notin Switching
    BY <1>5 DEF Reached, Switching
  <1> QED BY <1>1, <1>2, <1>3, <1>4, <1>5 DEF Switching

\* It is what the caller relies on.
LEMMA ReturnReaches ==
  ASSUME NEW f \in Functions, NEW p \in 1 .. Len(Body[f]), CalledFrom(f, p),
         Reached(Callee[Body[f][p - 1]], Len(Body[Callee[Body[f][p - 1]]])),
         f = "FirstStart" => state.firstStart /\ ~state.isActive,
         f = "StartMeasurements" /\ p >= 3 => ~state.firstStart
  PROVE  Reached(f, p)
  <1> DEFINE g == Callee[Body[f][p - 1]]
  <1>0. g \in Functions /\ p > 1 /\ Body[f][p - 1] \in DOMAIN Callee
    BY CalleesAre DEF CalledFrom
  <1>1. /\ Settled
        /\ g = "StartMeasurements" => AllOn /\ ~state.firstStart
        /\ g \in {"StopMeasurements", "FirstStart"} => AllOff
        /\ g = "FirstStart" => ~state.firstStart
        /\ g = "SetAndActivateSensor" => sensor[Active].on
    BY <1>0, AtReturn
  <1>2. CASE f = "StartMeasurements"
    <2>1. \/ p = 2 /\ g = "FirstStart"
          \/ p = 3 /\ g = "SetAndActivateSensor"
      BY <1>0, <1>2 DEF Body, StartMeasurements, Callee
    <2>2. Settled /\ ~state.firstStart /\ (p >= 3 => sensor[Active].on)
      <3>1. p = 2 \/ p = 3
        BY <2>1
      <3> QED BY <1>1, <1>2, <2>1, <3>1
    <2>3. InStart(p)
      BY <2>1, <2>2 DEF InStart
    <2> QED BY <1>2, <2>3 DEF Reached, Switching
  <1>3. CASE f = "FirstStart"
    <2>1. p = 2
      BY <1>0, <1>3 DEF Body, FirstStart, Callee
    <2> QED BY <1>1, <1>3, <2>1 DEF Reached, InFirstStart, Settled, AllOff, AllOn, Switching
  <1>4. CASE f = "StopMeasurements"
    BY <1>0, <1>4 DEF Body, StopMeasurements, Callee
  <1>5. CASE f = "SetAndActivateSensor"
    <2>1. \/ p = 3 /\ g = "StopMeasurements"
          \/ p = 7 /\ g = "StartMeasurements"
      BY <1>0, <1>5 DEF Body, SetAndActivateSensor, Callee
    <2>2. AllOn => sensor[Active].on
      BY DEF AllOn
    <2>3. InActivate(p)
      BY <1>1, <2>1, <2>2 DEF InActivate
    <2> QED BY <1>5, <2>3 DEF Reached, Switching
  <1>6. CASE f \notin Switching
    <2>1. Started(f, p) => Body[f][p - 1] = "Start"
      BY <1>0, <1>6, PlainBodies
    <2>2. Started(f, p) => AllOn
      BY <1>1, <2>1 DEF Callee
    <2> QED BY <1>1, <1>6, <2>2 DEF Reached, Switching
  <1> QED BY <1>2, <1>3, <1>4, <1>5, <1>6 DEF Switching

-----------------------------------------------------------------------------
\* The task at work.

LEMMA OnlyAt ==
  ASSUME NEW f \in Functions, NEW p \in 1 .. Len(Body[f])
  PROVE  /\ Body[f][p] = "SetActive" => f = "StartMeasurements" /\ p = 7
         /\ Body[f][p] = "ClearFirstStart" => f = "FirstStart" /\ p = 6
         /\ Body[f][p] = "SuspendCalibration" => f = "Stop" /\ p = 1
  <1>1. CASE f = "StartMeasurements"
    BY <1>1 DEF Body, StartMeasurements
  <1>2. CASE f = "FirstStart"
    BY <1>2 DEF Body, FirstStart
  <1>3. CASE f = "StopMeasurements"
    BY <1>3 DEF Body, StopMeasurements
  <1>4. CASE f = "SetAndActivateSensor"
    BY <1>4 DEF Body, SetAndActivateSensor
  <1>5. CASE f \notin Switching
    BY <1>5, PlainBodies DEF Switches
  <1> QED BY <1>1, <1>2, <1>3, <1>4, <1>5 DEF Switching

LEMMA CallsTop ==
  ASSUME StackInv, NEW t \in Tasks, Calls(t)
  PROVE  /\ Statement(t) \in DOMAIN Callee /\ Made(Statement(t), Running(t))
         /\ Head(stack'[t]).function = Callee[Statement(t)] /\ Head(stack'[t]).pc = 1
         /\ Head(stack'[t]).wasActive = FALSE
  <1> DEFINE calls == stack[t]
             new == stack'[t]
  <1>1. PICK h \in Frames, g \in Frames :
          /\ Statement(t) \in DOMAIN Callee /\ Made(Statement(t), Running(t))
          /\ g.function = Callee[Statement(t)] /\ g.pc = 1 /\ g.wasActive = FALSE
          /\ stack' = [stack EXCEPT ![t] = Called(@, g, h)]
    BY DEF Calls, Frame
  <1>2. new = Called(calls, g, h) /\ calls \in Seq(Frames)
    BY <1>1 DEF StackInv
  <1> HIDE DEF calls, new
  <1>3. Head(new) = g
    BY <1>2 DEF Called
  <1> QED BY <1>1, <1>3 DEF new

\* A statement that makes no call reaches the next one.
LEMMA GoesReaches ==
  ASSUME OutputInv, NEW t \in Tasks, Step(t), NEW f \in Functions,
         NEW k \in 1 .. Len(Body[f]), k + 1 <= Len(Body[f]), At(t, f, k), Reached(f, k),
         Statement(t) \in DOMAIN Callee => ~Made(Statement(t), Running(t))
  PROVE  Reached(f, k + 1)'
  <1>0. /\ DriverTypes /\ DataOK /\ Statement(t) = Body[f][k]
        /\ k \in Nat /\ k >= 1 /\ Len(Body[f]) \in 2 .. 20
    BY BodyShape DEF OutputInv, InterferenceInv, DriverTypes, At, Statement
  <1>1. CASE f = "StartMeasurements"
    <2>1. k \in 1 .. 7 /\ InStart(k)
      BY <1>0, <1>1 DEF Body, StartMeasurements, Reached
    <2>2. CASE k = 1
      <3>1. Statement(t) = "FirstStart" /\ "FirstStart" \in DOMAIN Callee /\ "FirstStart" \notin Switches
        BY <1>0, <1>1, <2>2 DEF Body, StartMeasurements, Callee, Switches
      <3>2. ~state.firstStart /\ Settled
        BY <2>1, <2>2, <3>1 DEF Made, InStart
      <3>3. Settled' /\ ~state'.firstStart
        BY <1>0, <3>1, <3>2, PlainSteps, SettledStays DEF SameOutput
      <3> QED BY <1>1, <2>2, <3>3 DEF Reached, InStart, Switching
    <2>3. k # 2
      <3> SUFFICES ASSUME k = 2 PROVE FALSE
        OBVIOUS
      <3>1. Statement(t) = "Reactivate" /\ "Reactivate" \in DOMAIN Callee
        BY <1>0, <1>1 DEF Body, StartMeasurements, Callee
      <3> QED BY <3>1 DEF Made
    <2>4. CASE k \in 3 .. 7
      <3>1. InStart(k + 1)'
        BY <1>0, <1>1, <2>1, <2>4, StartGoesOn
      <3> QED BY <1>1, <3>1 DEF Reached, Switching
    <2> QED BY <2>1, <2>2, <2>3, <2>4
  <1>2. CASE f = "FirstStart"
    <2>1. k \in 1 .. 6 /\ InFirstStart(k)
      BY <1>0, <1>2 DEF Body, FirstStart, Reached
    <2>2. k # 1
      <3> SUFFICES ASSUME k = 1 PROVE FALSE
        OBVIOUS
      <3>1. Statement(t) = "ActivateVoltage" /\ "ActivateVoltage" \in DOMAIN Callee
        BY <1>0, <1>2 DEF Body, FirstStart, Callee
      <3> QED BY <3>1 DEF Made
    <2>3. InFirstStart(k + 1)'
      BY <1>0, <1>2, <2>1, <2>2, FirstStartGoesOn
    <2> QED BY <1>2, <2>3 DEF Reached, Switching
  <1>3. CASE f = "StopMeasurements"
    <2>1. k \in 1 .. 9 /\ InStop(k)
      BY <1>0, <1>3 DEF Body, StopMeasurements, Reached
    <2>2. InStop(k + 1)'
      BY <1>0, <1>3, <2>1, StopGoesOn
    <2> QED BY <1>3, <2>2 DEF Reached, Switching
  <1>4. CASE f = "SetAndActivateSensor"
    <2>1. k \in 1 .. 6 /\ InActivate(k)
      BY <1>0, <1>4 DEF Body, SetAndActivateSensor, Reached
    <2>2. CASE k = 2
      <3>1. /\ Statement(t) = "StopIfActive" /\ "StopIfActive" \in DOMAIN Callee
            /\ "StopIfActive" \notin Switches
        BY <1>0, <1>4, <2>2 DEF Body, SetAndActivateSensor, Callee, Switches
      <3>2. AllOff
        BY <2>1, <3>1 DEF Made, InActivate, Settled, AllOn
      <3>3. AllOff'
        BY <1>0, <3>1, <3>2, PlainSteps, SettledStays
      <3> QED BY <1>4, <2>2, <3>3 DEF Reached, InActivate, Settled, Switching
    <2>3. CASE k = 6
      <3>1. Statement(t) = "StartIfWasActive" /\ "StartIfWasActive" \notin Switches
        BY <1>0, <1>4, <2>3 DEF Body, SetAndActivateSensor, Switches
      <3>2. Settled /\ sensor[Active].on
        BY <2>1, <2>3 DEF InActivate
      <3>3. Settled' /\ sensor'[Active'].on
        BY <1>0, <3>1, <3>2, PlainSteps, SettledStays
      <3> QED BY <1>4, <2>3, <3>3 DEF Reached, InActivate, Switching
    <2>4. CASE k \in {1, 3, 4, 5}
      <3>1. InActivate(k + 1)'
        BY <1>0, <1>4, <2>1, <2>4, ActivateGoesOn
      <3> QED BY <1>4, <3>1 DEF Reached, Switching
    <2> QED BY <2>1, <2>2, <2>3, <2>4
  <1>5. CASE f \notin Switching
    <2> DEFINE p == k + 1
    <2>1. p \in 1 .. Len(Body[f]) /\ p > 1 /\ p - 1 = k
      BY <1>0
    <2>2. Statement(t) \notin Switches
      BY <1>0, <1>5, PlainBodies
    <2>3. Settled /\ (Started(f, k) => AllOn)
      BY <1>5 DEF Reached
    <2>4. Settled' /\ (Started(f, k) => AllOn')
      BY <1>0, <2>2, <2>3, PlainSteps, SettledStays
    <2>5. Body[f][k] # "Start"
      <3> SUFFICES ASSUME Statement(t) = "Start" PROVE FALSE
        BY <1>0
      <3>1. "Start" \in DOMAIN Callee
        BY DEF Callee
      <3> QED BY <3>1 DEF Made
    <2> HIDE DEF p
    <2>6. Started(f, p) => Started(f, k)
      BY <1>5, <2>1, <2>5, PlainBodies
    <2>7. Reached(f, p)'
      BY <1>5, <2>4, <2>6 DEF Reached, Switching, Started
    <2> QED BY <2>7 DEF p
  <1> QED BY <1>1, <1>2, <1>3, <1>4, <1>5 DEF Switching

\* The task whose statement is executed is at work, but for the return of StartCalibration.
LEMMA WhoActs ==
  ASSUME OutputInv, NEW t \in Tasks, Step(t)
  PROVE  \/ t = Actor
         \/ /\ t = "keyboard" /\ Calibrating /\ Len(stack[t]) = 1
            /\ At(t, "StartCalibration", 5) /\ Return(t)
  <1>0. DriverTypes /\ KeyboardAlone /\ Parked
    BY DEF OutputInv, InterferenceInv
  <1>1. stack[t] # <<>> /\ (t = "calibration" => Calibrating)
    BY <1>0, OtherStack
  <1>2. CASE t = "keyboard" /\ Calibrating
    <2>1. Len(stack[t]) = 1 /\ At(t, "StartCalibration", 5)
      BY <1>0, <1>1, <1>2 DEF KeyboardAlone, Parked
    <2>2. Statement(t) = "Return"
      BY <2>1 DEF At, Statement, Body, StartCalibration
    <2>3. Return(t)
      BY <2>2, StatementOfStep
    <2> QED BY <1>2, <2>1, <2>3
  <1> QED BY <1>1, <1>2 DEF Actor, Tasks

LEMMA ActorIsAt ==
  ASSUME OutputInv, NEW t \in Tasks, t = Actor, stack[t] # <<>>
  PROVE  \E f \in Functions : \E k \in 1 .. Len(Body[f]) :
           At(t, f, k) /\ Statement(t) = Body[f][k] /\ Reached(f, k)
  <1>1. StackInv /\ ActorReached
    BY DEF OutputInv, InterferenceInv, DriverTypes
  <1>2. /\ Running(t).function \in Functions /\ Running(t).pc \in 1 .. 20
        /\ Running(t).pc \in 1 .. Len(Body[Running(t).function])
        /\ Statement(t) = Body[Running(t).function][Running(t).pc]
    BY <1>1, TopOfTask
  <1>3. At(t, Running(t).function, Running(t).pc)
    BY DEF At
  <1>4. Reached(Running(t).function, Running(t).pc)
    BY <1>1, <1>2, <1>3 DEF ActorReached
  <1> QED BY <1>2, <1>3, <1>4

LEMMA ActorGoesOn ==
  ASSUME OutputInv, NEW t \in Tasks, t = Actor, Step(t)
  PROVE  /\ stack'[t] = <<>> => Settled'
         /\ \A f \in Functions, p \in 1 .. 20 : At(t, f, p)' => Reached(f, p)'
  <1>0. /\ DriverTypes /\ StackInv /\ DataOK /\ stack[t] # <<>> /\ StackInv' /\ Moves(t)
        /\ stack \in [Tasks -> Seq(Frames)]
    BY OtherStack DEF OutputInv, InterferenceInv, DriverTypes, StackInv
  <1>1. PICK f0 \in Functions : \E k \in 1 .. Len(Body[f0]) :
           At(t, f0, k) /\ Statement(t) = Body[f0][k] /\ Reached(f0, k)
    BY <1>0, ActorIsAt
  <1>2. PICK k \in 1 .. Len(Body[f0]) :
           At(t, f0, k) /\ Statement(t) = Body[f0][k] /\ Reached(f0, k)
    BY <1>1
  <1>3. Running(t).function = f0 /\ Running(t).pc = k /\ Len(Body[f0]) \in 2 .. 20
    BY <1>2, BodyShape DEF At
  <1>4. ASSUME Returns(t)
        PROVE  /\ k = Len(Body[f0]) /\ Reached(f0, Len(Body[f0])) /\ SameOutput
               /\ stack'[t] = Tail(stack[t])
    <2>1. k = Len(Body[f0]) /\ Statement(t) = "Return"
      BY <1>3, <1>4 DEF Returns
    <2>2. SameOutput
      BY <1>0, <2>1, PlainSteps DEF Switches
    <2> QED BY <1>0, <1>2, <1>4, <2>1, <2>2 DEF Returns
  <1>5. ASSUME stack'[t] = <<>> PROVE Settled'
    <2>1. Returns(t)
      <3>1. \A h : GoneOn(stack[t], h) # <<>>
        BY <1>0 DEF GoneOn, StackInv
      <3>2. \A h, g : Called(stack[t], g, h) # <<>>
        BY <1>0 DEF Called, StackInv
      <3>3. ~Goes(t) /\ ~GoesBack(t)
        BY <1>0, <1>5, <3>1 DEF Goes, GoesBack
      <3>4. ~Calls(t)
        BY <1>0, <1>5, <3>2 DEF Calls
      <3>5. ~Loops(t)
        <4>1. \A x : <<x>> # <<>>
          OBVIOUS
        <4>2. Loops(t) => stack'[t] = <<Frame("CalibrationTask", "Voltage")>>
          BY <1>0 DEF Loops
        <4> QED BY <1>5, <4>1, <4>2
      <3> QED BY <1>0, <3>3, <3>4, <3>5 DEF Moves
    <2>2. Reached(f0, Len(Body[f0])) /\ SameOutput
      BY <1>4, <2>1
    <2> QED BY <1>0, <2>2, AtReturn, SettledStays
  <1>6. ASSUME NEW f \in Functions, NEW p \in 1 .. 20, At(t, f, p)' PROVE Reached(f, p)'
    <2>0. p \in 1 .. Len(Body[f])
      <3>1. WellFormed(stack'[t]) /\ stack'[t] # <<>>
        BY <1>0, <1>6 DEF StackInv, At
      <3>2. Head(stack'[t]).pc \in 1 .. Len(Body[Head(stack'[t]).function])
        BY <3>1, TopOf
      <3> QED BY <1>6, <3>2 DEF At, Running
    <2>1. CASE p # 1 /\ At(t, f, p - 1) /\ Goes(t)
      <3>1. f = f0 /\ p - 1 = k
        BY <1>2, <2>1 DEF At
      <3>2. p = k + 1 /\ k + 1 <= Len(Body[f0])
        <4>1. k \in Int /\ p \in Int /\ Len(Body[f0]) \in Int
          BY <1>3
        <4>2. p - 1 = k /\ p <= Len(Body[f0])
          BY <1>3, <2>0, <3>1
        <4> QED BY <4>1, <4>2
      <3>3. Statement(t) \in DOMAIN Callee => ~Made(Statement(t), Running(t))
        <4> SUFFICES ASSUME Statement(t) \in DOMAIN Callee, Made(Statement(t), Running(t)) PROVE FALSE
          OBVIOUS
        <4>1. Call(t)
          BY StatementOfStep
        <4>2. Calls(t)
          BY <1>0, <4>1, CallMoves, StateTyped
        <4>3. Head(stack'[t]).pc = 1
          BY <1>0, <4>2, CallsTop
        <4> QED BY <1>6, <2>1, <4>3 DEF At, Running
      <3>4. Reached(f0, k + 1)'
        BY <1>2, <3>2, <3>3, GoesReaches
      <3> QED BY <3>1, <3>2, <3>4
    <2>2. CASE p = 1 /\ Calls(t)
      <3>1. /\ Statement(t) \in DOMAIN Callee /\ Made(Statement(t), Running(t))
            /\ Head(stack'[t]).function = Callee[Statement(t)]
        BY <1>0, <2>2, CallsTop
      <3>2. f = Callee[Statement(t)]
        BY <1>6, <3>1 DEF At, Running
      <3>3. Reached(f, p)
        BY <1>2, <2>2, <3>1, <3>2, CallReaches
      <3>4. SameOutput
        <4>1. Statement(t) \notin Switches
          BY <3>1 DEF Callee, Switches
        <4> QED BY <1>0, <4>1, PlainSteps
      <3> QED BY <1>0, <3>3, <3>4, ReachedStays
    <2>3. CASE CalledFrom(f, p) /\ Returns(t) /\ Running(t).function = Callee[Body[f][p - 1]]
      <3>1. /\ k = Len(Body[f0]) /\ Reached(f0, Len(Body[f0])) /\ SameOutput
            /\ stack'[t] = Tail(stack[t]) /\ f0 = Callee[Body[f][p - 1]]
        BY <1>3, <1>4, <2>3
      <3>2. /\ 2 \in 1 .. Len(stack[t]) /\ stack[t][2].function = f /\ stack[t][2].pc = p
        <4> DEFINE calls == stack[t]
                   new == stack'[t]
        <4>1. WellFormed(calls) /\ calls # <<>> /\ new = Tail(calls) /\ new # <<>>
          BY <1>0, <1>6, <3>1 DEF StackInv, At
        <4>2. Head(new) = calls[2] /\ Len(new) = Len(calls) - 1 /\ WellFormed(new)
          BY <4>1, TopReturns
        <4>3. Len(new) \in Nat \ {0} /\ Len(calls) \in Nat \ {0}
          BY <4>1, <4>2, TopOf
        <4>4. Head(new).function = f /\ Head(new).pc = p
          BY <1>6 DEF At, Running
        <4> HIDE DEF calls, new
        <4>5. 2 \in 1 .. Len(calls)
          BY <4>2, <4>3
        <4> QED BY <4>2, <4>4, <4>5 DEF calls
      <3>3. f = "FirstStart" => state.firstStart /\ ~state.isActive
        BY <3>2 DEF OutputInv, InsideFirstStart, NotStarted
      <3>4. f = "StartMeasurements" /\ p >= 3 => ~state.firstStart
        BY <3>2 DEF OutputInv, NotStarted
      <3>5. Reached(f, p)
        BY <2>0, <2>3, <3>1, <3>3, <3>4, ReturnReaches
      <3> QED BY <1>0, <3>1, <3>5, ReachedStays
    <2>4. CASE /\ f = "CalibrationTask" /\ p \in {1, 12}
               /\ Running(t).function = "CalibrationTask" /\ Running(t).pc \in {17, 20}
      <3>1. f0 = "CalibrationTask" /\ f0 \notin Switching
        BY <1>3, <2>4 DEF Switching
      <3>2. Settled /\ Statement(t) \notin Switches
        BY <1>2, <3>1, PlainBodies DEF Reached
      <3>3. Settled'
        BY <1>0, <3>2, PlainSteps, SettledStays
      <3>4. ~Started(f, p)
        BY <2>4 DEF Started
      <3> QED BY <2>4, <3>1, <3>3, <3>4 DEF Reached, Started, Switching
    <2> QED BY <1>0, <1>6, <2>1, <2>2, <2>3, <2>4, CameFrom
  <1> QED BY <1>5, <1>6

-----------------------------------------------------------------------------
\* Which task is at work, and what the other one's stack is meanwhile.

LEMMA OutputParts ==
  ASSUME OutputInv
  PROVE  /\ DriverTypes /\ StackInv /\ DataOK /\ KeyboardAlone /\ Parked /\ ActorReached
         /\ stack \in [Tasks -> Seq(Frames)] /\ "keyboard" \in Tasks /\ "calibration" \in Tasks
  BY DEF OutputInv, InterferenceInv, DriverTypes, StackInv, Tasks

LEMMA ActorChanges ==
  ASSUME OutputInv, [Next]_vars
  PROVE  \/ Calibrating' <=> Calibrating
         \/ ~Calibrating /\ Step("keyboard") /\ ResumeCalibration("keyboard")
         \/ Calibrating /\ Step("calibration") /\ SuspendCalibration("calibration")
  <1>0. DriverTypes /\ DataOK /\ "keyboard" \in Tasks /\ "calibration" \in Tasks
    BY OutputParts
  <1>1. ASSUME NEW t \in Tasks, Step(t)
        PROVE  \/ Calibrating' <=> Calibrating
               \/ ~Calibrating /\ Step("keyboard") /\ ResumeCalibration("keyboard")
               \/ Calibrating /\ Step("calibration") /\ SuspendCalibration("calibration")
    <2>1. t = "calibration" => Calibrating
      BY <1>0, <1>1, OtherStack
    <2>2. CASE Delay(t)
      BY <1>0, <2>1, <2>2, StatusIs DEF Calibrating, Tasks
    <2>3. CASE SuspendCalibration(t)
      <3>1. t = "keyboard" => ~Calibrating
        <4> SUFFICES ASSUME t = "keyboard", Calibrating PROVE FALSE
          OBVIOUS
        <4>1. Return(t)
          BY <1>1, WhoActs DEF Actor
        <4> QED BY <2>3, <4>1 DEF SuspendCalibration, Return, Does
      <3>2. ~Calibrating'
        BY <1>0, <2>3, StatusIs DEF Calibrating
      <3> QED BY <1>1, <2>1, <2>3, <3>1, <3>2 DEF Tasks
    <2>4. CASE ResumeCalibration(t)
      <3>1. Calibrating => Calibrating'
        BY <1>0, <2>4, StatusIs DEF Calibrating
      <3> QED BY <1>1, <2>1, <2>4, <3>1 DEF Tasks
    <2>5. CASE status' = status
      BY <2>5 DEF Calibrating
    <2> QED BY <1>1, <2>2, <2>3, <2>4, <2>5, StatusKept
  <1>2. ASSUME NEW t \in Tasks, Wake(t) PROVE Calibrating' <=> Calibrating
    BY <1>0, <1>2, StatusIs DEF Calibrating, Tasks
  <1>3. CASE (\E by \in {-1, 1} : AgcMovesGain(by)) \/ AnswerDialog
             \/ (\E operation \in Keys : PressKey(operation)) \/ UNCHANGED vars
    <2>1. status' = status
      BY <1>3 DEF AgcMovesGain, AnswerDialog, PressKey, vars
    <2> QED BY <2>1 DEF Calibrating
  <1> QED BY <1>1, <1>2, <1>3 DEF Next

LEMMA QuietSteps ==
  ASSUME OutputInv,
         \/ \E t \in Tasks : Wake(t)
         \/ \E by \in {-1, 1} : AgcMovesGain(by)
         \/ AnswerDialog
         \/ \E operation \in Keys : PressKey(operation)
         \/ UNCHANGED vars
  PROVE  SameOutput
  <1>0. DriverTypes /\ DataOK
    BY OutputParts
  <1>1. /\ output' = output /\ Active' = Active
        /\ state'.isActive = state.isActive /\ state'.firstStart = state.firstStart
    BY DEF Wake, AgcMovesGain, AnswerDialog, PressKey, vars, Active
  <1>2. adc'.on = adc.on
    BY <1>0 DEF Wake, AgcMovesGain, AnswerDialog, PressKey, vars, DataOK
  <1>3. \A s \in Sensors : sensor'[s].on = sensor[s].on
    <2>1. CASE \E t \in Tasks : Wake(t)
      BY <2>1 DEF Wake
    <2> QED BY <1>0, <2>1, OthersKeepInputs DEF InputsKept
  <1> QED BY <1>1, <1>2, <1>3 DEF SameOutput

LEMMA OtherStackRests ==
  ASSUME KeysWhileCalibrating = {}, OutputInv, [Next]_vars
  PROVE  /\ ~Calibrating => stack'["calibration"] = stack["calibration"]
         /\ Calibrating => stack'["keyboard"] \in {stack["keyboard"], <<>>}
  <1>0. DriverTypes /\ StackInv /\ stack \in [Tasks -> Seq(Frames)]
        /\ "keyboard" \in Tasks /\ "calibration" \in Tasks
    BY OutputParts
  <1>1. CASE Step("calibration")
    BY <1>0, <1>1, OtherStack
  <1>2. CASE Step("keyboard")
    <2>1. stack'["calibration"] = stack["calibration"]
      BY <1>0, <1>2, OtherStack
    <2>2. CASE Calibrating
      <3>1. Return("keyboard") /\ Len(stack["keyboard"]) = 1
        BY <1>0, <1>2, <2>2, WhoActs DEF Actor
      <3> DEFINE calls == stack["keyboard"]
      <3>2. stack'["keyboard"] = Tail(calls) /\ calls \in Seq(Frames) /\ Len(calls) = 1
        BY <1>0, <3>1 DEF Return
      <3> HIDE DEF calls
      <3>3. Tail(calls) = <<>>
        BY <3>2
      <3> QED BY <2>2, <3>2, <3>3
    <2> QED BY <2>1, <2>2
  <1>3. CASE \E operation \in Keys : PressKey(operation)
    BY <1>0, <1>3, PressKeyKeepsStack DEF PressKey
  <1>4. CASE (\E t \in Tasks : Wake(t)) \/ (\E by \in {-1, 1} : AgcMovesGain(by)) \/ AnswerDialog
             \/ UNCHANGED vars
    BY <1>4 DEF Wake, AgcMovesGain, AnswerDialog, vars
  <1> QED BY <1>1, <1>2, <1>3, <1>4 DEF Next, Tasks

\* StartCalibration hands over to the calibration, which hands back by Stop.
LEMMA HandsOver ==
  ASSUME OutputInv, NEW t \in Tasks, Step(t), t = Actor,
         ResumeCalibration(t) \/ SuspendCalibration(t)
  PROVE  /\ SameOutput /\ Settled
         /\ ResumeCalibration(t) => At(t, "StartCalibration", 5)'
         /\ SuspendCalibration(t) => At(t, "Stop", 2)'
  <1>0. DriverTypes /\ StackInv /\ stack \in [Tasks -> Seq(Frames)] /\ stack[t] # <<>>
    BY OutputParts, OtherStack
  <1>1. PICK f \in Functions : \E k \in 1 .. Len(Body[f]) :
           At(t, f, k) /\ Statement(t) = Body[f][k] /\ Reached(f, k)
    BY <1>0, ActorIsAt
  <1>2. PICK k \in 1 .. Len(Body[f]) :
           At(t, f, k) /\ Statement(t) = Body[f][k] /\ Reached(f, k)
    BY <1>1
  <1>3. /\ ResumeCalibration(t) => f = "StartCalibration" /\ k = 4 /\ Statement(t) = "ResumeCalibration"
        /\ SuspendCalibration(t) => f = "Stop" /\ k = 1 /\ Statement(t) = "SuspendCalibration"
    BY <1>2, OnlyAt, BodyShape DEF ResumeCalibration, SuspendCalibration, Does
  <1>4. SameOutput
    BY <1>0, <1>3, PlainSteps DEF Switches
  <1>5. Settled
    BY <1>2, <1>3 DEF Reached, Switching
  <1>6. Goes(t)
    BY <1>0, DoesGoes DEF ResumeCalibration, SuspendCalibration
  <1>7. PICK h \in Frames : /\ h.function = Running(t).function /\ h.pc = Running(t).pc + 1
                            /\ stack' = [stack EXCEPT ![t] = GoneOn(@, h)]
    BY <1>6 DEF Goes, Onward
  <1>8. h.function = f /\ h.pc = k + 1
    BY <1>2, <1>7 DEF At
  <1> DEFINE calls == stack[t]
             new == stack'[t]
  <1>9. new = GoneOn(calls, h) /\ calls \in Seq(Frames)
    BY <1>0, <1>7
  <1>10. /\ ResumeCalibration(t) => h.function = "StartCalibration" /\ h.pc = 5
         /\ SuspendCalibration(t) => h.function = "Stop" /\ h.pc = 2
    BY <1>3, <1>8
  <1> HIDE DEF calls, new
  <1>11. new # <<>> /\ Head(new) = h
    BY <1>9 DEF GoneOn
  <1> QED BY <1>4, <1>5, <1>10, <1>11 DEF At, Running, new

LEMMA StaysParked ==
  ASSUME KeysWhileCalibrating = {}, OutputInv, [Next]_vars
  PROVE  Parked'
  <1>0. Parked
    BY OutputParts
  <1>1. CASE Calibrating' <=> Calibrating
    <2>1. CASE Calibrating
      BY <1>0, <1>1, <2>1, OtherStackRests DEF Parked, At, Running
    <2>2. CASE ~Calibrating
      BY <1>0, <1>1, <2>2, OtherStackRests DEF Parked, At, Running
    <2> QED BY <2>1, <2>2
  <1>2. CASE ~Calibrating /\ Step("keyboard") /\ ResumeCalibration("keyboard")
    <2>1. At("keyboard", "StartCalibration", 5)'
      BY <1>2, OutputParts, HandsOver DEF Actor
    <2>2. Calibrating'
      BY <1>2, OutputParts, StatusIs DEF Calibrating
    <2> QED BY <2>1, <2>2 DEF Parked, At
  <1>3. CASE Calibrating /\ Step("calibration") /\ SuspendCalibration("calibration")
    <2>1. At("calibration", "Stop", 2)'
      BY <1>3, OutputParts, HandsOver DEF Actor
    <2>2. ~Calibrating'
      BY <1>3, OutputParts, StatusIs DEF Calibrating
    <2> QED BY <2>1, <2>2 DEF Parked
  <1> QED BY <1>1, <1>2, <1>3, ActorChanges

LEMMA ActorStays ==
  ASSUME OutputInv, SameOutput, Calibrating' <=> Calibrating, stack'[Actor] = stack[Actor]
  PROVE  ActorReached'
  <1>1. Actor' = Actor /\ DataOK /\ ActorReached
    BY OutputParts DEF Actor
  <1>2. stack'[Actor'] = <<>> => Settled'
    BY <1>1, SettledStays DEF ActorReached
  <1>3. ASSUME NEW f \in Functions, NEW p \in 1 .. 20, At(Actor, f, p)' PROVE Reached(f, p)'
    <2>1. At(Actor, f, p)
      BY <1>1, <1>3 DEF At, Running
    <2>2. Reached(f, p)
      BY <1>1, <2>1 DEF ActorReached
    <2> QED BY <1>1, <2>2, ReachedStays
  <1> QED BY <1>2, <1>3 DEF ActorReached

\* The task that takes over finds the output settled.
LEMMA ActorTakesOver ==
  ASSUME NEW u, Actor' = u, Settled', NEW g, NEW q, g \notin Switching, ~Started(g, q),
         stack'[u] = <<>> \/ At(u, g, q)'
  PROVE  ActorReached'
  <1>1. stack'[Actor'] = <<>> => Settled'
    OBVIOUS
  <1>2. ASSUME NEW f \in Functions, NEW p \in 1 .. 20, At(Actor, f, p)' PROVE Reached(f, p)'
    <2>1. f = g /\ p = q
      BY <1>2 DEF At, Running
    <2> QED BY <2>1 DEF Reached, Switching, Started
  <1> QED BY <1>1, <1>2 DEF ActorReached

LEMMA KeepsActor ==
  ASSUME KeysWhileCalibrating = {}, OutputInv, [Next]_vars
  PROVE  ActorReached'
  <1>0. /\ DriverTypes /\ StackInv /\ DataOK /\ KeyboardAlone /\ Parked /\ ActorReached
        /\ "keyboard" \in Tasks /\ "calibration" \in Tasks /\ Actor \in Tasks
    BY OutputParts DEF Actor
  <1>1. CASE ~Calibrating /\ Step("keyboard") /\ ResumeCalibration("keyboard")
    <2>1. Settled'
      BY <1>0, <1>1, HandsOver, SettledStays DEF Actor
    <2>2. Actor' = "calibration"
      BY <1>0, <1>1, StatusIs DEF Calibrating, Actor
    <2>3. At("calibration", "CalibrationTask", 1)' \/ At("calibration", "Stop", 2)'
      BY <1>0, <1>1, OtherStack DEF Parked, At, Running
    <2>4. /\ "CalibrationTask" \notin Switching /\ ~Started("CalibrationTask", 1)
          /\ "Stop" \notin Switching /\ ~Started("Stop", 2)
      BY DEF Switching, Started
    <2> QED BY <2>1, <2>2, <2>3, <2>4, ActorTakesOver
  <1>2. CASE Calibrating /\ Step("calibration") /\ SuspendCalibration("calibration")
    <2>1. Settled'
      BY <1>0, <1>2, HandsOver, SettledStays DEF Actor
    <2>2. Actor' = "keyboard"
      BY <1>0, <1>2, StatusIs DEF Calibrating, Actor
    <2>3. stack'["keyboard"] = <<>> \/ At("keyboard", "StartCalibration", 5)'
      BY <1>0, <1>2, OtherStack DEF Parked, KeyboardAlone, At, Running
    <2>4. "StartCalibration" \notin Switching /\ ~Started("StartCalibration", 5)
      BY DEF Switching, Started
    <2> QED BY <2>1, <2>2, <2>3, <2>4, ActorTakesOver
  <1>3. CASE Calibrating' <=> Calibrating
    <2>1. Actor' = Actor
      BY <1>3 DEF Actor
    <2>2. ASSUME NEW t \in Tasks, Step(t), t = Actor PROVE ActorReached'
      BY <2>1, <2>2, ActorGoesOn DEF ActorReached
    <2>3. ASSUME NEW t \in Tasks, Step(t), t # Actor PROVE ActorReached'
      <3>1. t = "keyboard" /\ Calibrating /\ Return(t) /\ Actor = "calibration"
        BY <2>3, WhoActs DEF Actor
      <3>2. Statement(t) \notin Switches
        BY <3>1 DEF Return, Switches
      <3>3. SameOutput /\ stack'[Actor] = stack[Actor]
        BY <1>0, <2>3, <3>1, <3>2, PlainSteps, OtherStack
      <3> QED BY <1>3, <3>3, ActorStays
    <2>4. ASSUME NEW operation \in Keys, PressKey(operation) PROVE ActorReached'
      <3>1. Actor' = "keyboard" /\ Actor = "keyboard"
        BY <1>3, <2>4 DEF PressKey, Actor
      <3>2. stack'["keyboard"] = <<Frame(operation, "Voltage")>> /\ stack["keyboard"] = <<>>
        BY <1>0, <2>4, PressKeyKeepsStack
      <3>3. At("keyboard", operation, 1)'
        BY <3>2 DEF At, Running, Frame
      <3>4. Settled'
        BY <1>0, <2>4, <3>1, <3>2, QuietSteps, SettledStays DEF ActorReached
      <3>5. operation \notin Switching /\ ~Started(operation, 1)
        BY DriverAssumption DEF Operations, Switching, Started
      <3> QED BY <3>1, <3>3, <3>4, <3>5, ActorTakesOver
    <2>5. CASE (\E t \in Tasks : Wake(t)) \/ (\E by \in {-1, 1} : AgcMovesGain(by)) \/ AnswerDialog
               \/ UNCHANGED vars
      <3>1. stack'[Actor] = stack[Actor]
        BY <2>5 DEF Wake, AgcMovesGain, AnswerDialog, vars
      <3>2. SameOutput
        BY <2>5, QuietSteps
      <3> QED BY <1>3, <3>1, <3>2, ActorStays
    <2> QED BY <2>2, <2>3, <2>4, <2>5 DEF Next
  <1> QED BY <1>1, <1>2, <1>3, ActorChanges

\* Whose stack a step changes.
LEMMA WhoseStack ==
  ASSUME DriverTypes, [Next]_vars, NEW t \in Tasks
  PROVE  \/ stack'[t] = stack[t]
         \/ Step(t)
         \/ t = "keyboard" /\ \E operation \in Keys : PressKey(operation)
  <1>0. StackInv
    BY DEF DriverTypes
  <1>1. ASSUME NEW u \in Tasks, Step(u) PROVE stack'[t] = stack[t] \/ Step(t)
    BY <1>1, OtherStack DEF Tasks
  <1>2. ASSUME NEW operation \in Keys, PressKey(operation)
        PROVE  stack'[t] = stack[t] \/ t = "keyboard"
    BY <1>0, <1>2, PressKeyKeepsStack DEF Tasks
  <1>3. CASE (\E u \in Tasks : Wake(u)) \/ (\E by \in {-1, 1} : AgcMovesGain(by)) \/ AnswerDialog
             \/ UNCHANGED vars
    BY <1>3 DEF Wake, AgcMovesGain, AnswerDialog, vars
  <1> QED BY <1>1, <1>2, <1>3 DEF Next

-----------------------------------------------------------------------------
\* The first start.

\* Where the calls of a task come from.
LEMMA FramesAfter ==
  ASSUME StackInv, NEW t \in Tasks, Moves(t), NEW i \in 1 .. Len(stack'[t])
  PROVE  \/ i >= 2 /\ i \in 1 .. Len(stack[t]) /\ stack'[t][i] = stack[t][i]
         \/ i + 1 \in 1 .. Len(stack[t]) /\ stack'[t][i] = stack[t][i + 1]
         \/ /\ Calls(t) /\ i >= 3 /\ i - 1 \in 1 .. Len(stack[t])
            /\ stack'[t][i] = stack[t][i - 1]
         \/ (i = 1 \/ (i = 2 /\ Calls(t))) /\ Onward(t, stack'[t][i])
         \/ i = 1 /\ stack'[t][i].pc = 1 /\ stack'[t][i].wasActive = FALSE
         \/ /\ i = 1 /\ stack'[t][i].function = "CalibrationTask"
            /\ stack'[t][i].wasActive = Running(t).wasActive
  <1> DEFINE calls == stack[t]
             new == stack'[t]
  <1>1. /\ WellFormed(calls) /\ calls # <<>> /\ stack \in [Tasks -> Seq(Frames)]
        /\ Running(t) = Head(calls) /\ Len(calls) \in Nat \ {0}
    BY TopOf DEF Moves, StackInv, Running
  <1>2. CASE Goes(t)
    <2>1. PICK h \in Frames : Onward(t, h) /\ stack' = [stack EXCEPT ![t] = GoneOn(@, h)]
      BY <1>2 DEF Goes
    <2>2. new = GoneOn(calls, h)
      BY <1>1, <2>1
    <2>3. h.function = Head(calls).function /\ h.pc <= Len(Body[h.function])
      BY <1>1, <2>1 DEF Onward
    <2> HIDE DEF calls, new
    <2>4. /\ WellFormed(new) /\ new # <<>> /\ Head(new) = h /\ Len(new) = Len(calls)
          /\ \A j \in 2 .. Len(calls) : new[j] = calls[j]
      BY <1>1, <2>2, <2>3, TopReplaced
    <2>5. new[1] = h
      BY <2>4, TopOf
    <2>6. i = 1 \/ (i >= 2 /\ i \in 2 .. Len(calls) /\ i \in 1 .. Len(calls))
      BY <1>1, <2>4 DEF new
    <2> QED BY <2>1, <2>4, <2>5, <2>6 DEF calls, new
  <1>3. CASE Calls(t)
    <2>1. PICK h \in Frames, g \in Frames :
            /\ Onward(t, h) /\ g.pc = 1 /\ g.wasActive = FALSE /\ WaitsFor(h, g.function)
            /\ stack' = [stack EXCEPT ![t] = Called(@, g, h)]
      BY <1>3 DEF Calls, Frame
    <2>2. new = Called(calls, g, h)
      BY <1>1, <2>1
    <2>3. h.function = Head(calls).function /\ h.pc <= Len(Body[h.function])
      BY <1>1, <2>1 DEF Onward
    <2> HIDE DEF calls, new
    <2>4. /\ WellFormed(new) /\ new # <<>> /\ Head(new) = g /\ Len(new) = Len(calls) + 1
          /\ new[2] = h /\ \A j \in 2 .. Len(calls) : new[j + 1] = calls[j]
      BY <1>1, <2>1, <2>2, <2>3, TopCalls
    <2>5. new[1] = g
      BY <2>4, TopOf
    <2>6. ASSUME i # 1, i # 2 PROVE i >= 3 /\ i - 1 \in 1 .. Len(calls) /\ new[i] = calls[i - 1]
      <3>1. i \in 3 .. Len(calls) + 1
        BY <1>1, <2>4, <2>6 DEF new
      <3>2. i - 1 \in 2 .. Len(calls) /\ (i - 1) + 1 = i /\ i >= 3
        BY <1>1, <3>1
      <3> QED BY <1>1, <2>4, <3>2
    <2> QED BY <1>3, <2>1, <2>4, <2>5, <2>6 DEF calls, new
  <1>4. CASE Returns(t)
    <2>1. new = Tail(calls)
      BY <1>1, <1>4 DEF Returns
    <2> HIDE DEF calls, new
    <2>2. Len(new) = Len(calls) - 1 /\ \A j \in 1 .. Len(new) : new[j] = calls[j + 1]
      BY <1>1, <2>1, TopReturns
    <2>3. i + 1 \in 1 .. Len(calls)
      BY <1>1, <2>2 DEF new
    <2> QED BY <2>2, <2>3 DEF calls, new
  <1>5. CASE Loops(t)
    <2>1. new = <<Frame("CalibrationTask", "Voltage")>>
      BY <1>1, <1>5 DEF Loops
    <2> DEFINE h == Frame("CalibrationTask", "Voltage")
    <2>2. h.pc = 1 /\ h.wasActive = FALSE
      BY DEF Frame
    <2>3. new = <<h>>
      BY <2>1
    <2> HIDE DEF h, new
    <2>4. Len(new) = 1 /\ new[1] = h
      BY <2>3
    <2>5. i = 1
      BY <2>4 DEF new
    <2> QED BY <2>2, <2>4, <2>5 DEF new
  <1>6. CASE GoesBack(t)
    <2>1. PICK h \in Frames :
            /\ Running(t).function = "CalibrationTask" /\ h.function = "CalibrationTask"
            /\ h.pc = 12 /\ h.wasActive = Running(t).wasActive
            /\ stack' = [stack EXCEPT ![t] = GoneOn(@, h)]
      BY <1>6 DEF GoesBack
    <2>2. new = GoneOn(calls, h)
      BY <1>1, <2>1
    <2>3. h.function = Head(calls).function /\ h.pc <= Len(Body[h.function])
      BY <1>1, <2>1 DEF Body, CalibrationTask
    <2> HIDE DEF calls, new
    <2>4. /\ WellFormed(new) /\ new # <<>> /\ Head(new) = h /\ Len(new) = Len(calls)
          /\ \A j \in 2 .. Len(calls) : new[j] = calls[j]
      BY <1>1, <2>2, <2>3, TopReplaced
    <2>5. new[1] = h
      BY <2>4, TopOf
    <2>6. i = 1 \/ (i >= 2 /\ i \in 2 .. Len(calls) /\ i \in 1 .. Len(calls))
      BY <1>1, <2>4 DEF new
    <2> QED BY <2>1, <2>4, <2>5, <2>6 DEF calls, new
  <1> QED BY <1>2, <1>3, <1>4, <1>5, <1>6 DEF Moves

LEMMA FirstStartStays ==
  ASSUME OutputInv, [Next]_vars
  PROVE  /\ state'.firstStart => state.firstStart
         /\ state.firstStart /\ ~state'.firstStart =>
              \E t \in Tasks : /\ Step(t) /\ t = Actor /\ Running(t).function = "FirstStart"
                               /\ stack[t] # <<>>
  <1>0. DriverTypes /\ DataOK /\ StackInv
    BY OutputParts
  <1>1. ASSUME NEW t \in Tasks, Step(t)
        PROVE  \/ state'.firstStart = state.firstStart
               \/ /\ ~state'.firstStart /\ t = Actor
                  /\ Running(t).function = "FirstStart" /\ stack[t] # <<>>
    <2>1. CASE ClearFirstStart(t)
      <3>1. Statement(t) = "ClearFirstStart" /\ stack[t] # <<>>
        BY <1>0, <1>1, <2>1, OtherStack DEF ClearFirstStart, Assign, Does
      <3>2. Running(t).function = "FirstStart"
        BY <1>0, <3>1, TopOfTask, OnlyAt
      <3>3. t = Actor
        BY <1>1, <3>2, WhoActs DEF At
      <3> QED BY <1>0, <2>1, <3>1, <3>2, <3>3, FieldsAre
    <2>2. CASE ~ClearFirstStart(t)
      BY <1>0, <1>1, <2>2, StateKept, FieldsAre
    <2> QED BY <2>1, <2>2
  <1>2. CASE \A t \in Tasks : ~Step(t)
    <2>1. state'.firstStart = state.firstStart
      BY <1>2, QuietSteps DEF Next, SameOutput
    <2> QED BY <2>1
  <1> QED BY <1>1, <1>2

LEMMA TopIsFirst ==
  ASSUME StackInv, NEW t \in Tasks, stack[t] # <<>>
  PROVE  /\ Running(t) = stack[t][1] /\ Len(stack[t]) \in Nat \ {0} /\ 1 \in 1 .. Len(stack[t])
  <1>1. Running(t) = stack[t][1] /\ Len(stack[t]) \in Nat \ {0}
    BY TopOf DEF StackInv, Running
  <1> QED BY <1>1

\* While the first start is to come, a task at work is not past it.
LEMMA BeforeFirstStart ==
  ASSUME OutputInv, state.firstStart, NEW t \in Tasks, Step(t)
  PROVE  /\ ~state.isActive /\ Running(t).wasActive = FALSE
         /\ Running(t).function = "StartMeasurements" => Running(t).pc = 1
  <1>0. StackInv /\ stack[t] # <<>> /\ ActorReached
    BY OutputParts, OtherStack
  <1>1. /\ ~state.isActive /\ Running(t).wasActive = FALSE
        /\ Running(t).function = "StartMeasurements" => Running(t).pc <= 2
    BY <1>0, TopIsFirst DEF OutputInv, NotStarted
  <1>2. ASSUME Running(t).function = "StartMeasurements" PROVE Running(t).pc = 1
    <2>1. t = Actor
      BY <1>2, WhoActs DEF At
    <2> DEFINE k == Running(t).pc
    <2>2. k \in 1 .. 20 /\ k <= 2 /\ At(t, "StartMeasurements", k)
      BY <1>0, <1>1, <1>2, TopOfTask DEF At
    <2> HIDE DEF k
    <2>3. k # 2
      <3> SUFFICES ASSUME k = 2 PROVE FALSE
        OBVIOUS
      <3>1. Reached("StartMeasurements", 2)
        BY <1>0, <2>1, <2>2, FunctionsAre DEF ActorReached
      <3>2. InStart(2)
        BY <3>1 DEF Reached
      <3> QED BY <3>2 DEF InStart
    <2>4. k = 1
      BY <2>2, <2>3
    <2> QED BY <2>4 DEF k
  <1> QED BY <1>1, <1>2

LEMMA StaysNotStarted ==
  ASSUME OutputInv, [Next]_vars
  PROVE  NotStarted'
  <1>0. /\ DriverTypes /\ DataOK /\ StackInv /\ NotStarted
        /\ "keyboard" \in Tasks /\ "calibration" \in Tasks
    BY OutputParts DEF OutputInv
  <1> SUFFICES ASSUME state'.firstStart
               PROVE  /\ ~state'.isActive
                      /\ \A t \in Tasks : \A i \in 1 .. Len(stack'[t]) :
                           /\ stack'[t][i].wasActive = FALSE
                           /\ stack'[t][i].function = "StartMeasurements" => stack'[t][i].pc <= 2
    BY DEF NotStarted
  <1>1. /\ state.firstStart /\ ~state.isActive
        /\ \A t \in Tasks : \A i \in 1 .. Len(stack[t]) :
             /\ stack[t][i].wasActive = FALSE
             /\ stack[t][i].function = "StartMeasurements" => stack[t][i].pc <= 2
    BY <1>0, FirstStartStays DEF NotStarted
  <1>2. ~state'.isActive
    <2>1. ASSUME NEW t \in Tasks, Step(t) PROVE ~state'.isActive
      <3>1. ~SetActive(t)
        <4> SUFFICES ASSUME SetActive(t) PROVE FALSE
          OBVIOUS
        <4>1. Statement(t) = "SetActive" /\ stack[t] # <<>>
          BY <1>0, <2>1, OtherStack DEF SetActive, Assign, Does
        <4>2. Running(t).function = "StartMeasurements" /\ Running(t).pc = 7
          BY <1>0, <4>1, TopOfTask, OnlyAt
        <4>3. state.firstStart
          BY <1>1
        <4>4. Running(t).function = "StartMeasurements" => Running(t).pc = 1
          BY <2>1, <4>3, BeforeFirstStart
        <4> QED BY <4>2, <4>4
      <3> QED BY <1>0, <1>1, <2>1, <3>1, StateKept, FieldsAre
    <2>2. CASE \A t \in Tasks : ~Step(t)
      <3>1. state'.isActive = state.isActive
        BY <2>2, QuietSteps DEF Next, SameOutput
      <3> QED BY <1>1, <3>1
    <2> QED BY <2>1, <2>2
  <1>3. ASSUME NEW t \in Tasks, NEW i \in 1 .. Len(stack'[t])
        PROVE  /\ stack'[t][i].wasActive = FALSE
               /\ stack'[t][i].function = "StartMeasurements" => stack'[t][i].pc <= 2
    <2>1. CASE stack'[t] = stack[t]
      BY <1>1, <1>3, <2>1
    <2>2. CASE Step(t)
      <3>1. Moves(t)
        BY <1>0, <2>2, StepMoves
      <3>2. /\ Running(t).wasActive = FALSE
            /\ Running(t).function = "StartMeasurements" => Running(t).pc = 1
        BY <1>1, <2>2, BeforeFirstStart
      <3>3. CASE Onward(t, stack'[t][i])
        BY <1>0, <1>1, <3>2, <3>3, StateTyped DEF Onward
      <3>4. CASE stack'[t][i].pc = 1 /\ stack'[t][i].wasActive = FALSE
        BY <3>4
      <3>5. CASE \E j \in 1 .. Len(stack[t]) : stack'[t][i] = stack[t][j]
        BY <1>1, <3>5
      <3>6. CASE /\ stack'[t][i].function = "CalibrationTask"
                 /\ stack'[t][i].wasActive = Running(t).wasActive
        BY <3>2, <3>6
      <3> QED BY <1>0, <3>1, <3>3, <3>4, <3>5, <3>6, FramesAfter
    <2>3. CASE t = "keyboard" /\ \E operation \in Keys : PressKey(operation)
      <3>1. PICK operation \in Keys : PressKey(operation)
        BY <2>3
      <3> DEFINE h == Frame(operation, "Voltage")
                 new == stack'[t]
      <3>2. h.pc = 1 /\ h.wasActive = FALSE
        BY DEF Frame
      <3>3. new = <<h>>
        BY <1>0, <2>3, <3>1, PressKeyKeepsStack
      <3> HIDE DEF h, new
      <3>4. Len(new) = 1 /\ new[1] = h
        BY <3>3
      <3>5. i = 1
        BY <3>4 DEF new
      <3> QED BY <3>2, <3>4, <3>5 DEF new
    <2>4. stack'[t] = stack[t] \/ Step(t) \/ (t = "keyboard" /\ \E operation \in Keys : PressKey(operation))
      BY <1>0, WhoseStack
    <2> QED BY <2>1, <2>2, <2>3, <2>4
  <1> QED BY <1>2, <1>3

LEMMA UnderFirstStart ==
  ASSUME NEW calls, WellFormed(calls), 2 \in 1 .. Len(calls), calls[2].function = "FirstStart"
  PROVE  calls[1].function = "SetAndActivateSensor"
  <1> DEFINE p == calls[2].pc
  <1>1. WaitsFor(calls[2], calls[2 - 1].function) /\ calls \in Seq(Frames)
    BY DEF WellFormed
  <1>2. p \in 1 .. 7
    <2>1. calls[2] \in Frames /\ p <= Len(Body["FirstStart"])
      BY <1>1 DEF WellFormed
    <2>2. p \in 1 .. 20
      BY <2>1, FrameTyped
    <2> HIDE DEF p
    <2> QED BY <2>1, <2>2 DEF Body, FirstStart
  <1>3. /\ p > 1 /\ FirstStart[p - 1] \in DOMAIN Callee
        /\ calls[1].function = Callee[FirstStart[p - 1]]
    BY <1>1 DEF WaitsFor, Body
  <1> HIDE DEF p
  <1>4. FirstStart[p - 1] = "ActivateVoltage"
    BY <1>2, <1>3 DEF FirstStart, Callee
  <1> QED BY <1>3, <1>4 DEF Callee

\* The other task is not inside the first start.
LEMMA OtherNotInFirstStart ==
  ASSUME OutputInv, NEW t \in Tasks, t # Actor, NEW i \in 2 .. Len(stack[t])
  PROVE  stack[t][i].function # "FirstStart"
  <1>0. StackInv /\ WellFormed(stack[t]) /\ KeyboardAlone /\ Parked /\ InsideFirstStart
    BY OutputParts DEF OutputInv, StackInv
  <1>1. CASE t = "keyboard"
    <2>1. Calibrating
      BY <1>1 DEF Actor
    <2>2. stack[t] # <<>>
      <3> DEFINE calls == stack[t]
      <3>1. calls = <<>> => Len(calls) = 0
        OBVIOUS
      <3> HIDE DEF calls
      <3>2. i \in 2 .. Len(calls)
        BY DEF calls
      <3>3. calls # <<>>
        BY <3>1, <3>2
      <3> QED BY <3>3 DEF calls
    <2>3. Len(stack[t]) = 1
      BY <1>0, <1>1, <2>1, <2>2 DEF KeyboardAlone
    <2> QED BY <2>3
  <1>2. CASE t = "calibration"
    <2>1. ~Calibrating /\ stack[t] # <<>>
      BY <1>0, <1>2 DEF Actor, StackInv
    <2>2. Running(t).function \in {"CalibrationTask", "Stop"}
      BY <1>0, <1>2, <2>1 DEF Parked, At
    <2> SUFFICES ASSUME stack[t][i].function = "FirstStart" PROVE FALSE
      OBVIOUS
    <2>3. i = 2
      BY <1>0 DEF InsideFirstStart
    <2>4. 2 \in 1 .. Len(stack[t]) /\ stack[t][2].function = "FirstStart"
      <3> DEFINE n == Len(stack[t])
      <3>1. 2 \in 2 .. n
        BY <2>3
      <3> HIDE DEF n
      <3>2. 2 \in 1 .. n
        BY <3>1
      <3> QED BY <2>3, <3>2 DEF n
    <2>5. stack[t][1].function = "SetAndActivateSensor"
      BY <1>0, <2>4, UnderFirstStart
    <2> QED BY <1>0, <2>1, <2>2, <2>5, TopIsFirst
  <1> QED BY <1>1, <1>2 DEF Tasks

LEMMA StaysInsideFirstStart ==
  ASSUME OutputInv, [Next]_vars
  PROVE  InsideFirstStart'
  <1>0. /\ DriverTypes /\ DataOK /\ StackInv /\ InsideFirstStart /\ ActorReached
        /\ "keyboard" \in Tasks /\ "calibration" \in Tasks
    BY OutputParts DEF OutputInv
  <1> SUFFICES ASSUME NEW t \in Tasks, NEW i \in 2 .. Len(stack'[t]),
                      stack'[t][i].function = "FirstStart"
               PROVE  state'.firstStart /\ i = 2
    BY DEF InsideFirstStart
  <1>1. CASE stack'[t] = stack[t] /\ ~Step(t)
    <2>1. state.firstStart /\ i = 2 /\ i \in 2 .. Len(stack[t]) /\ stack[t][i].function = "FirstStart"
      BY <1>0, <1>1 DEF InsideFirstStart
    <2>2. t = Actor
      BY <2>1, OtherNotInFirstStart
    <2> QED BY <1>1, <2>1, <2>2, FirstStartStays
  <1>2. CASE Step(t)
    <2>0. /\ Moves(t) /\ stack[t] # <<>> /\ WellFormed(stack[t]) /\ i \in 1 .. Len(stack'[t]) /\ i >= 2
      <3> DEFINE n == Len(stack'[t])
      <3>1. StackInv' /\ Moves(t) /\ stack[t] # <<>> /\ WellFormed(stack[t])
        BY <1>0, <1>2, OtherStack DEF StackInv
      <3> HIDE DEF n
      <3>2. i \in 1 .. n /\ i >= 2
        <4>1. i \in 2 .. n
          BY DEF n
        <4> QED BY <4>1
      <3> QED BY <3>1, <3>2 DEF n
    <2>1. CASE i \in 1 .. Len(stack[t]) /\ stack'[t][i] = stack[t][i]
      <3>1. i \in 2 .. Len(stack[t]) /\ stack[t][i].function = "FirstStart"
        BY <2>0, <2>1
      <3>2. state.firstStart /\ i = 2
        BY <1>0, <3>1 DEF InsideFirstStart
      <3>3. Running(t).function = "SetAndActivateSensor"
        BY <1>0, <2>0, <2>1, <3>1, <3>2, UnderFirstStart, TopIsFirst
      <3>4. t = Actor
        BY <3>1, OtherNotInFirstStart
      <3>5. state'.firstStart
        <4> SUFFICES ASSUME ~state'.firstStart PROVE FALSE
          OBVIOUS
        <4>1. PICK u \in Tasks : Step(u) /\ u = Actor /\ Running(u).function = "FirstStart"
          BY <3>2, FirstStartStays
        <4> QED BY <3>3, <3>4, <4>1
      <3> QED BY <3>2, <3>5
    <2>2. ASSUME i + 1 \in 1 .. Len(stack[t]), stack'[t][i] = stack[t][i + 1] PROVE FALSE
      <3>1. i + 1 \in 2 .. Len(stack[t]) /\ i + 1 # 2
        BY <2>0, <2>2
      <3>2. stack[t][i + 1].function = "FirstStart"
        BY <2>2
      <3> QED BY <1>0, <3>1, <3>2 DEF InsideFirstStart
    <2>3. ASSUME Calls(t), i >= 3, i - 1 \in 1 .. Len(stack[t]), stack'[t][i] = stack[t][i - 1]
          PROVE  FALSE
      <3>1. i - 1 \in 2 .. Len(stack[t])
        BY <2>0, <2>3
      <3>2. stack[t][i - 1].function = "FirstStart"
        BY <2>3
      <3>3. state.firstStart /\ i - 1 = 2
        BY <1>0, <3>1, <3>2 DEF InsideFirstStart
      <3>4. 2 \in 1 .. Len(stack[t]) /\ stack[t][2].function = "FirstStart"
        BY <2>3, <3>2, <3>3
      <3>5. Running(t).function = "SetAndActivateSensor"
        BY <1>0, <2>0, <3>4, UnderFirstStart, TopIsFirst
      <3>6. ~state.isActive /\ Running(t).wasActive = FALSE
        BY <1>2, <3>3, BeforeFirstStart
      <3>7. Statement(t) \in DOMAIN Callee /\ Made(Statement(t), Running(t))
        BY <1>0, <2>3, CallsTop
      <3>8. Statement(t) \in {"StopIfActive", "StartIfWasActive"}
        <4>1. PICK k \in 1 .. 20 : k \in 1 .. Len(Body["SetAndActivateSensor"])
                                   /\ Statement(t) = Body["SetAndActivateSensor"][k]
          BY <1>0, <2>0, <3>5, TopOfTask
        <4> QED BY <3>7, <4>1 DEF Body, SetAndActivateSensor, Callee
      <3> QED BY <3>6, <3>7, <3>8 DEF Made
    <2>4. CASE i = 2 /\ Calls(t) /\ Onward(t, stack'[t][i])
      <3>1. Running(t).function = "FirstStart"
        BY <2>4 DEF Onward
      <3>2. t = Actor
        BY <1>2, <3>1, WhoActs DEF At
      <3>3. Statement(t) \in DOMAIN Callee
        BY <1>0, <2>4, CallsTop
      <3>4. PICK k \in 1 .. 20 : k \in 1 .. Len(Body["FirstStart"]) /\ Running(t).pc = k
                                 /\ Statement(t) = Body["FirstStart"][k]
        BY <1>0, <2>0, <3>1, TopOfTask
      <3>5. k = 1
        <4>1. Body["FirstStart"] = FirstStart /\ Len(FirstStart) = 7
          BY DEF Body, FirstStart
        <4>2. \A j \in 1 .. 7 : FirstStart[j] \in DOMAIN Callee => j = 1
          BY DEF FirstStart, Callee
        <4> QED BY <3>3, <3>4, <4>1, <4>2
      <3>6. Reached("FirstStart", 1)
        BY <1>0, <2>0, <3>1, <3>2, <3>4, <3>5, FunctionsAre DEF ActorReached, At
      <3>7. state.firstStart
        <4>1. InFirstStart(1)
          BY <3>6 DEF Reached
        <4> QED BY <4>1 DEF InFirstStart
      <3>8. Statement(t) \notin Switches
        BY <3>3 DEF Callee, Switches
      <3>9. state'.firstStart
        BY <1>0, <1>2, <3>7, <3>8, PlainSteps DEF SameOutput
      <3> QED BY <2>4, <3>9
    <2> QED
      <3>1. i # 1
        BY <2>0
      <3> QED BY <1>0, <2>0, <2>1, <2>2, <2>3, <2>4, <3>1, FramesAfter
  <1>3. CASE t = "keyboard" /\ \E operation \in Keys : PressKey(operation)
    <2>1. PICK operation \in Keys : PressKey(operation)
      BY <1>3
    <2> DEFINE h == Frame(operation, "Voltage")
               new == stack'[t]
    <2>2. new = <<h>>
      BY <1>0, <1>3, <2>1, PressKeyKeepsStack
    <2> HIDE DEF h, new
    <2>3. Len(new) = 1
      BY <2>2
    <2>4. i \in 2 .. Len(new)
      BY DEF new
    <2> QED BY <2>3, <2>4
  <1> QED BY <1>0, <1>1, <1>2, <1>3, WhoseStack

-----------------------------------------------------------------------------
LEMMA InitOutput == Init => OutputInv
  <1> SUFFICES ASSUME Init PROVE OutputInv
    OBVIOUS
  <1>1. /\ stack["keyboard"] = <<>> /\ stack["calibration"] = <<Frame("CalibrationTask", "Voltage")>>
        /\ status["calibration"] = "suspended"
    BY DEF Init
  <1>2. ~Calibrating /\ Actor = "keyboard"
    BY <1>1 DEF Calibrating, Actor
  <1>3. AllOff
    BY DEF Init, AllOff
  <1>4. Parked
    BY <1>1, <1>2 DEF Parked, At, Running, Frame
  <1>5. ActorReached
    BY <1>1, <1>2, <1>3 DEF ActorReached, Settled, At
  <1> DEFINE h == Frame("CalibrationTask", "Voltage")
             calls == stack["calibration"]
             none == stack["keyboard"]
  <1>6. h.wasActive = FALSE /\ h.pc = 1 /\ calls = <<h>> /\ none = <<>>
    BY <1>1 DEF Frame
  <1> HIDE DEF h, calls, none
  <1>7. Len(calls) = 1 /\ calls[1] = h /\ Len(none) = 0
    BY <1>6
  <1>8. NotStarted
    <2>1. ~state.isActive
      BY <1>3 DEF AllOff
    <2>2. \A i \in 1 .. Len(calls) : calls[i].wasActive = FALSE /\ calls[i].pc <= 2
      BY <1>6, <1>7
    <2>3. \A i \in 1 .. Len(none) : none[i].wasActive = FALSE /\ none[i].pc <= 2
      BY <1>7
    <2> QED BY <2>1, <2>2, <2>3 DEF NotStarted, Tasks, calls, none
  <1>9. InsideFirstStart
    <2>1. \A i \in 2 .. Len(calls) : FALSE
      BY <1>7
    <2>2. \A i \in 2 .. Len(none) : FALSE
      BY <1>7
    <2> QED BY <2>1, <2>2 DEF InsideFirstStart, Tasks, calls, none
  <1> QED BY <1>4, <1>5, <1>8, <1>9, InitInterference DEF OutputInv

LEMMA AlwaysOutput ==
  ASSUME KeysWhileCalibrating = {}
  PROVE  Spec => []OutputInv
  <1>1. KeysWhileCalibrating \subseteq {"Stop"}
    OBVIOUS
  <1>2. OutputInv /\ [Next]_vars => OutputInv'
    BY <1>1, KeepsInterference, StaysParked, KeepsActor, StaysNotStarted, StaysInsideFirstStart
       DEF OutputInv
  <1> QED BY <1>2, InitOutput, PTL DEF Spec

\* The relay is closed only while supply and generator are on: what the task at work
\* has reached in each of the functions that switch the output says so.
THEOREM InterlockHolds ==
  ASSUME KeysWhileCalibrating = {}
  PROVE  Spec => []OutputInterlock
  <1>1. OutputInv => OutputInterlock
    <2> SUFFICES ASSUME OutputInv, output.relay PROVE output.power /\ output.generator
      BY DEF OutputInterlock
    <2>0. Actor \in Tasks /\ ActorReached
      BY OutputParts DEF Actor
    <2>1. Settled => output.power /\ output.generator
      BY DEF Settled, AllOff, AllOn
    <2>2. CASE stack[Actor] = <<>>
      BY <2>0, <2>1, <2>2 DEF ActorReached
    <2>3. CASE stack[Actor] # <<>>
      <3>1. PICK f \in Functions : \E k \in 1 .. Len(Body[f]) : Reached(f, k)
        BY <2>0, <2>3, ActorIsAt
      <3>2. PICK k \in 1 .. Len(Body[f]) : Reached(f, k)
        BY <3>1
      <3>3. CASE f = "StartMeasurements"
        <4>1. k \in 1 .. 8 /\ InStart(k)
          BY <3>2, <3>3 DEF Reached, Body, StartMeasurements
        <4>2. CASE k \in 4 .. 5
          <5>1. output = [power |-> TRUE, generator |-> state.isActive, relay |-> state.isActive]
            BY <4>1, <4>2 DEF InStart
          <5> QED BY <5>1
        <4>3. CASE k \notin 4 .. 5
          BY <2>1, <4>1, <4>3 DEF InStart, AllOn
        <4> QED BY <4>2, <4>3
      <3>4. CASE f = "FirstStart"
        BY <3>2, <3>4 DEF Reached, InFirstStart
      <3>5. CASE f = "StopMeasurements"
        <4>1. k \in 1 .. 10 /\ InStop(k)
          BY <3>2, <3>5 DEF Reached, Body, StopMeasurements
        <4>2. CASE k \in 2 .. 5
          <5>1. output = [power |-> state.isActive, generator |-> state.isActive,
                          relay |-> state.isActive]
            BY <4>1, <4>2 DEF InStop
          <5> QED BY <5>1
        <4>3. CASE k \notin 2 .. 5
          BY <2>1, <4>1, <4>3 DEF InStop
        <4> QED BY <4>2, <4>3
      <3>6. CASE f = "SetAndActivateSensor"
        BY <2>1, <3>2, <3>6 DEF Reached, InActivate
      <3>7. CASE f \notin Switching
        BY <2>1, <3>2, <3>7 DEF Reached
      <3> QED BY <3>3, <3>4, <3>5, <3>6, <3>7 DEF Switching
    <2> QED BY <2>2, <2>3
  <1> QED BY <1>1, AlwaysOutput, PTL

\* When no key is handled and the calibration waits or is suspended, isActive says what
\* output, ADC and sensor do.
THEOREM RestIsConsistent ==
  ASSUME KeysWhileCalibrating = {}
  PROVE  Spec => []ActiveMeansOn
  <1>1. OutputInv => ActiveMeansOn
    <2> SUFFICES ASSUME OutputInv, AtRest PROVE Consistent
      BY DEF ActiveMeansOn
    <2>0. Actor \in Tasks /\ ActorReached /\ StackInv /\ DataOK /\ "calibration" \in Tasks
      BY OutputParts DEF Actor
    <2>1. Settled
      <3>1. CASE ~Calibrating
        BY <2>0, <3>1 DEF AtRest, Actor, ActorReached
      <3>2. CASE Calibrating
        <4>1. Actor = "calibration" /\ Statement(Actor) = "TakeAnswer" /\ stack[Actor] # <<>>
          BY <2>0, <3>2 DEF AtRest, Actor, StackInv
        <4>2. PICK f \in Functions : \E k \in 1 .. Len(Body[f]) :
                 Statement(Actor) = Body[f][k] /\ Reached(f, k)
          BY <2>0, <4>1, ActorIsAt
        <4>3. PICK k \in 1 .. Len(Body[f]) : Body[f][k] = "TakeAnswer" /\ Reached(f, k)
          BY <4>1, <4>2
        <4>4. f \notin Switching
          <5>1. f # "StartMeasurements"
            <6>1. Body["StartMeasurements"] = StartMeasurements /\ Len(StartMeasurements) = 8
              BY DEF Body, StartMeasurements
            <6>2. \A j \in 1 .. 8 : StartMeasurements[j] # "TakeAnswer"
              BY DEF StartMeasurements
            <6> QED BY <4>3, <6>1, <6>2
          <5>2. f # "FirstStart"
            <6>1. Body["FirstStart"] = FirstStart /\ Len(FirstStart) = 7
              BY DEF Body, FirstStart
            <6>2. \A j \in 1 .. 7 : FirstStart[j] # "TakeAnswer"
              BY DEF FirstStart
            <6> QED BY <4>3, <6>1, <6>2
          <5>3. f # "StopMeasurements"
            <6>1. Body["StopMeasurements"] = StopMeasurements /\ Len(StopMeasurements) = 10
              BY DEF Body, StopMeasurements
            <6>2. \A j \in 1 .. 10 : StopMeasurements[j] # "TakeAnswer"
              BY DEF StopMeasurements
            <6> QED BY <4>3, <6>1, <6>2
          <5>4. f # "SetAndActivateSensor"
            <6>1. /\ Body["SetAndActivateSensor"] = SetAndActivateSensor
                  /\ Len(SetAndActivateSensor) = 7
              BY DEF Body, SetAndActivateSensor
            <6>2. \A j \in 1 .. 7 : SetAndActivateSensor[j] # "TakeAnswer"
              BY DEF SetAndActivateSensor
            <6> QED BY <4>3, <6>1, <6>2
          <5> QED BY <5>1, <5>2, <5>3, <5>4 DEF Switching
        <4> QED BY <4>3, <4>4 DEF Reached
      <3> QED BY <3>1, <3>2
    <2>2. adc.on \in BOOLEAN /\ state.isActive \in BOOLEAN
      BY <2>0 DEF DataOK
    <2>3. CASE AllOff
      <3>1. state.isActive = FALSE /\ adc.on = FALSE
        BY <2>2, <2>3 DEF AllOff
      <3> QED BY <2>3, <3>1 DEF AllOff, Consistent
    <2>4. CASE AllOn
      <3>1. state.isActive = TRUE /\ adc.on = TRUE /\ sensor[state.activeSensor].on
        BY <2>2, <2>4 DEF AllOn, Active
      <3> QED BY <2>4, <3>1 DEF AllOn, Consistent
    <2> QED BY <2>1, <2>3, <2>4 DEF Settled
  <1> QED BY <1>1, AlwaysOutput, PTL

-----------------------------------------------------------------------------
\* The output stage.

LEMMA StageIs ==
  /\ output = [power |-> FALSE, generator |-> FALSE, relay |-> FALSE] => Stage = "off"
  /\ output = [power |-> TRUE, generator |-> FALSE, relay |-> FALSE] => Stage = "powered"
  /\ output = [power |-> TRUE, generator |-> TRUE, relay |-> FALSE] => Stage = "driven"
  /\ output = [power |-> TRUE, generator |-> TRUE, relay |-> TRUE] => Stage = "connected"
  /\ output = [power |-> FALSE, generator |-> TRUE, relay |-> FALSE] => Stage = "draining"
  BY DEF Stage

LEMMA StageWillBe ==
  /\ output' = [power |-> FALSE, generator |-> FALSE, relay |-> FALSE] => Stage' = "off"
  /\ output' = [power |-> TRUE, generator |-> FALSE, relay |-> FALSE] => Stage' = "powered"
  /\ output' = [power |-> TRUE, generator |-> TRUE, relay |-> FALSE] => Stage' = "driven"
  /\ output' = [power |-> TRUE, generator |-> TRUE, relay |-> TRUE] => Stage' = "connected"
  /\ output' = [power |-> FALSE, generator |-> TRUE, relay |-> FALSE] => Stage' = "draining"
  BY DEF Stage

LEMMA OutputAt ==
  ASSUME NEW f \in Functions, NEW p \in 1 .. Len(Body[f])
  PROVE  /\ Body[f][p] = "PowerOn" => f = "StartMeasurements" /\ p = 3
         /\ Body[f][p] = "AdcAndGeneratorOn" => f = "StartMeasurements" /\ p = 5
         /\ Body[f][p] = "RelayOn" => f = "StartMeasurements" /\ p = 6
         /\ Body[f][p] = "RelayOff" => f = "StopMeasurements" /\ p = 5
         /\ Body[f][p] = "PowerOff" => f = "StopMeasurements" /\ p = 6
         /\ Body[f][p] = "GeneratorOff" => f = "StopMeasurements" /\ p = 7
  <1>1. CASE f = "StartMeasurements"
    BY <1>1 DEF Body, StartMeasurements
  <1>2. CASE f = "FirstStart"
    BY <1>2 DEF Body, FirstStart
  <1>3. CASE f = "StopMeasurements"
    BY <1>3 DEF Body, StopMeasurements
  <1>4. CASE f = "SetAndActivateSensor"
    BY <1>4 DEF Body, SetAndActivateSensor
  <1>5. CASE f \notin Switching
    BY <1>5, PlainBodies DEF Switches
  <1> QED BY <1>1, <1>2, <1>3, <1>4, <1>5 DEF Switching

\* Each switch, from where it is made, is a step of the output stage or none.
LEMMA SwitchesAreStages ==
  ASSUME OutputInv, NEW t \in Tasks, Step(t)
  PROVE  [Output!Next]_Stage
  <1>0. /\ DriverTypes /\ DataOK /\ StackInv /\ stack[t] # <<>> /\ state.isActive \in BOOLEAN
        /\ output \in [power : BOOLEAN, generator : BOOLEAN, relay : BOOLEAN]
    BY OutputParts, OtherStack, StateTyped DEF DataOK
  <1>1. CASE t # Actor
    <2>1. output' = output
      BY <1>1, WhoActs DEF Return
    <2> QED BY <2>1 DEF Stage
  <1>2. CASE t = Actor
    <2>1. PICK f \in Functions : \E k \in 1 .. Len(Body[f]) :
             Statement(t) = Body[f][k] /\ Reached(f, k)
      BY <1>0, <1>2, ActorIsAt
    <2>2. PICK k \in 1 .. Len(Body[f]) : Statement(t) = Body[f][k] /\ Reached(f, k)
      BY <2>1
    <2> DEFINE b == state.isActive
    <2>3. CASE PowerOn(t)
      <3>1. Statement(t) = "PowerOn" /\ output' = [output EXCEPT !.power = TRUE]
        BY <1>0, <2>3, HardwareIs DEF PowerOn, Switch, Does
      <3>2. Settled
        <4>1. f = "StartMeasurements" /\ k = 3
          BY <2>2, <3>1, OutputAt
        <4>2. InStart(3)
          BY <2>2, <4>1 DEF Reached
        <4> QED BY <4>2 DEF InStart
      <3>3. CASE AllOff
        <4>1. /\ output = [power |-> FALSE, generator |-> FALSE, relay |-> FALSE]
              /\ output' = [power |-> TRUE, generator |-> FALSE, relay |-> FALSE]
          BY <3>1, <3>3 DEF AllOff
        <4> QED BY <4>1, StageIs, StageWillBe DEF Output!Next, Output!PowerUp, Output!Goes
      <3>4. CASE AllOn
        <4>1. output' = output
          BY <1>0, <3>1, <3>4 DEF AllOn
        <4> QED BY <4>1 DEF Stage
      <3> QED BY <3>2, <3>3, <3>4 DEF Settled
    <2>4. CASE AdcAndGeneratorOn(t)
      <3>1. Statement(t) = "AdcAndGeneratorOn" /\ output' = [output EXCEPT !.generator = TRUE]
        BY <1>0, <2>4, HardwareIs DEF AdcAndGeneratorOn, Does
      <3>2. InStart(5)
        <4>1. f = "StartMeasurements" /\ k = 5
          BY <2>2, <3>1, OutputAt
        <4> QED BY <2>2, <4>1 DEF Reached
      <3>3. output = [power |-> TRUE, generator |-> b, relay |-> b]
        BY <3>2 DEF InStart
      <3>4. output' = [power |-> TRUE, generator |-> TRUE, relay |-> b]
        BY <3>1, <3>3
      <3>5. CASE b = TRUE
        BY <3>3, <3>4, <3>5 DEF Stage
      <3>6. CASE b = FALSE
        <4>1. Stage = "powered" /\ Stage' = "driven"
          BY <3>3, <3>4, <3>6, StageIs, StageWillBe
        <4> QED BY <4>1 DEF Output!Next, Output!Drive, Output!Goes
      <3> QED BY <1>0, <3>5, <3>6
    <2>5. CASE RelayOn(t)
      <3>1. Statement(t) = "RelayOn" /\ output' = [output EXCEPT !.relay = TRUE]
        BY <1>0, <2>5, HardwareIs DEF RelayOn, Switch, Does
      <3>2. InStart(6)
        <4>1. f = "StartMeasurements" /\ k = 6
          BY <2>2, <3>1, OutputAt
        <4> QED BY <2>2, <4>1 DEF Reached
      <3>3. output = [power |-> TRUE, generator |-> TRUE, relay |-> b]
        BY <3>2 DEF InStart
      <3>4. output' = [power |-> TRUE, generator |-> TRUE, relay |-> TRUE]
        BY <3>1, <3>3
      <3>5. CASE b = TRUE
        BY <3>3, <3>4, <3>5 DEF Stage
      <3>6. CASE b = FALSE
        <4>1. Stage = "driven" /\ Stage' = "connected"
          BY <3>3, <3>4, <3>6, StageIs, StageWillBe
        <4> QED BY <4>1 DEF Output!Next, Output!Connect, Output!Goes
      <3> QED BY <1>0, <3>5, <3>6
    <2>6. CASE RelayOff(t)
      <3>1. Statement(t) = "RelayOff" /\ output' = [output EXCEPT !.relay = FALSE]
        BY <1>0, <2>6, HardwareIs DEF RelayOff, Switch, Does
      <3>2. InStop(5)
        <4>1. f = "StopMeasurements" /\ k = 5
          BY <2>2, <3>1, OutputAt
        <4> QED BY <2>2, <4>1 DEF Reached
      <3>3. output = [power |-> b, generator |-> b, relay |-> b]
        BY <3>2 DEF InStop
      <3>4. output' = [power |-> b, generator |-> b, relay |-> FALSE]
        BY <3>1, <3>3
      <3>5. CASE b = FALSE
        BY <3>3, <3>4, <3>5 DEF Stage
      <3>6. CASE b = TRUE
        <4>1. Stage = "connected" /\ Stage' = "driven"
          BY <3>3, <3>4, <3>6, StageIs, StageWillBe
        <4> QED BY <4>1 DEF Output!Next, Output!Disconnect, Output!Goes
      <3> QED BY <1>0, <3>5, <3>6
    <2>7. CASE PowerOff(t)
      <3>1. Statement(t) = "PowerOff" /\ output' = [output EXCEPT !.power = FALSE]
        BY <1>0, <2>7, HardwareIs DEF PowerOff, Switch, Does
      <3>2. InStop(6)
        <4>1. f = "StopMeasurements" /\ k = 6
          BY <2>2, <3>1, OutputAt
        <4> QED BY <2>2, <4>1 DEF Reached
      <3>3. output = [power |-> b, generator |-> b, relay |-> FALSE]
        BY <3>2 DEF InStop
      <3>4. output' = [power |-> FALSE, generator |-> b, relay |-> FALSE]
        BY <3>1, <3>3
      <3>5. CASE b = FALSE
        BY <3>3, <3>4, <3>5 DEF Stage
      <3>6. CASE b = TRUE
        <4>1. Stage = "driven" /\ Stage' = "draining"
          BY <3>3, <3>4, <3>6, StageIs, StageWillBe
        <4> QED BY <4>1 DEF Output!Next, Output!PowerDown, Output!Goes
      <3> QED BY <1>0, <3>5, <3>6
    <2>8. CASE GeneratorOff(t)
      <3>1. Statement(t) = "GeneratorOff" /\ output' = [output EXCEPT !.generator = FALSE]
        BY <1>0, <2>8, HardwareIs DEF GeneratorOff, Switch, Does
      <3>2. InStop(7)
        <4>1. f = "StopMeasurements" /\ k = 7
          BY <2>2, <3>1, OutputAt
        <4> QED BY <2>2, <4>1 DEF Reached
      <3>3. output = [power |-> FALSE, generator |-> b, relay |-> FALSE]
        BY <3>2 DEF InStop
      <3>4. output' = [power |-> FALSE, generator |-> FALSE, relay |-> FALSE]
        BY <3>1, <3>3
      <3>5. CASE b = FALSE
        BY <3>3, <3>4, <3>5 DEF Stage
      <3>6. CASE b = TRUE
        <4>1. Stage = "draining" /\ Stage' = "off"
          BY <3>3, <3>4, <3>6, StageIs, StageWillBe
        <4> QED BY <4>1 DEF Output!Next, Output!Silence, Output!Goes
      <3> QED BY <1>0, <3>5, <3>6
    <2>9. CASE output' = output
      BY <2>9 DEF Stage
    <2> QED BY <2>3, <2>4, <2>5, <2>6, <2>7, <2>8, <2>9, OutputKept
  <1> QED BY <1>1, <1>2

\* The safety half of OutputIsStaged: the three parts of the output are only ever
\* switched in the order of OutputStage.
THEOREM OutputSwitchedInOrder ==
  ASSUME KeysWhileCalibrating = {}
  PROVE  Spec => Output!Init /\ [][Output!Next]_Stage
  <1>1. Init => Output!Init
    BY StageIs DEF Init, Output!Init
  <1>2. OutputInv /\ [Next]_vars => [Output!Next]_Stage
    <2> SUFFICES ASSUME OutputInv, [Next]_vars PROVE [Output!Next]_Stage
      OBVIOUS
    <2>1. CASE \E t \in Tasks : Step(t)
      BY <2>1, SwitchesAreStages
    <2>2. CASE \A t \in Tasks : ~Step(t)
      <3>1. output' = output
        BY <2>2, QuietSteps DEF Next, SameOutput
      <3> QED BY <3>1 DEF Stage
    <2> QED BY <2>1, <2>2
  <1> QED BY <1>1, <1>2, AlwaysOutput, PTL DEF Spec
=============================================================================
