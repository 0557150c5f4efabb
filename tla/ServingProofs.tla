------------------------------ MODULE ServingProofs ------------------------------
(***************************************************************************)
(* What holds of the driver's calls as a whole, for any levels, keys and   *)
(* depth of calls, if no key acts during a calibration: how deep they      *)
(* nest, that the ADC serves the active sensor whenever the output is      *)
(* connected, that only gain keys leave its level and amplification apart, *)
(* and that what is stored for a sensor was read from it.                  *)
(***************************************************************************)
EXTENDS InterlockProofs

\* What one step of a task does to its frames, from the innermost to the outermost.

\* The statement was no call, or a call whose condition is false.
WentOn(t) ==
  /\ ~(Statement(t) \in DOMAIN Callee /\ Made(Statement(t), Running(t)))
  /\ Statement(t) \notin {"Return", "Loop"}
  /\ Onward(t, stack'[t][1])
  /\ Len(stack'[t]) = Len(stack[t])
  /\ \A i \in 2 .. Len(stack[t]) : stack'[t][i] = stack[t][i]

WentInto(t) ==
  /\ Statement(t) \in DOMAIN Callee /\ Made(Statement(t), Running(t)) /\ Call(t)
  /\ stack'[t][1] = Frame(Callee[Statement(t)], Argument(Statement(t), Running(t)))
  /\ Onward(t, stack'[t][2])
  /\ Statement(t) = "StartIfWasActive" => stack'[t][2].wasActive = Running(t).wasActive
  /\ Len(stack'[t]) = Len(stack[t]) + 1
  /\ \A i \in 3 .. Len(stack'[t]) : stack'[t][i] = stack[t][i - 1]

WentBack(t) ==
  /\ Running(t).pc = Len(Body[Running(t).function]) /\ Statement(t) = "Return" /\ Return(t)
  /\ Len(stack'[t]) = Len(stack[t]) - 1
  /\ \A i \in 1 .. Len(stack'[t]) : stack'[t][i] = stack[t][i + 1]

\* The calibration's loop over the levels, or its endless one.
WentRound(t) ==
  /\ Running(t).function = "CalibrationTask" /\ Len(stack[t]) = 1 /\ Len(stack'[t]) = 1
  /\ stack'[t][1].function = "CalibrationTask"
  /\ \/ Running(t).pc = 17 /\ stack'[t][1].pc = 12 /\ stack'[t][1].sensor = Running(t).sensor
     \/ Running(t).pc = 20 /\ stack'[t][1].pc = 1 /\ stack'[t][1].sensor = "Voltage"

LEMMA FramesOfStep ==
  ASSUME DriverTypes, NEW t \in Tasks, Step(t)
  PROVE  /\ stack[t] # <<>> /\ Running(t) = stack[t][1] /\ Len(stack[t]) \in Nat \ {0}
         /\ WentOn(t) \/ WentInto(t) \/ WentBack(t) \/ WentRound(t)
  <1> DEFINE calls == stack[t]
             new == stack'[t]
  <1>0. StackInv /\ DataOK /\ stack \in [Tasks -> Seq(Frames)] /\ stack[t] # <<>> /\ Moves(t)
    BY OtherStack DEF DriverTypes, StackInv
  <1>1. /\ WellFormed(calls) /\ calls # <<>> /\ calls \in Seq(Frames)
        /\ Running(t) = Head(calls) /\ Running(t) = calls[1] /\ Len(calls) \in Nat \ {0}
    BY <1>0, TopIsFirst DEF StackInv, Running
  <1>2. CASE Goes(t)
    <2>1. PICK h \in Frames : Onward(t, h) /\ stack' = [stack EXCEPT ![t] = GoneOn(@, h)]
      BY <1>2 DEF Goes
    <2>2. new = GoneOn(calls, h)
      BY <1>0, <2>1
    <2>3. h.function = Head(calls).function /\ h.pc <= Len(Body[h.function])
      BY <1>1, <2>1 DEF Onward
    <2> HIDE DEF calls, new
    <2>4. /\ WellFormed(new) /\ new # <<>> /\ Head(new) = h /\ Len(new) = Len(calls)
          /\ \A j \in 2 .. Len(calls) : new[j] = calls[j]
      BY <1>1, <2>2, <2>3, TopReplaced
    <2>5. new[1] = h
      BY <2>4, TopOf
    <2>6. Running(t).pc + 1 <= Len(Body[Running(t).function])
      BY <2>1 DEF Onward
    <2>7. Statement(t) \notin {"Return", "Loop"}
      <3> DEFINE n == Len(Body[Running(t).function])
                 k == Running(t).pc
      <3>1. /\ Running(t).function \in Functions /\ k \in 1 .. n
            /\ Statement(t) = Body[Running(t).function][k]
        BY <1>0, TopOfTask
      <3>2. Statement(t) \in {"Return", "Loop"} <=> k = n
        BY <3>1, BodyShape
      <3>3. n \in Int /\ k + 1 <= n
        BY <2>6, <3>1, BodyShape
      <3> HIDE DEF n, k
      <3>4. k # n
        BY <3>1, <3>3
      <3> QED BY <3>2, <3>4
    <2>8. ~(Statement(t) \in DOMAIN Callee /\ Made(Statement(t), Running(t)))
      <3> SUFFICES ASSUME Statement(t) \in DOMAIN Callee, Made(Statement(t), Running(t)) PROVE FALSE
        OBVIOUS
      <3>1. Call(t)
        BY StatementOfStep
      <3>2. Calls(t)
        BY <1>0, <3>1, CallMoves, StateTyped
      <3>3. Head(new).pc = 1
        BY <1>0, <3>2, CallsTop DEF new
      <3>4. Running(t).pc + 1 = 1 /\ Running(t).pc \in 1 .. 20
        BY <1>0, <2>1, <2>4, <3>3, TopOfTask DEF Onward
      <3> QED BY <3>4
    <2> QED BY <1>0, <1>1, <2>1, <2>4, <2>5, <2>7, <2>8 DEF WentOn, calls, new
  <1>3. CASE Calls(t)
    <2>1. PICK h \in Frames, g \in Frames :
            /\ Onward(t, h) /\ Statement(t) \in DOMAIN Callee /\ Made(Statement(t), Running(t))
            /\ Statement(t) = "StartIfWasActive" => h.wasActive = Running(t).wasActive
            /\ g = Frame(Callee[Statement(t)], Argument(Statement(t), Running(t)))
            /\ g.pc = 1 /\ WaitsFor(h, g.function)
            /\ stack' = [stack EXCEPT ![t] = Called(@, g, h)]
      BY <1>3 DEF Calls, Frame
    <2>2. new = Called(calls, g, h)
      BY <1>0, <2>1
    <2>3. h.function = Head(calls).function /\ h.pc <= Len(Body[h.function])
      BY <1>1, <2>1 DEF Onward
    <2>4. Call(t)
      BY <2>1, StatementOfStep
    <2> HIDE DEF calls, new
    <2>5. /\ WellFormed(new) /\ new # <<>> /\ Head(new) = g /\ Len(new) = Len(calls) + 1
          /\ new[2] = h /\ \A j \in 2 .. Len(calls) : new[j + 1] = calls[j]
      BY <1>1, <2>1, <2>2, <2>3, TopCalls
    <2>6. new[1] = g
      BY <2>5, TopOf
    <2>7. ASSUME NEW i \in 3 .. Len(new) PROVE new[i] = calls[i - 1]
      <3>1. i - 1 \in 2 .. Len(calls) /\ (i - 1) + 1 = i
        BY <1>1, <2>5
      <3> QED BY <2>5, <3>1
    <2> QED BY <1>0, <1>1, <2>1, <2>4, <2>5, <2>6, <2>7 DEF WentInto, calls, new
  <1>4. CASE Returns(t)
    <2>1. new = Tail(calls) /\ Running(t).pc = Len(Body[Running(t).function]) /\ Statement(t) = "Return"
      BY <1>0, <1>4 DEF Returns
    <2>2. Return(t)
      BY <2>1, StatementOfStep
    <2> HIDE DEF calls, new
    <2>3. Len(new) = Len(calls) - 1 /\ \A j \in 1 .. Len(new) : new[j] = calls[j + 1]
      BY <1>1, <2>1, TopReturns
    <2> QED BY <1>0, <1>1, <2>1, <2>2, <2>3 DEF WentBack, calls, new
  <1>5. CASE Loops(t)
    <2>1. new = <<Frame("CalibrationTask", "Voltage")>> /\ Running(t).function = "CalibrationTask"
          /\ Running(t).pc = 20
      BY <1>0, <1>5 DEF Loops
    <2>2. Len(calls) = 1
      BY <1>1, <2>1, NotCalled
    <2> HIDE DEF calls, new
    <2>3. /\ Len(new) = 1 /\ new[1].pc = 1 /\ new[1].function = "CalibrationTask"
          /\ new[1].sensor = "Voltage"
      BY <2>1, TopAlone, FunctionsAre DEF Frame
    <2> QED BY <1>0, <1>1, <2>1, <2>2, <2>3 DEF WentRound, calls, new
  <1>6. CASE GoesBack(t)
    <2>1. PICK h \in Frames :
            /\ Running(t).function = "CalibrationTask" /\ h.function = "CalibrationTask"
            /\ Running(t).pc = 17 /\ h.pc = 12 /\ h.sensor = Running(t).sensor
            /\ stack' = [stack EXCEPT ![t] = GoneOn(@, h)]
      BY <1>6 DEF GoesBack
    <2>2. new = GoneOn(calls, h) /\ Len(calls) = 1
      BY <1>0, <1>1, <2>1, NotCalled
    <2>3. h.function = Head(calls).function /\ h.pc <= Len(Body[h.function])
      BY <1>1, <2>1 DEF Body, CalibrationTask
    <2> HIDE DEF calls, new
    <2>4. WellFormed(new) /\ new # <<>> /\ Head(new) = h /\ Len(new) = Len(calls)
      BY <1>1, <2>2, <2>3, TopReplaced
    <2>5. new[1] = h
      BY <2>4, TopOf
    <2> QED BY <1>0, <1>1, <2>1, <2>2, <2>4, <2>5 DEF WentRound, calls, new
  <1> QED BY <1>0, <1>1, <1>2, <1>3, <1>4, <1>5, <1>6 DEF Moves

-----------------------------------------------------------------------------
\* The statements that call.
CallsAt(f, p, s) ==
  \/ f = "StartMeasurements" /\ \/ p = 1 /\ s = "FirstStart"
                                \/ p = 2 /\ s = "Reactivate"
  \/ f = "FirstStart" /\ p = 1 /\ s = "ActivateVoltage"
  \/ f = "SetAndActivateSensor" /\ \/ p = 2 /\ s = "StopIfActive"
                                   \/ p = 6 /\ s = "StartIfWasActive"
  \/ f = "StartNormalModeOperation" /\ \/ p = 2 /\ s = "ActivateVoltage"
                                       \/ p = 4 /\ s = "Start"
  \/ f = "StartCalibration" /\ p = 2 /\ s = "ActivateVoltage"
  \/ f = "Stop" /\ p = 2 /\ s = "StopAll"
  \/ f = "SwitchToNextSensor" /\ \/ p = 1 /\ s = "StopAll"
                                 \/ p = 2 /\ s = "ActivateNext"
                                 \/ p = 3 /\ s = "Start"
  \/ f = "CalibrationTask" /\ \/ p = 1 /\ s = "ActivateVoltage"
                              \/ p = 3 /\ s = "Start"
                              \/ p = 8 /\ s = "StopAll"
                              \/ p = 12 /\ s = "CheckVout"
                              \/ p = 13 /\ s = "CalibrateShunt"
                              \/ p = 15 /\ s = "CalibrateClamp"
                              \/ p = 19 /\ s = "StopDriver"
  \/ f = "RequestResistorChangeAndCheckVout" /\ \/ p = 4 /\ s = "ActivateVoltage"
                                                \/ p = 5 /\ s = "Start"
                                                \/ p = 8 /\ s = "StopAll"
  \/ f = "CalibrateSensor" /\ \/ p = 1 /\ s = "ActivateThis"
                              \/ p = 4 /\ s = "Start"
                              \/ p = 7 /\ s = "StopAll"

LEMMA CallsAre ==
  ASSUME NEW f \in Functions, NEW p \in 1 .. Len(Body[f]), Body[f][p] \in DOMAIN Callee
  PROVE  CallsAt(f, p, Body[f][p])
  <1>1. CASE f = "StartMeasurements"
    BY <1>1 DEF Body, StartMeasurements, Callee, CallsAt
  <1>2. CASE f = "FirstStart"
    BY <1>2 DEF Body, FirstStart, Callee, CallsAt
  <1>3. CASE f = "StopMeasurements"
    BY <1>3 DEF Body, StopMeasurements, Callee, CallsAt
  <1>4. CASE f = "SetAndActivateSensor"
    BY <1>4 DEF Body, SetAndActivateSensor, Callee, CallsAt
  <1>5. CASE f = "StartNormalModeOperation"
    BY <1>5 DEF Body, StartNormalModeOperation, Callee, CallsAt
  <1>6. CASE f = "StartCalibration"
    BY <1>6 DEF Body, StartCalibration, Callee, CallsAt
  <1>7. CASE f = "Stop"
    BY <1>7 DEF Body, Stop, Callee, CallsAt
  <1>8. CASE f = "SwitchToNextSensor"
    BY <1>8 DEF Body, SwitchToNextSensor, Callee, CallsAt
  <1>9. CASE f \in {"DisableAGC", "IncreaseGain", "DecreaseGain"}
    <2>1. CASE f = "DisableAGC"
      BY <2>1 DEF Body, Callee, CallsAt
    <2>2. CASE f = "IncreaseGain"
      BY <2>2 DEF Body, IncreaseGain, Callee, CallsAt
    <2>3. CASE f = "DecreaseGain"
      BY <2>3 DEF Body, DecreaseGain, Callee, CallsAt
    <2> QED BY <1>9, <2>1, <2>2, <2>3
  <1>10. CASE f = "CalibrationTask"
    BY <1>10 DEF Body, CalibrationTask, Callee, CallsAt
  <1>11. CASE f = "RequestResistorChangeAndCheckVout"
    BY <1>11 DEF Body, RequestResistorChangeAndCheckVout, Callee, CallsAt
  <1>12. CASE f = "CalibrateSensor"
    BY <1>12 DEF Body, CalibrateSensor, Callee, CallsAt
  <1> QED BY FunctionsAre, <1>1, <1>2, <1>3, <1>4, <1>5, <1>6, <1>7, <1>8, <1>9, <1>10, <1>11, <1>12

LEMMA CalleeIs ==
  /\ Callee["FirstStart"] = "FirstStart"
  /\ Callee["Start"] = "StartMeasurements" /\ Callee["StartIfWasActive"] = "StartMeasurements"
  /\ Callee["StopAll"] = "StopMeasurements" /\ Callee["StopIfActive"] = "StopMeasurements"
  /\ Callee["ActivateVoltage"] = "SetAndActivateSensor"
  /\ Callee["ActivateNext"] = "SetAndActivateSensor"
  /\ Callee["ActivateThis"] = "SetAndActivateSensor"
  /\ Callee["Reactivate"] = "SetAndActivateSensor"
  /\ Callee["CheckVout"] = "RequestResistorChangeAndCheckVout"
  /\ Callee["CalibrateShunt"] = "CalibrateSensor" /\ Callee["CalibrateClamp"] = "CalibrateSensor"
  /\ Callee["StopDriver"] = "Stop"
  BY DEF Callee

\* The call each waiting frame is in.
LEMMA WaitingIn ==
  ASSUME StackInv, NEW t \in Tasks, NEW i \in 2 .. Len(stack[t])
  PROVE  LET h == stack[t][i]
             s == Body[h.function][h.pc - 1]
         IN  /\ h \in Frames /\ h.pc - 1 \in 1 .. 19 /\ stack[t][i - 1] \in Frames
             /\ s \in DOMAIN Callee /\ CallsAt(h.function, h.pc - 1, s)
             /\ stack[t][i - 1].function = Callee[s]
  <1> DEFINE calls == stack[t]
             h == calls[i]
             q == h.pc - 1
  <1>1. WellFormed(calls) /\ calls \in Seq(Frames)
    BY DEF StackInv
  <1>2. h \in Frames /\ calls[i - 1] \in Frames /\ WaitsFor(h, calls[i - 1].function)
        /\ h.pc <= Len(Body[h.function])
    <2>1. Len(calls) \in Nat /\ i \in 1 .. Len(calls) /\ i - 1 \in 1 .. Len(calls)
      <3> HIDE DEF calls
      <3>1. Len(calls) \in Nat /\ i \in 2 .. Len(calls)
        BY <1>1 DEF calls
      <3> QED BY <3>1
    <2> HIDE DEF calls
    <2> QED BY <1>1, <2>1 DEF WellFormed, calls
  <1> HIDE DEF calls
  <1>3. h.function \in Functions /\ h.pc \in 1 .. 20 /\ h.pc > 1
    BY <1>2, FrameTyped DEF WaitsFor
  <1>4. q \in 1 .. 19 /\ q \in 1 .. Len(Body[h.function])
    <2> DEFINE n == Len(Body[h.function])
               k == h.pc
    <2>1. n \in Int /\ k \in 2 .. 20 /\ k <= n
      BY <1>2, <1>3, BodyShape
    <2> HIDE DEF n, k
    <2>2. k - 1 \in 1 .. 19 /\ k - 1 \in 1 .. n
      BY <2>1
    <2> QED BY <2>2 DEF n, k
  <1>5. Body[h.function][q] \in DOMAIN Callee /\ calls[i - 1].function = Callee[Body[h.function][q]]
    BY <1>2 DEF WaitsFor
  <1> HIDE DEF q, h
  <1>6. CallsAt(h.function, q, Body[h.function][q])
    BY <1>3, <1>4, <1>5, CallsAre
  <1> QED BY <1>2, <1>4, <1>5, <1>6 DEF h, q, calls

\* The call the running frame makes.
LEMMA RunningCalls ==
  ASSUME StackInv, NEW t \in Tasks, stack[t] # <<>>, Statement(t) \in DOMAIN Callee
  PROVE  CallsAt(Running(t).function, Running(t).pc, Statement(t))
  BY TopOfTask, CallsAre

\* The task that is not at work.
LEMMA OtherFrames ==
  ASSUME OutputInv, NEW t \in Tasks, t # Actor, NEW i \in 1 .. Len(stack[t])
  PROVE  \/ i = 1 /\ stack[t][i].function = "StartCalibration" /\ stack[t][i].pc = 5
         \/ i = 1 /\ stack[t][i].function = "CalibrationTask" /\ stack[t][i].pc = 1
         \/ i = 1 /\ stack[t][i].function = "Stop" /\ stack[t][i].pc = 2
         \/ i = 2 /\ stack[t][i].function = "CalibrationTask" /\ stack[t][i].pc = 20
  <1> DEFINE calls == stack[t]
             n == Len(calls)
  <1>0. StackInv /\ KeyboardAlone /\ Parked /\ WellFormed(calls) /\ calls \in Seq(Frames)
    BY OutputParts DEF StackInv
  <1>1. n \in Nat /\ i \in 1 .. n /\ calls # <<>>
    BY <1>0
  <1>2. Running(t) = calls[1] /\ Running(t) = Head(calls)
    BY <1>0, <1>1, TopIsFirst DEF Running
  <1>3. CASE t = "keyboard"
    <2>1. n = 1 /\ At(t, "StartCalibration", 5)
      BY <1>0, <1>1, <1>3 DEF Actor, KeyboardAlone, Parked
    <2> HIDE DEF n
    <2>2. i = 1
      BY <1>1, <2>1
    <2> QED BY <1>2, <2>1, <2>2 DEF At
  <1>4. CASE t = "calibration"
    <2>1. At(t, "CalibrationTask", 1) \/ At(t, "Stop", 2)
      BY <1>0, <1>4 DEF Actor, Parked
    <2>2. CASE At(t, "CalibrationTask", 1)
      <3>1. n = 1
        BY <1>0, <1>1, <1>2, <2>2, NotCalled DEF At
      <3> HIDE DEF n
      <3>2. i = 1
        BY <1>1, <3>1
      <3> QED BY <1>2, <2>2, <3>2 DEF At
    <2>3. CASE At(t, "Stop", 2)
      <3>1. calls[n].function = "CalibrationTask"
        BY <1>0, <1>4 DEF StackInv, Bottom
      <3>2. calls[1].function = "Stop" /\ calls[1].pc = 2
        BY <1>2, <2>3 DEF At
      <3>3. n >= 2
        <4> HIDE DEF n, calls
        <4>1. n # 1
          BY <3>1, <3>2
        <4> QED BY <1>1, <4>1
      <3>4. 2 \in 2 .. n
        <4> HIDE DEF n
        <4> QED BY <1>1, <3>3
      <3>5. calls[2].function = "CalibrationTask" /\ calls[2].pc = 20
        <4> DEFINE h == calls[2]
                   q == h.pc - 1
        <4>1. /\ h \in Frames /\ CallsAt(h.function, q, Body[h.function][q])
              /\ Body[h.function][q] \in DOMAIN Callee
              /\ calls[2 - 1].function = Callee[Body[h.function][q]]
          BY <1>0, <3>4, WaitingIn
        <4>2. h.function = "CalibrationTask" /\ q = 19
          <5> DEFINE s == Body[h.function][q]
          <5>1. Callee[s] = "Stop" /\ CallsAt(h.function, q, s)
            BY <3>2, <4>1
          <5> HIDE DEF h, q, s
          <5> QED BY <5>1, CalleeIs DEF CallsAt
        <4>3. h.pc \in 1 .. 20
          BY <4>1, FrameTyped
        <4> QED BY <4>2, <4>3
      <3>6. n = 2
        <4> DEFINE new == Tail(calls)
        <4>1. /\ WellFormed(new) /\ Len(new) = n - 1
              /\ new # <<>> => Head(new) = calls[2]
          BY <1>0, <1>1, TopReturns
        <4>2. new # <<>>
          <5> HIDE DEF new, n
          <5>1. Len(new) # 0
            BY <1>1, <3>3, <4>1
          <5> QED BY <5>1
        <4>3. Len(new) = 1
          BY <3>5, <4>1, <4>2, NotCalled
        <4>4. n - 1 = 1 /\ n \in Nat
          BY <1>1, <4>1, <4>3, Zenon
        <4> HIDE DEF n
        <4> QED BY <4>4
      <3> HIDE DEF n
      <3>7. i = 1 \/ i = 2
        BY <1>1, <3>6
      <3> QED BY <3>2, <3>5, <3>7
    <2> QED BY <2>1, <2>2, <2>3
  <1> QED BY <1>3, <1>4 DEF Tasks

-----------------------------------------------------------------------------
\* What the frames rely on, by the statement each is executing.

\* The statement a frame is at, or is waiting in.
InProgress(t, i) == IF i = 1 THEN stack[t][i].pc ELSE stack[t][i].pc - 1

\* The i-th frame after the step is the j-th before it.
SameFrame(t, i, j) ==
  stack'[t][i].function = stack[t][j].function /\ stack'[t][i].sensor = stack[t][j].sensor

LEMMA FrameAfter ==
  ASSUME DriverTypes, NEW t \in Tasks, Step(t), NEW i \in 1 .. Len(stack'[t])
  PROVE  \/ \E j \in 1 .. Len(stack[t]) :
              SameFrame(t, i, j) /\ InProgress(t, i)' = InProgress(t, j)
         \/ i = 1 /\ WentOn(t) /\ SameFrame(t, 1, 1) /\ InProgress(t, 1)' = InProgress(t, 1) + 1
         \/ /\ i = 1 /\ WentBack(t) /\ 2 \in 2 .. Len(stack[t]) /\ SameFrame(t, 1, 2)
            /\ InProgress(t, 1)' = InProgress(t, 2) + 1
         \/ i = 1 /\ WentInto(t)
         \/ i = 1 /\ WentRound(t)
  <1> DEFINE n == Len(stack[t])
             m == Len(stack'[t])
  <1>0. /\ stack[t] # <<>> /\ Running(t) = stack[t][1] /\ n \in Nat \ {0}
        /\ WentOn(t) \/ WentInto(t) \/ WentBack(t) \/ WentRound(t)
    BY FramesOfStep
  <1>a. StackInv
    BY DEF DriverTypes
  <1>b. Running(t).pc \in 1 .. 20
    BY <1>0, <1>a, TopOfTask
  <1>1. CASE WentOn(t)
    <2>1. m = n /\ Onward(t, stack'[t][1]) /\ \A j \in 2 .. n : stack'[t][j] = stack[t][j]
      BY <1>1 DEF WentOn
    <2>2. CASE i = 1
      BY <1>0, <1>1, <2>1, <2>2 DEF Onward, SameFrame, InProgress
    <2>3. CASE i # 1
      <3> HIDE DEF n, m
      <3>1. i \in 1 .. m
        BY DEF m
      <3>2. i \in 2 .. n /\ i \in 1 .. n
        BY <1>0, <2>1, <2>3, <3>1
      <3>3. stack'[t][i] = stack[t][i]
        BY <2>1, <3>2
      <3> QED BY <2>3, <3>2, <3>3 DEF SameFrame, InProgress, n
    <2> QED BY <2>2, <2>3
  <1>2. CASE WentInto(t)
    <2>1. m = n + 1 /\ Onward(t, stack'[t][2]) /\ \A j \in 3 .. m : stack'[t][j] = stack[t][j - 1]
      BY <1>2 DEF WentInto
    <2>2. CASE i = 2
      <3>1. 1 \in 1 .. n
        <4> HIDE DEF n
        <4> QED BY <1>0
      <3>2. SameFrame(t, 2, 1) /\ stack'[t][2].pc = Running(t).pc + 1
        BY <1>0, <2>1 DEF Onward, SameFrame
      <3>3. stack'[t][2].pc - 1 = Running(t).pc
        <4> DEFINE k == Running(t).pc
                   l == stack'[t][2].pc
        <4>1. k \in 1 .. 20 /\ l = k + 1
          BY <1>b, <3>2
        <4> HIDE DEF k, l
        <4>2. l - 1 = k
          BY <4>1
        <4> QED BY <4>2 DEF k, l
      <3>4. InProgress(t, 2)' = InProgress(t, 1)
        BY <1>0, <3>3 DEF InProgress
      <3> QED BY <2>2, <3>1, <3>2, <3>4
    <2>3. CASE i # 1 /\ i # 2
      <3> HIDE DEF n, m
      <3>1. i \in 1 .. m
        BY DEF m
      <3>2. i \in 3 .. m /\ i - 1 \in 1 .. n /\ i - 1 # 1
        BY <1>0, <2>1, <2>3, <3>1
      <3>3. stack'[t][i] = stack[t][i - 1]
        BY <2>1, <3>2
      <3> QED BY <2>3, <3>2, <3>3 DEF SameFrame, InProgress, n
    <2> QED BY <1>2, <2>2, <2>3
  <1>3. CASE WentBack(t)
    <2>1. m = n - 1 /\ \A j \in 1 .. m : stack'[t][j] = stack[t][j + 1]
      BY <1>3 DEF WentBack
    <2>2. i \in 1 .. m /\ stack'[t][i] = stack[t][i + 1] /\ i + 1 \in 2 .. n /\ i + 1 # 1
          /\ i + 1 \in 1 .. n
      <3>1. i \in 1 .. m
        OBVIOUS
      <3> HIDE DEF n, m
      <3> QED BY <1>0, <2>1, <3>1
    <2>3. CASE i = 1
      <3>1. stack'[t][1] = stack[t][2] /\ 2 \in 2 .. n
        BY <2>2, <2>3
      <3>2. stack[t][2].pc \in 1 .. 20
        BY <1>a, <3>1, WaitingIn, FrameTyped
      <3>3. stack[t][2].pc = stack[t][2].pc - 1 + 1
        <4> DEFINE k == stack[t][2].pc
        <4>1. k \in 1 .. 20
          BY <3>2
        <4> HIDE DEF k
        <4>2. k = k - 1 + 1
          BY <4>1
        <4> QED BY <4>2 DEF k
      <3>4. SameFrame(t, 1, 2) /\ InProgress(t, 1)' = InProgress(t, 2) + 1
        BY <3>1, <3>3 DEF SameFrame, InProgress
      <3> QED BY <1>3, <2>3, <3>1, <3>4
    <2>4. CASE i # 1
      BY <2>2, <2>4 DEF SameFrame, InProgress
    <2> QED BY <2>3, <2>4
  <1>4. CASE WentRound(t)
    <2>1. m = 1
      BY <1>4 DEF WentRound
    <2>2. i = 1
      <3>1. i \in 1 .. m
        OBVIOUS
      <3> HIDE DEF m
      <3> QED BY <2>1, <3>1
    <2> QED BY <1>4, <2>2
  <1> QED BY <1>0, <1>1, <1>2, <1>3, <1>4

\* Only StartMeasurements, at its end, sets isActive.
LEMMA ActiveAfter ==
  ASSUME DriverTypes, NEW t \in Tasks, Step(t)
  PROVE  /\ state'.isActive => state.isActive \/ At(t, "StartMeasurements", 7)
         /\ Statement(t) \in DOMAIN Callee \cup {"Return"} => state' = state
  <1>0. /\ StackInv /\ DataOK /\ stack[t] # <<>>
    BY OtherStack DEF DriverTypes
  <1>1. CASE SetActive(t)
    <2>1. Statement(t) = "SetActive"
      BY <1>1 DEF SetActive, Assign, Does
    <2>2. At(t, "StartMeasurements", 7)
      BY <1>0, <2>1, TopOfTask, OnlyAt DEF At
    <2> QED BY <2>1, <2>2 DEF Callee
  <1>2. CASE ~SetActive(t)
    <2>1. state'.isActive => state.isActive
      BY <1>0, <1>2, StateKept, FieldsAre
    <2>2. CASE Statement(t) \in DOMAIN Callee
      BY <2>1, <2>2, StatementOfStep DEF Call
    <2>3. CASE Statement(t) = "Return"
      BY <2>1, <2>3, StatementOfStep DEF Return
    <2> QED BY <2>1, <2>2, <2>3
  <1> QED BY <1>1, <1>2

\* The first start is over in what the calibration does after its first Start.
Later(f, p) ==
  \/ f \in {"RequestResistorChangeAndCheckVout", "CalibrateSensor"}
  \/ f = "CalibrationTask" /\ p >= 4

FirstDone ==
  \A t \in Tasks : \A i \in 1 .. Len(stack[t]) :
    Later(stack[t][i].function, InProgress(t, i)) => ~state.firstStart

\* Calls by which a task starts from nothing: the nested start of a sensor change
\* that stopped the measurement, and what the calibration does between two stops.
Fresh(f, p) ==
  \/ f = "SetAndActivateSensor" /\ p = 7
  \/ f = "RequestResistorChangeAndCheckVout" /\ p \in {5, 6}
  \/ f = "CalibrateSensor" /\ p \in {2, 5}

\* Where the calibration knows the output to be off.
Rests(f, p) ==
  \/ f = "CalibrationTask" /\ p \in 9 .. 18
  \/ f = "RequestResistorChangeAndCheckVout" /\ p \in (1 .. 5) \cup {9}
  \/ f = "CalibrateSensor" /\ p \in (1 .. 4) \cup (8 .. 10)

Resting ==
  \A t \in Tasks : stack[t] # <<>> /\ Rests(stack[t][1].function, stack[t][1].pc) => ~state.isActive

\* Such a call nests no deeper than the change of sensor in its StartMeasurements,
\* which finds nothing to stop and so nothing to start again.
NestedStarts ==
  \A t \in Tasks : \A i \in 2 .. Len(stack[t]) :
    Fresh(stack[t][i].function, stack[t][i].pc) =>
      /\ i <= 3
      /\ stack[t][i].function = "SetAndActivateSensor" => stack[t][i].wasActive
      /\ i = 3 => stack[t][1].function = "SetAndActivateSensor"
      /\ stack[t][1].function = "SetAndActivateSensor" => ~stack[t][1].wasActive
      /\ \/ ~state.isActive
         \/ stack[t][1].function = "StartMeasurements" /\ stack[t][1].pc = 8

NestingInv == OutputInv /\ FirstDone /\ Resting /\ NestedStarts

\* The task whose frames change is at work.
LEMMA ActorSteps ==
  ASSUME OutputInv, NEW t \in Tasks, Step(t), NEW i \in 1 .. Len(stack'[t])
  PROVE  /\ t = Actor /\ stack[t] # <<>>
         /\ \A f \in Functions : \A p \in 1 .. Len(Body[f]) : At(t, f, p) => Reached(f, p)
         /\ \A f \in Functions : \A p \in 1 .. Len(Body[f]) : At(t, f, p)' => Reached(f, p)'
  <1>0. DriverTypes /\ ActorReached
    BY OutputParts
  <1>1. t = Actor
    <2> SUFFICES ASSUME t # Actor PROVE FALSE
      OBVIOUS
    <2>1. Return(t) /\ Len(stack[t]) = 1
      BY WhoActs
    <2>2. stack[t] # <<>> /\ stack \in [Tasks -> Seq(Frames)]
      BY <1>0, FramesOfStep DEF DriverTypes, StackInv
    <2> DEFINE calls == stack[t]
               new == stack'[t]
    <2>3. new = Tail(calls) /\ calls \in Seq(Frames) /\ Len(calls) = 1
      BY <2>1, <2>2 DEF Return
    <2> HIDE DEF calls, new
    <2>4. Len(new) = 0
      BY <2>3
    <2>5. i \in 1 .. Len(new)
      BY DEF new
    <2> QED BY <2>4, <2>5
  <1>2. stack[t] # <<>>
    BY <1>0, FramesOfStep
  <1>3. ASSUME NEW f \in Functions, NEW p \in 1 .. Len(Body[f]) PROVE p \in 1 .. 20
    <2> DEFINE n == Len(Body[f])
    <2>1. n \in 2 .. 20 /\ p \in 1 .. n
      BY BodyShape
    <2> HIDE DEF n
    <2> QED BY <2>1
  <1> QED BY <1>0, <1>1, <1>2, <1>3, ActorGoesOn DEF ActorReached

\* Who calls a function.
LEMMA CallersAre ==
  ASSUME NEW f, NEW p, NEW s, s \in DOMAIN Callee, CallsAt(f, p, s)
  PROVE  /\ Callee[s] = "RequestResistorChangeAndCheckVout" => f = "CalibrationTask" /\ p = 12
         /\ Callee[s] = "CalibrateSensor" => f = "CalibrationTask" /\ p \in {13, 15}
         /\ Callee[s] = "SetAndActivateSensor" => f # "SetAndActivateSensor"
         /\ Callee[s] = "Stop" => f = "CalibrationTask" /\ p = 19
         /\ Callee[s] = "FirstStart" => f = "StartMeasurements" /\ s = "FirstStart"
         /\ f = "StartMeasurements" => s \in {"FirstStart", "Reactivate"}
         /\ f = "FirstStart" => Callee[s] = "SetAndActivateSensor"
         /\ f = "SetAndActivateSensor" => s \in {"StopIfActive", "StartIfWasActive"}
         /\ f # "StopMeasurements"
  <1>1. s \in {"FirstStart", "Reactivate", "ActivateVoltage", "StopIfActive", "StartIfWasActive",
               "Start", "StopAll", "ActivateNext", "CheckVout", "CalibrateShunt",
               "CalibrateClamp", "StopDriver", "ActivateThis"}
    BY DEF CallsAt
  <1>2. /\ Callee[s] = "RequestResistorChangeAndCheckVout" => s = "CheckVout"
        /\ Callee[s] = "CalibrateSensor" => s \in {"CalibrateShunt", "CalibrateClamp"}
        /\ Callee[s] = "SetAndActivateSensor" =>
             s \in {"ActivateVoltage", "ActivateNext", "ActivateThis", "Reactivate"}
        /\ Callee[s] = "Stop" => s = "StopDriver"
        /\ Callee[s] = "FirstStart" => s = "FirstStart"
    BY <1>1, CalleeIs
  <1>3. f = "FirstStart" => s = "ActivateVoltage"
    BY DEF CallsAt
  <1> QED BY <1>2, <1>3, CalleeIs DEF CallsAt

\* How the first frame of a task at work got there.
LEMMA FirstDoneAfter ==
  ASSUME OutputInv, FirstDone, [Next]_vars, NEW t \in Tasks, Step(t),
         NEW i \in 1 .. Len(stack'[t]), Later(stack'[t][i].function, InProgress(t, i)')
  PROVE  ~state'.firstStart
  <1> DEFINE f == stack'[t][i].function
             q == InProgress(t, i)'
  <1>0. /\ DriverTypes /\ StackInv /\ t = Actor /\ stack[t] # <<>> /\ Running(t) = stack[t][1]
        /\ Len(stack[t]) \in Nat \ {0} /\ (state'.firstStart => state.firstStart)
    BY OutputParts, ActorSteps, FramesOfStep, FirstStartStays
  <1>1. ASSUME NEW j \in 1 .. Len(stack[t]), Later(stack[t][j].function, InProgress(t, j))
        PROVE  ~state'.firstStart
    BY <1>0, <1>1 DEF FirstDone
  <1>2. CASE \E j \in 1 .. Len(stack[t]) : SameFrame(t, i, j) /\ InProgress(t, i)' = InProgress(t, j)
    <2>1. PICK j \in 1 .. Len(stack[t]) :
            SameFrame(t, i, j) /\ InProgress(t, i)' = InProgress(t, j)
      BY <1>2
    <2>2. f = stack[t][j].function /\ q = InProgress(t, j) /\ Later(f, q)
      BY <2>1 DEF SameFrame
    <2> HIDE DEF f, q
    <2>3. Later(stack[t][j].function, InProgress(t, j))
      BY <2>2
    <2> QED BY <1>1, <2>1, <2>3
  <1>3. 1 \in 1 .. Len(stack[t]) /\ InProgress(t, 1) = Running(t).pc
    BY <1>0, TopIsFirst DEF InProgress
  <1>4. NotStarted'
    BY StaysNotStarted
  <1>5. CASE i = 1 /\ WentOn(t) /\ SameFrame(t, 1, 1) /\ InProgress(t, 1)' = InProgress(t, 1) + 1
    <2>1. f = Running(t).function /\ q = Running(t).pc + 1 /\ Running(t).pc \in 1 .. 20
      BY <1>0, <1>3, <1>5, TopOfTask DEF SameFrame
    <2>2. Running(t).function = "CalibrationTask" => Running(t).pc # 3
      <3> SUFFICES ASSUME At(t, "CalibrationTask", 3) PROVE FALSE
        BY <1>0 DEF At
      <3>1. Statement(t) = "Start"
        BY DEF At, Statement, Body, CalibrationTask
      <3> QED BY <1>5, <3>1 DEF WentOn, Made, Callee
    <2>3. Later(Running(t).function, Running(t).pc)
      <3> DEFINE k == Running(t).pc
      <3>1. CASE f = "CalibrationTask"
        <4>1. k + 1 >= 4 /\ k \in 1 .. 20 /\ k # 3
          BY <2>1, <2>2, <3>1 DEF Later
        <4> HIDE DEF k
        <4>2. k >= 4
          BY <4>1
        <4> QED BY <2>1, <3>1, <4>2 DEF Later, k
      <3>2. CASE f # "CalibrationTask"
        BY <2>1, <3>2 DEF Later
      <3> QED BY <3>1, <3>2
    <2> QED BY <1>0, <1>1, <1>3, <2>3
  <1>6. CASE /\ i = 1 /\ WentBack(t) /\ 2 \in 2 .. Len(stack[t]) /\ SameFrame(t, 1, 2)
             /\ InProgress(t, 1)' = InProgress(t, 2) + 1
    <2>1. /\ f = stack[t][2].function /\ q = InProgress(t, 2) + 1 /\ InProgress(t, 2) \in 1 .. 19
          /\ q = stack'[t][1].pc /\ 2 \in 1 .. Len(stack[t])
      BY <1>0, <1>6, WaitingIn DEF SameFrame, InProgress
    <2>2. CASE f = "CalibrationTask" /\ InProgress(t, 2) = 3
      <3>1. stack'[t] # <<>> /\ StackInv'
        BY <1>0, <1>6, OtherStack
      <3>2. At(t, "CalibrationTask", 4)'
        <4> DEFINE new == stack'[t]
        <4>1. WellFormed(new) /\ new # <<>>
          BY <3>1 DEF StackInv
        <4>2. Head(new) = new[1]
          BY <4>1, TopOf
        <4> QED BY <1>6, <2>1, <2>2, <3>1, <4>2 DEF At, Running
      <3>3. Reached("CalibrationTask", 4)'
        BY <1>0, <3>2, ActorSteps, FunctionsAre DEF Body, CalibrationTask
      <3>4. state'.isActive
        BY <3>3 DEF Reached, Started, Switching, AllOn
      <3> QED BY <1>4, <3>4 DEF NotStarted
    <2>3. CASE f # "CalibrationTask" \/ InProgress(t, 2) # 3
      <3>1. Later(stack[t][2].function, InProgress(t, 2))
        <4> DEFINE k == InProgress(t, 2)
        <4>1. CASE f = "CalibrationTask"
          <5>1. k + 1 >= 4 /\ k \in 1 .. 19 /\ k # 3
            BY <2>1, <2>3, <4>1 DEF Later
          <5> HIDE DEF k
          <5>2. k >= 4
            BY <5>1
          <5> QED BY <2>1, <4>1, <5>2 DEF Later, k
        <4>2. CASE f # "CalibrationTask"
          BY <2>1, <4>2 DEF Later
        <4> QED BY <4>1, <4>2
      <3> QED BY <1>1, <2>1, <3>1
    <2> QED BY <2>2, <2>3
  <1>7. CASE i = 1 /\ WentInto(t)
    <2>1. /\ f = Callee[Statement(t)] /\ Statement(t) \in DOMAIN Callee
          /\ CallsAt(Running(t).function, Running(t).pc, Statement(t))
      BY <1>0, <1>7, RunningCalls DEF WentInto, Frame
    <2>2. f \in {"RequestResistorChangeAndCheckVout", "CalibrateSensor"}
      BY <2>1, CalleesAre DEF Later
    <2>3. Running(t).function = "CalibrationTask" /\ Running(t).pc \in {12, 13, 15}
      BY <2>1, <2>2, CallersAre
    <2>4. Later(Running(t).function, Running(t).pc)
      BY <2>3 DEF Later
    <2> QED BY <1>0, <1>1, <1>3, <2>4
  <1>8. CASE i = 1 /\ WentRound(t)
    <2>1. Running(t).function = "CalibrationTask" /\ Running(t).pc \in {17, 20}
      BY <1>8 DEF WentRound
    <2>2. Later(Running(t).function, Running(t).pc)
      BY <2>1 DEF Later
    <2> QED BY <1>0, <1>1, <1>3, <2>2
  <1> QED BY <1>0, <1>2, <1>5, <1>6, <1>7, <1>8, FrameAfter

LEMMA RestingAfter ==
  ASSUME NestingInv, NEW t \in Tasks, Step(t), stack'[t] # <<>>,
         Rests(stack'[t][1].function, stack'[t][1].pc)
  PROVE  ~state'.isActive
  <1> DEFINE top == stack[t][1]
             new == stack'[t][1]
             s == Statement(t)
  <1>0. /\ OutputInv /\ DriverTypes /\ StackInv /\ StackInv' /\ stack[t] # <<>>
        /\ Running(t) = top /\ Len(stack[t]) \in Nat \ {0}
        /\ WentOn(t) \/ WentInto(t) \/ WentBack(t) \/ WentRound(t)
    BY OutputParts, FramesOfStep, OtherStack DEF NestingInv
  <1>1. /\ top.function \in Functions /\ top.pc \in 1 .. 20 /\ top.pc \in 1 .. Len(Body[top.function])
        /\ s = Body[top.function][top.pc]
    BY <1>0, TopOfTask
  <1>2. new.function # "StartMeasurements"
    BY DEF Rests
  <1>3. state'.isActive => state.isActive \/ (top.function = "StartMeasurements" /\ top.pc = 7)
    BY <1>0, ActiveAfter DEF At
  <1>4. Rests(top.function, top.pc) => ~state.isActive
    BY <1>0 DEF NestingInv, Resting
  <1>5. CASE WentOn(t)
    <2>1. new.function = top.function /\ new.pc = top.pc + 1
      BY <1>0, <1>5 DEF WentOn, Onward
    <2>2. s # "StopAll"
      BY <1>5 DEF WentOn, Made, Callee
    <2>3. Rests(top.function, top.pc)
      <3> DEFINE k == top.pc
                 f == top.function
      <3>1. k \in 1 .. 20 /\ new.pc = k + 1 /\ f = new.function /\ Rests(f, k + 1)
        BY <1>1, <2>1
      <3>2. /\ f = "CalibrationTask" => k # 8
            /\ f = "RequestResistorChangeAndCheckVout" => k # 8
            /\ f = "CalibrateSensor" => k # 7
        <4>1. /\ Body["CalibrationTask"][8] = "StopAll"
              /\ Body["RequestResistorChangeAndCheckVout"][8] = "StopAll"
              /\ Body["CalibrateSensor"][7] = "StopAll"
          BY DEF Body, CalibrationTask, RequestResistorChangeAndCheckVout, CalibrateSensor
        <4>2. s = Body[f][k]
          BY <1>1
        <4> HIDE DEF s, f, k
        <4> QED BY <2>2, <4>1, <4>2
      <3> HIDE DEF k, f
      <3>3. ASSUME f = "CalibrationTask" PROVE Rests(f, k)
        <4>1. k + 1 \in 9 .. 18
          BY <3>1, <3>3 DEF Rests
        <4>2. k \in 9 .. 18
          BY <3>1, <3>2, <3>3, <4>1
        <4> QED BY <3>3, <4>2 DEF Rests
      <3>4. ASSUME f = "RequestResistorChangeAndCheckVout" PROVE Rests(f, k)
        <4>1. k + 1 \in (1 .. 5) \cup {9}
          BY <3>1, <3>4 DEF Rests
        <4>2. k \in 1 .. 5
          BY <3>1, <3>2, <3>4, <4>1
        <4> QED BY <3>4, <4>2 DEF Rests
      <3>5. ASSUME f = "CalibrateSensor" PROVE Rests(f, k)
        <4>1. k + 1 \in (1 .. 4) \cup (8 .. 10)
          BY <3>1, <3>5 DEF Rests
        <4>2. k \in (1 .. 4) \cup (8 .. 10)
          BY <3>1, <3>2, <3>5, <4>1
        <4> QED BY <3>5, <4>2 DEF Rests
      <3>6. Rests(f, k)
        BY <3>1, <3>3, <3>4, <3>5 DEF Rests
      <3> QED BY <3>6 DEF f, k
    <2> QED BY <1>2, <1>3, <1>4, <2>1, <2>3
  <1>6. CASE WentInto(t)
    <2>1. /\ new.function = Callee[s] /\ s \in DOMAIN Callee
          /\ CallsAt(top.function, top.pc, s)
      BY <1>0, <1>6, RunningCalls DEF WentInto, Frame
    <2>2. new.function \in {"RequestResistorChangeAndCheckVout", "CalibrateSensor"}
      BY <2>1, CalleesAre DEF Rests
    <2>3. top.function = "CalibrationTask" /\ top.pc \in {12, 13, 15}
      <3> HIDE DEF s, top, new
      <3> QED BY <2>1, <2>2, CallersAre
    <2>4. Rests(top.function, top.pc)
      BY <2>3 DEF Rests
    <2> QED BY <1>3, <1>4, <2>3, <2>4
  <1>7. CASE WentBack(t)
    <2>1. /\ top.pc = Len(Body[top.function]) /\ s = "Return" /\ t = Actor
          /\ Len(stack'[t]) = Len(stack[t]) - 1 /\ \A i \in 1 .. Len(stack'[t]) : stack'[t][i] = stack[t][i + 1]
      <3>1. Len(stack'[t]) \in Nat \ {0} /\ 1 \in 1 .. Len(stack'[t])
        <4> DEFINE calls == stack'[t]
        <4>1. WellFormed(calls) /\ calls # <<>>
          BY <1>0 DEF StackInv
        <4>2. Len(calls) \in Nat \ {0}
          BY <4>1, TopOf
        <4> HIDE DEF calls
        <4>3. 1 \in 1 .. Len(calls)
          BY <4>2
        <4> QED BY <4>2, <4>3 DEF calls
      <3>2. t = Actor
        BY <1>0, <3>1, ActorSteps
      <3> QED BY <1>0, <1>7, <3>2 DEF WentBack
    <2>2. 2 \in 2 .. Len(stack[t]) /\ new = stack[t][2]
      <3> DEFINE n == Len(stack[t])
                 m == Len(stack'[t])
      <3>1. n \in Nat \ {0} /\ m = n - 1
        BY <1>0, <2>1
      <3>2. m # 0
        <4>1. stack'[t] \in Seq(Frames)
          BY <1>0 DEF StackInv, WellFormed
        <4> QED BY <4>1
      <3>3. 2 \in 2 .. n /\ 1 \in 1 .. m
        <4> HIDE DEF n, m
        <4> QED BY <3>1, <3>2
      <3>4. stack'[t][1] = stack[t][1 + 1]
        BY <2>1, <3>3
      <3> QED BY <3>3, <3>4
    <2>3. PICK c : /\ c \in DOMAIN Callee /\ CallsAt(new.function, new.pc - 1, c)
                   /\ top.function = Callee[c] /\ new.pc - 1 \in 1 .. 19 /\ new \in Frames
      BY <1>0, <2>2, WaitingIn
    <2>4. state' = state
      BY <1>0, <2>1, ActiveAfter
    <2>5. CASE c = "StopAll"
      <3>1. top.function = "StopMeasurements" /\ Reached("StopMeasurements", Len(Body["StopMeasurements"]))
        <4>1. top.function = "StopMeasurements"
          BY <2>3, <2>5, CalleeIs
        <4>2. At(t, "StopMeasurements", 10) /\ Len(Body["StopMeasurements"]) = 10
          BY <1>0, <2>1, <4>1 DEF At, Body, StopMeasurements
        <4>3. ActorReached
          BY <1>0, OutputParts
        <4> QED BY <2>1, <4>1, <4>2, <4>3, FunctionsAre DEF ActorReached
      <3>2. ~state.isActive
        BY <3>1, AtReturn, FunctionsAre DEF AllOff
      <3> QED BY <2>4, <3>2
    <2>6. CASE c \in {"ActivateVoltage", "ActivateThis"}
      <3>1. top.function = "SetAndActivateSensor"
        BY <2>3, <2>6, CalleeIs
      <3>2. Fresh(new.function, new.pc)
        <4> DEFINE k == new.pc
        <4>1. k - 1 \in 1 .. 19 /\ k \in 1 .. 20
          BY <2>3, FrameTyped
        <4>2. /\ new.function = "CalibrationTask" => k - 1 = 1
              /\ new.function = "RequestResistorChangeAndCheckVout" => k - 1 = 4
              /\ new.function = "CalibrateSensor" => k - 1 = 1
          BY <2>3, <2>6 DEF CallsAt
        <4> HIDE DEF k
        <4>3. /\ k - 1 = 1 => k = 2
              /\ k - 1 = 4 => k = 5
          BY <4>1
        <4>4. Rests(new.function, k)
          BY DEF k
        <4> HIDE DEF new
        <4> QED BY <4>2, <4>3, <4>4 DEF Rests, Fresh, k
      <3>3. ~state.isActive
        BY <1>0, <2>2, <3>1, <3>2 DEF NestingInv, NestedStarts
      <3> QED BY <2>4, <3>3
    <2>7. CASE c \notin {"StopAll", "ActivateVoltage", "ActivateThis"}
      <3>1. Rests(top.function, top.pc)
        <4> DEFINE k == new.pc
        <4>1. k - 1 \in 1 .. 19 /\ k \in 1 .. 20 /\ Rests(new.function, k)
          BY <2>3, FrameTyped
        <4>2. \/ new.function = "CalibrationTask" /\ c = "Start" /\ k - 1 = 3
              \/ /\ new.function = "CalibrationTask"
                 /\ c \in {"CheckVout", "CalibrateShunt", "CalibrateClamp"}
              \/ new.function = "CalibrationTask" /\ c = "StopDriver" /\ k - 1 = 19
              \/ new.function = "RequestResistorChangeAndCheckVout" /\ k - 1 = 5
              \/ new.function = "CalibrateSensor" /\ k - 1 = 4
          BY <2>3, <2>7, <4>1 DEF CallsAt, Rests
        <4> HIDE DEF k
        <4>3. /\ k - 1 = 3 => k = 4
              /\ k - 1 = 19 => k = 20
              /\ k - 1 = 5 => k = 6
              /\ k - 1 = 4 => k = 5
          BY <4>1
        <4>4. c \in {"CheckVout", "CalibrateShunt", "CalibrateClamp"}
          <5> HIDE DEF new
          <5> QED BY <4>1, <4>2, <4>3 DEF Rests
        <4>5. \/ top.function = "RequestResistorChangeAndCheckVout" /\ top.pc = 9
              \/ top.function = "CalibrateSensor" /\ top.pc = 10
          BY <2>1, <2>3, <4>4, CalleeIs DEF Body, RequestResistorChangeAndCheckVout, CalibrateSensor
        <4> QED BY <4>5 DEF Rests
      <3> QED BY <1>4, <2>4, <3>1
    <2> QED BY <2>5, <2>6, <2>7
  <1>8. CASE WentRound(t)
    <2>1. top.function = "CalibrationTask" /\ top.pc = 17
      BY <1>0, <1>8 DEF WentRound, Rests
    <2>2. Rests(top.function, top.pc)
      BY <2>1 DEF Rests
    <2> QED BY <1>3, <1>4, <2>1, <2>2
  <1> QED BY <1>0, <1>5, <1>6, <1>7, <1>8

\* What a fresh call's frame waits for.
LEMMA FreshCalls ==
  ASSUME NEW f, NEW p \in 1 .. 20, NEW c, c \in DOMAIN Callee, CallsAt(f, p - 1, c), Fresh(f, p)
  PROVE  /\ f = "SetAndActivateSensor" => p - 1 = 6 /\ c = "StartIfWasActive"
         /\ f # "SetAndActivateSensor" =>
              /\ f \in {"RequestResistorChangeAndCheckVout", "CalibrateSensor"}
              /\ c \in {"ActivateVoltage", "ActivateThis", "Start"} /\ Rests(f, p - 1)
         /\ Callee[c] \in {"SetAndActivateSensor", "StartMeasurements"}
  <1>1. /\ p = 7 => p - 1 = 6
        /\ p = 5 => p - 1 = 4
        /\ p = 6 => p - 1 = 5
        /\ p = 2 => p - 1 = 1
    OBVIOUS
  <1> DEFINE q == p - 1
  <1>2. /\ p = 7 => q = 6
        /\ p = 5 => q = 4
        /\ p = 6 => q = 5
        /\ p = 2 => q = 1
    BY <1>1
  <1> HIDE DEF q
  <1>3. CallsAt(f, q, c)
    BY DEF q
  <1>4. CASE f = "SetAndActivateSensor"
    <2>1. p = 7 /\ q = 6
      BY <1>2, <1>4 DEF Fresh
    <2>2. c = "StartIfWasActive"
      BY <1>3, <1>4, <2>1 DEF CallsAt
    <2> QED BY <1>4, <2>1, <2>2, CalleeIs DEF q
  <1>5. CASE f = "RequestResistorChangeAndCheckVout"
    <2>1. q \in {4, 5}
      BY <1>2, <1>5 DEF Fresh
    <2>2. c \in {"ActivateVoltage", "Start"}
      BY <1>3, <1>5, <2>1 DEF CallsAt
    <2>3. Rests(f, q)
      BY <1>5, <2>1 DEF Rests
    <2> QED BY <1>5, <2>2, <2>3, CalleeIs DEF q
  <1>6. CASE f = "CalibrateSensor"
    <2>1. q \in {1, 4}
      BY <1>2, <1>6 DEF Fresh
    <2>2. c \in {"ActivateThis", "Start"}
      BY <1>3, <1>6, <2>1 DEF CallsAt
    <2>3. Rests(f, q)
      BY <1>6, <2>1 DEF Rests
    <2> QED BY <1>6, <2>2, <2>3, CalleeIs DEF q
  <1> QED BY <1>4, <1>5, <1>6 DEF Fresh

\* The nested start calls nothing but the change of sensor.
LEMMA NestedCalls ==
  ASSUME NestingInv, NEW t \in Tasks, Step(t), NEW i \in 2 .. Len(stack[t]), WentInto(t),
         Fresh(stack[t][i].function, stack[t][i].pc)
  PROVE  /\ i = 2 /\ Running(t).function = "StartMeasurements" /\ Statement(t) = "Reactivate"
         /\ ~state.isActive
  <1> DEFINE top == stack[t][1]
             s == Statement(t)
             f == stack[t][i].function
             p == stack[t][i].pc
  <1>0. /\ OutputInv /\ StackInv /\ DataOK /\ stack[t] # <<>> /\ Running(t) = top
        /\ Len(stack[t]) \in Nat \ {0}
    BY OutputParts, FramesOfStep DEF NestingInv
  <1>1. /\ s \in DOMAIN Callee /\ CallsAt(top.function, top.pc, s) /\ Made(s, top)
    BY <1>0, RunningCalls DEF WentInto
  <1>2. /\ f \in Functions /\ p \in 1 .. 20
        /\ \E c \in DOMAIN Callee : CallsAt(f, p - 1, c) /\ stack[t][i - 1].function = Callee[c]
    <2>1. stack[t][i] \in Frames
      BY <1>0, WaitingIn
    <2> QED BY <1>0, <2>1, WaitingIn, FrameTyped
  <1>3. /\ i <= 3
        /\ f = "SetAndActivateSensor" => stack[t][i].wasActive
        /\ i = 3 => top.function = "SetAndActivateSensor"
        /\ top.function = "SetAndActivateSensor" => ~top.wasActive
        /\ ~state.isActive \/ (top.function = "StartMeasurements" /\ top.pc = 8)
    BY DEF NestingInv, NestedStarts
  <1>4. ~state.isActive
    <2>1. ~(top.function = "StartMeasurements" /\ top.pc = 8)
      <3> HIDE DEF top, s
      <3> QED BY <1>1 DEF CallsAt
    <2> QED BY <1>3, <2>1
  <1>5. top.function # "SetAndActivateSensor"
    <2> SUFFICES ASSUME top.function = "SetAndActivateSensor" PROVE FALSE
      OBVIOUS
    <2>1. s \in {"StopIfActive", "StartIfWasActive"}
      <3> HIDE DEF top, s
      <3> QED BY <1>1, CallersAre
    <2>2. ~top.wasActive
      BY <1>3
    <2> QED BY <1>1, <1>4, <2>1, <2>2 DEF Made
  <1>6. i = 2
    <2>1. i \in 2 .. Len(stack[t]) /\ i # 3 /\ i <= 3
      BY <1>3, <1>5
    <2> DEFINE n == Len(stack[t])
    <2> HIDE DEF n
    <2>2. n \in Nat /\ i \in 2 .. n
      BY <1>0 DEF n
    <2> QED BY <2>1, <2>2
  <1>7. top.function = "StartMeasurements"
    <2>1. PICK c \in DOMAIN Callee : CallsAt(f, p - 1, c) /\ stack[t][i - 1].function = Callee[c]
      BY <1>2
    <2>2. Callee[c] \in {"SetAndActivateSensor", "StartMeasurements"}
      <3> HIDE DEF f, p
      <3>1. Fresh(f, p)
        BY DEF f, p
      <3> QED BY <1>2, <2>1, <3>1, FreshCalls
    <2>3. stack[t][i - 1] = top
      BY <1>6
    <2> QED BY <1>5, <2>1, <2>2, <2>3
  <1>8. ~state.firstStart
    <2>1. CASE f = "SetAndActivateSensor"
      <3>1. i \in 1 .. Len(stack[t]) /\ NotStarted
        <4> DEFINE n == Len(stack[t])
        <4>1. n \in Nat /\ i \in 2 .. n
          BY <1>0
        <4> HIDE DEF n
        <4>2. i \in 1 .. n
          BY <4>1
        <4> QED BY <1>0, <4>2 DEF OutputInv, n
      <3> QED BY <1>3, <2>1, <3>1 DEF NotStarted
    <2>2. CASE f # "SetAndActivateSensor"
      <3>1. Later(f, InProgress(t, i))
        BY <2>2 DEF Fresh, Later
      <3>2. i \in 1 .. Len(stack[t])
        <4> DEFINE n == Len(stack[t])
        <4>1. n \in Nat /\ i \in 2 .. n
          BY <1>0
        <4> HIDE DEF n
        <4> QED BY <4>1
      <3> QED BY <3>1, <3>2 DEF NestingInv, FirstDone
    <2> QED BY <2>1, <2>2
  <1>9. s = "Reactivate"
    <2>1. s \in {"FirstStart", "Reactivate"}
      <3> HIDE DEF top, s
      <3> QED BY <1>1, <1>7, CallersAre
    <2> QED BY <1>1, <1>8, <2>1 DEF Made
  <1> QED BY <1>0, <1>4, <1>6, <1>7, <1>9

LEMMA NestedAfter ==
  ASSUME NestingInv, NEW t \in Tasks, Step(t), NEW i \in 2 .. Len(stack'[t]),
         Fresh(stack'[t][i].function, stack'[t][i].pc)
  PROVE  /\ i <= 3
         /\ stack'[t][i].function = "SetAndActivateSensor" => stack'[t][i].wasActive
         /\ i = 3 => stack'[t][1].function = "SetAndActivateSensor"
         /\ stack'[t][1].function = "SetAndActivateSensor" => ~stack'[t][1].wasActive
         /\ \/ ~state'.isActive
            \/ stack'[t][1].function = "StartMeasurements" /\ stack'[t][1].pc = 8
  <1> DEFINE top == stack[t][1]
             new == stack'[t][1]
             s == Statement(t)
             n == Len(stack[t])
             m == Len(stack'[t])
  <1>0. /\ OutputInv /\ DriverTypes /\ StackInv /\ StackInv' /\ stack[t] # <<>>
        /\ Running(t) = top /\ n \in Nat \ {0}
        /\ WentOn(t) \/ WentInto(t) \/ WentBack(t) \/ WentRound(t)
    BY OutputParts, FramesOfStep, OtherStack DEF NestingInv
  <1>1. /\ top.function \in Functions /\ top.pc \in 1 .. 20 /\ top.pc \in 1 .. Len(Body[top.function])
        /\ s = Body[top.function][top.pc]
    BY <1>0, TopOfTask
  <1>2. m \in Nat
    <2> DEFINE calls == stack'[t]
    <2>1. calls \in Seq(Frames)
      BY <1>0 DEF StackInv, WellFormed
    <2> HIDE DEF calls
    <2>2. Len(calls) \in Nat
      BY <2>1
    <2> QED BY <2>2 DEF calls
  <1>3. ASSUME NEW j \in 2 .. n, Fresh(stack[t][j].function, stack[t][j].pc)
        PROVE  /\ j <= 3
               /\ stack[t][j].function = "SetAndActivateSensor" => stack[t][j].wasActive
               /\ j = 3 => top.function = "SetAndActivateSensor"
               /\ top.function = "SetAndActivateSensor" => ~top.wasActive
               /\ ~state.isActive \/ (top.function = "StartMeasurements" /\ top.pc = 8)
    BY <1>3 DEF NestingInv, NestedStarts
  <1>4. CASE WentOn(t)
    <2>1. m = n /\ Onward(t, new) /\ \A j \in 2 .. n : stack'[t][j] = stack[t][j]
      BY <1>4 DEF WentOn
    <2>2. i \in 2 .. n /\ stack'[t][i] = stack[t][i]
      <3>1. i \in 2 .. m
        OBVIOUS
      <3> QED BY <2>1, <3>1
    <2>3. ~(top.function = "StartMeasurements" /\ top.pc = 8)
      <3>1. s # "Return"
        BY <1>4 DEF WentOn
      <3>2. Body["StartMeasurements"][8] = "Return"
        BY DEF Body, StartMeasurements
      <3> HIDE DEF s
      <3> QED BY <1>1, <3>1, <3>2
    <2>4. ~state.isActive
      BY <1>3, <2>2, <2>3
    <2>5. new.function = top.function /\ new.pc = top.pc + 1
          /\ new.wasActive \in {top.wasActive, state.isActive}
      BY <1>0, <2>1 DEF Onward
    <2>6. state'.isActive => new.function = "StartMeasurements" /\ new.pc = 8
      <3>1. state'.isActive => top.function = "StartMeasurements" /\ top.pc = 7
        BY <1>0, <2>4, ActiveAfter DEF At
      <3> HIDE DEF top, new
      <3> QED BY <2>5, <3>1
    <2>7. Fresh(stack[t][i].function, stack[t][i].pc)
      BY <2>2
    <2>8. /\ i <= 3
          /\ stack[t][i].function = "SetAndActivateSensor" => stack[t][i].wasActive
          /\ i = 3 => top.function = "SetAndActivateSensor"
          /\ top.function = "SetAndActivateSensor" => ~top.wasActive
      BY <1>3, <2>2, <2>7
    <2> HIDE DEF top, new, n, m
    <2> QED BY <2>2, <2>4, <2>5, <2>6, <2>8 DEF new
  <1>5. CASE WentInto(t)
    <2>1. /\ new = Frame(Callee[s], Argument(s, top)) /\ Onward(t, stack'[t][2])
          /\ s = "StartIfWasActive" => stack'[t][2].wasActive = top.wasActive
          /\ m = n + 1 /\ \A j \in 3 .. m : stack'[t][j] = stack[t][j - 1]
          /\ s \in DOMAIN Callee /\ Made(s, top)
      BY <1>0, <1>5 DEF WentInto
    <2>2. state' = state /\ new.wasActive = FALSE /\ new.function = Callee[s]
      BY <1>0, <2>1, ActiveAfter DEF Frame
    <2>3. CASE i # 2
      <3>1. i \in 3 .. m /\ i - 1 \in 2 .. n
        <4>1. i \in 2 .. m
          OBVIOUS
        <4> HIDE DEF m, n
        <4> QED BY <1>0, <2>1, <2>3, <4>1
      <3> DEFINE j == i - 1
      <3>2. stack'[t][i] = stack[t][j]
        BY <2>1, <3>1
      <3>3. j \in 2 .. n /\ Fresh(stack[t][j].function, stack[t][j].pc)
        BY <3>1, <3>2
      <3> HIDE DEF j
      <3>4. /\ j = 2 /\ top.function = "StartMeasurements" /\ s = "Reactivate" /\ ~state.isActive
        BY <1>0, <1>5, <3>3, NestedCalls
      <3>5. i = 3
        BY <3>1, <3>4 DEF j
      <3>6. new.function = "SetAndActivateSensor"
        BY <2>2, <3>4, CalleeIs
      <3>7. stack[t][j].function = "SetAndActivateSensor" => stack[t][j].wasActive
        BY <1>3, <3>3
      <3> QED BY <2>2, <3>2, <3>4, <3>5, <3>6, <3>7
    <2>4. CASE i = 2
      <3>1. /\ stack'[t][2].function = top.function /\ stack'[t][2].pc = top.pc + 1
            /\ CallsAt(top.function, top.pc, s)
        BY <1>0, <2>1, RunningCalls DEF Onward
      <3> DEFINE f == top.function
                 p == top.pc + 1
      <3>2. p - 1 = top.pc /\ p \in 1 .. 20
        <4> DEFINE k == top.pc
                   b == Len(Body[top.function])
        <4>0. k + 1 <= b
          BY <2>1, <3>1 DEF Onward
        <4>1. k \in 1 .. 20 /\ b \in 2 .. 20
          BY <1>1, BodyShape
        <4> HIDE DEF k, b
        <4>2. k + 1 - 1 = k /\ k + 1 \in 1 .. 20
          BY <4>0, <4>1
        <4>3. p = k + 1 /\ top.pc = k
          BY DEF k
        <4> HIDE DEF p, top
        <4> QED BY <4>1, <4>2, <4>3
      <3>3. Fresh(f, p) /\ CallsAt(f, p - 1, s)
        BY <2>4, <3>1, <3>2
      <3> HIDE DEF f, p
      <3>4. /\ f = "SetAndActivateSensor" => p - 1 = 6 /\ s = "StartIfWasActive"
            /\ f # "SetAndActivateSensor" => Rests(f, p - 1)
        <4> HIDE DEF s
        <4> QED BY <2>1, <3>2, <3>3, FreshCalls
      <3>5. ~state.isActive
        <4>1. CASE f = "SetAndActivateSensor"
          <5>1. At(t, "SetAndActivateSensor", 6) /\ ActorReached /\ t = Actor
            <6>1. t = Actor
              BY <1>0, ActorSteps, 1 \in 1 .. m
            <6> QED BY <1>0, <3>2, <3>4, <4>1, <6>1, OutputParts DEF At, f
          <5>2. InActivate(6)
            BY <5>1, FunctionsAre DEF ActorReached, Reached
          <5> QED BY <5>2 DEF InActivate, AllOff
        <4>2. CASE f # "SetAndActivateSensor"
          <5>1. Rests(top.function, top.pc)
            BY <3>2, <3>4, <4>2 DEF f
          <5> QED BY <1>0, <5>1 DEF NestingInv, Resting
        <4> QED BY <4>1, <4>2
      <3>6. f = "SetAndActivateSensor" => stack'[t][2].wasActive
        BY <2>1, <3>4 DEF Made
      <3>7. stack'[t][i].function = f
        BY <2>4, <3>1 DEF f
      <3> QED BY <2>2, <2>4, <3>5, <3>6, <3>7
    <2> QED BY <2>3, <2>4
  <1>6. CASE WentBack(t)
    <2>1. m = n - 1 /\ s = "Return" /\ \A j \in 1 .. m : stack'[t][j] = stack[t][j + 1]
      BY <1>6 DEF WentBack
    <2>2. state' = state
      BY <1>0, <2>1, ActiveAfter
    <2>3. i + 1 \in 2 .. n /\ i + 1 \in 3 .. n /\ 2 \in 2 .. n /\ 1 \in 1 .. m /\ i \in 1 .. m
      <3>1. i \in 2 .. m
        OBVIOUS
      <3> HIDE DEF m, n
      <3> QED BY <1>0, <1>2, <2>1, <3>1
    <2> DEFINE j == i + 1
    <2>4. stack'[t][i] = stack[t][j] /\ new = stack[t][1 + 1]
      BY <2>1, <2>3
    <2>5. j \in 2 .. n /\ Fresh(stack[t][j].function, stack[t][j].pc)
      BY <2>3, <2>4
    <2> HIDE DEF j
    <2>6. /\ j <= 3
          /\ stack[t][j].function = "SetAndActivateSensor" => stack[t][j].wasActive
          /\ j = 3 => top.function = "SetAndActivateSensor"
          /\ ~state.isActive \/ (top.function = "StartMeasurements" /\ top.pc = 8)
      BY <1>3, <2>5
    <2>7. j = 3 /\ i = 2
      <3> HIDE DEF n, m
      <3> QED BY <2>3, <2>6 DEF j
    <2>8. top.function = "SetAndActivateSensor" /\ ~state.isActive
      BY <2>6, <2>7
    <2>9. new.function # "SetAndActivateSensor"
      <3>1. PICK c : c \in DOMAIN Callee /\ CallsAt(new.function, new.pc - 1, c)
                     /\ top.function = Callee[c]
        <4>1. new = stack[t][2] /\ top = stack[t][2 - 1]
          BY <2>4
        <4> QED BY <1>0, <2>3, <4>1, WaitingIn
      <3> HIDE DEF top, new
      <3> QED BY <2>8, <3>1, CallersAre
    <2> QED BY <2>2, <2>4, <2>6, <2>7, <2>8, <2>9
  <1>7. CASE WentRound(t)
    <2>1. m = 1 /\ i \in 2 .. m
      BY <1>7 DEF WentRound
    <2> HIDE DEF m
    <2> QED BY <2>1
  <1> QED BY <1>0, <1>4, <1>5, <1>6, <1>7

\* A step of another task, of the user or of a delay leaves the frames as they are, and
\* sets isActive only if the frames are those of the task that waits.
LEMMA OthersSteps ==
  ASSUME OutputInv, [Next]_vars, NEW t \in Tasks, ~Step(t)
  PROVE  state'.isActive => state.isActive \/ t # Actor
  <1>0. DriverTypes /\ StackInv
    BY OutputParts
  <1>1. CASE \E u \in Tasks : Step(u)
    <2>1. PICK u \in Tasks : Step(u)
      BY <1>1
    <2>2. SUFFICES ASSUME At(u, "StartMeasurements", 7) PROVE t # Actor
      BY <1>0, <2>1, ActiveAfter
    <2>3. u = Actor
      BY <2>1, <2>2, WhoActs DEF At
    <2> QED BY <2>1, <2>3
  <1>2. CASE ~ \E u \in Tasks : Step(u)
    BY <1>2, QuietSteps DEF Next, SameOutput
  <1> QED BY <1>1, <1>2

\* The operations a key starts are none of the calibration's functions.
LEMMA PressedKey ==
  ASSUME StackInv, NEW operation \in Keys, PressKey(operation)
  PROVE  /\ Len(stack'["keyboard"]) = 1 /\ stack'["keyboard"][1].function \in Operations
         /\ stack'["keyboard"][1].pc = 1 /\ stack'["keyboard"][1].sensor = "Voltage"
         /\ \A p : ~Later(stack'["keyboard"][1].function, p)
         /\ \A p : ~Rests(stack'["keyboard"][1].function, p)
  <1> DEFINE new == stack'["keyboard"]
  <1>1. operation \in Operations /\ operation \in Functions
    BY DriverAssumption, FunctionsAre DEF Operations
  <1>2. new = <<Frame(operation, "Voltage")>>
    BY PressKeyKeepsStack
  <1> HIDE DEF new
  <1>3. Len(new) = 1 /\ new[1] = Frame(operation, "Voltage")
    BY <1>2
  <1>4. new[1].function = operation /\ new[1].pc = 1 /\ new[1].sensor = "Voltage"
    BY <1>3 DEF Frame
  <1> QED BY <1>1, <1>3, <1>4 DEF Later, Rests, Operations, new

LEMMA KeepsNesting ==
  ASSUME NestingInv, [Next]_vars
  PROVE  FirstDone' /\ Resting' /\ NestedStarts'
  <1>0. /\ OutputInv /\ DriverTypes /\ StackInv /\ StackInv'
        /\ state'.firstStart => state.firstStart
    <2>1. OutputInv /\ DriverTypes /\ StackInv
      BY OutputParts DEF NestingInv
    <2>2. DriverTypes'
      BY <2>1, NextKeepsTypes
    <2> QED BY <2>1, <2>2, FirstStartStays DEF DriverTypes
  <1>1. FirstDone'
    <2> SUFFICES ASSUME NEW t \in Tasks, NEW i \in 1 .. Len(stack'[t]),
                        Later(stack'[t][i].function, InProgress(t, i)')
                 PROVE  ~state'.firstStart
      BY DEF FirstDone
    <2>1. CASE Step(t)
      BY <1>0, <2>1, FirstDoneAfter DEF NestingInv
    <2>2. CASE stack'[t] = stack[t]
      <3>1. i \in 1 .. Len(stack[t]) /\ Later(stack[t][i].function, InProgress(t, i))
        BY <2>2 DEF InProgress
      <3> QED BY <1>0, <3>1 DEF NestingInv, FirstDone
    <2>3. CASE t = "keyboard" /\ \E operation \in Keys : PressKey(operation)
      <3>1. /\ Len(stack'[t]) = 1 /\ ~Later(stack'[t][1].function, InProgress(t, i)')
        BY <1>0, <2>3, PressedKey
      <3>2. i = 1
        <4> DEFINE m == Len(stack'[t])
        <4>1. i \in 1 .. m /\ m = 1
          BY <3>1
        <4> HIDE DEF m
        <4> QED BY <4>1
      <3> QED BY <3>1, <3>2
    <2> QED BY <1>0, <2>1, <2>2, <2>3, WhoseStack
  <1>2. Resting'
    <2> SUFFICES ASSUME NEW t \in Tasks, stack'[t] # <<>>,
                        Rests(stack'[t][1].function, stack'[t][1].pc)
                 PROVE  ~state'.isActive
      BY DEF Resting
    <2>1. CASE Step(t)
      BY <2>1, RestingAfter
    <2>2. CASE ~Step(t) /\ stack'[t] = stack[t]
      <3>1. ~state.isActive
        BY <2>2 DEF NestingInv, Resting
      <3>2. t = Actor
        <4> SUFFICES ASSUME t # Actor PROVE FALSE
          OBVIOUS
        <4>1. 1 \in 1 .. Len(stack[t])
          BY <1>0, <2>2, TopIsFirst
        <4> QED BY <1>0, <2>2, <4>1, OtherFrames DEF Rests
      <3> QED BY <1>0, <2>2, <3>1, <3>2, OthersSteps
    <2>3. CASE t = "keyboard" /\ \E operation \in Keys : PressKey(operation)
      BY <1>0, <2>3, PressedKey
    <2> QED BY <1>0, <2>1, <2>2, <2>3, WhoseStack
  <1>3. NestedStarts'
    <2> SUFFICES ASSUME NEW t \in Tasks, NEW i \in 2 .. Len(stack'[t]),
                        Fresh(stack'[t][i].function, stack'[t][i].pc)
                 PROVE  /\ i <= 3
                        /\ stack'[t][i].function = "SetAndActivateSensor" => stack'[t][i].wasActive
                        /\ i = 3 => stack'[t][1].function = "SetAndActivateSensor"
                        /\ stack'[t][1].function = "SetAndActivateSensor" => ~stack'[t][1].wasActive
                        /\ \/ ~state'.isActive
                           \/ stack'[t][1].function = "StartMeasurements" /\ stack'[t][1].pc = 8
      BY DEF NestedStarts
    <2>1. CASE Step(t)
      BY <2>1, NestedAfter
    <2>2. CASE ~Step(t) /\ stack'[t] = stack[t]
      <3>1. i \in 2 .. Len(stack[t]) /\ Fresh(stack[t][i].function, stack[t][i].pc)
        BY <2>2
      <3>2. /\ i <= 3
            /\ stack[t][i].function = "SetAndActivateSensor" => stack[t][i].wasActive
            /\ i = 3 => stack[t][1].function = "SetAndActivateSensor"
            /\ stack[t][1].function = "SetAndActivateSensor" => ~stack[t][1].wasActive
            /\ \/ ~state.isActive
               \/ stack[t][1].function = "StartMeasurements" /\ stack[t][1].pc = 8
        BY <3>1 DEF NestingInv, NestedStarts
      <3>3. t = Actor
        <4> SUFFICES ASSUME t # Actor PROVE FALSE
          OBVIOUS
        <4>1. i \in 1 .. Len(stack[t]) /\ i # 1
          <5> DEFINE n == Len(stack[t])
          <5>1. n \in Nat /\ i \in 2 .. n
            <6> DEFINE calls == stack[t]
            <6>1. calls \in Seq(Frames)
              BY <1>0 DEF StackInv
            <6> HIDE DEF calls
            <6>2. Len(calls) \in Nat
              BY <6>1
            <6> QED BY <3>1, <6>2 DEF calls
          <5> HIDE DEF n
          <5>2. i \in 1 .. n /\ i # 1
            BY <5>1
          <5> QED BY <5>2 DEF n
        <4> QED BY <1>0, <3>1, <4>1, OtherFrames DEF Fresh
      <3>4. state'.isActive => state.isActive
        BY <1>0, <2>2, <3>3, OthersSteps
      <3> QED BY <2>2, <3>2, <3>4
    <2>3. CASE t = "keyboard" /\ \E operation \in Keys : PressKey(operation)
      <3> DEFINE m == Len(stack'[t])
      <3>1. m = 1 /\ i \in 2 .. m
        BY <1>0, <2>3, PressedKey
      <3> HIDE DEF m
      <3> QED BY <3>1
    <2> QED BY <1>0, <2>1, <2>2, <2>3, WhoseStack
  <1> QED BY <1>1, <1>2, <1>3

\* At first the calibration waits at its first statement, and no key is handled.
LEMMA FramesAtFirst ==
  ASSUME Init, NEW t \in Tasks, NEW i \in 1 .. Len(stack[t])
  PROVE  /\ i = 1 /\ Len(stack[t]) = 1 /\ stack[t][i].function = "CalibrationTask"
         /\ stack[t][i].pc = 1 /\ stack[t][i].sensor = "Voltage"
  <1> DEFINE calls == stack[t]
  <1>1. CASE t = "keyboard"
    <2>1. calls = <<>> /\ i \in 1 .. Len(calls)
      BY <1>1 DEF Init
    <2> HIDE DEF calls
    <2> QED BY <2>1
  <1>2. CASE t = "calibration"
    <2>1. calls = <<Frame("CalibrationTask", "Voltage")>> /\ i \in 1 .. Len(calls)
      BY <1>2 DEF Init
    <2> HIDE DEF calls
    <2>2. i = 1 /\ Len(calls) = 1 /\ calls[i] = Frame("CalibrationTask", "Voltage")
      BY <2>1
    <2> QED BY <2>2 DEF Frame, calls
  <1> QED BY <1>1, <1>2 DEF Tasks

LEMMA InitNesting == Init => NestingInv
  <1> SUFFICES ASSUME Init PROVE NestingInv
    OBVIOUS
  <1>1. OutputInv
    BY InitOutput
  <1>2. FirstDone
    BY FramesAtFirst DEF FirstDone, InProgress, Later
  <1>3. Resting
    BY DEF Resting, Init
  <1>4. NestedStarts
    <2> SUFFICES ASSUME NEW t \in Tasks, NEW i \in 2 .. Len(stack[t]),
                        Fresh(stack[t][i].function, stack[t][i].pc)
                 PROVE  FALSE
      BY DEF NestedStarts
    <2> DEFINE n == Len(stack[t])
    <2>1. n \in Nat
      <3> DEFINE calls == stack[t]
      <3>1. calls \in Seq(Frames)
        BY <1>1, OutputParts DEF StackInv
      <3> HIDE DEF calls
      <3>2. Len(calls) \in Nat
        BY <3>1
      <3> QED BY <3>2 DEF calls
    <2>2. i \in 2 .. n
      OBVIOUS
    <2> HIDE DEF n
    <2>3. i \in 1 .. n /\ i # 1
      BY <2>1, <2>2
    <2> QED BY <2>3, FramesAtFirst DEF n
  <1> QED BY <1>1, <1>2, <1>3, <1>4 DEF NestingInv

LEMMA AlwaysNesting ==
  ASSUME KeysWhileCalibrating = {}
  PROVE  Spec => []NestingInv
  <1>1. Spec => []OutputInv
    BY AlwaysOutput
  <1>2. Init => FirstDone /\ Resting /\ NestedStarts
    BY InitNesting DEF NestingInv
  <1>3. OutputInv /\ FirstDone /\ Resting /\ NestedStarts /\ [Next]_vars
          => FirstDone' /\ Resting' /\ NestedStarts'
    BY KeepsNesting DEF NestingInv
  <1> QED BY <1>1, <1>2, <1>3, PTL DEF Spec, NestingInv

-----------------------------------------------------------------------------
\* How deep the calls nest.

\* What of the calls below the third one can be waiting.
LEMMA DeepCalls ==
  ASSUME NestingInv, NEW t \in Tasks, NEW i \in 2 .. Len(stack[t])
  PROVE  LET f == stack[t][i].function
         IN  /\ f # "StopMeasurements"
             /\ i >= 4 => f \notin {"SetAndActivateSensor", "FirstStart", "Stop", "CalibrateSensor",
                                    "RequestResistorChangeAndCheckVout"}
             /\ i >= 5 => f # "StartMeasurements"
  <1> DEFINE n == Len(stack[t])
  <1>0. /\ OutputInv /\ StackInv /\ InsideFirstStart
    BY OutputParts DEF NestingInv, OutputInv
  <1>1. n \in Nat
    <2> DEFINE calls == stack[t]
    <2>1. calls \in Seq(Frames)
      BY <1>0 DEF StackInv
    <2> HIDE DEF calls
    <2>2. Len(calls) \in Nat
      BY <2>1
    <2> QED BY <2>2 DEF calls
  <1>2. ASSUME NEW j \in 2 .. n
        PROVE  stack[t][j].function # "StopMeasurements"
    <2>1. PICK c \in DOMAIN Callee : CallsAt(stack[t][j].function, stack[t][j].pc - 1, c)
      BY <1>0, WaitingIn
    <2> QED BY <2>1, CallersAre
  <1>3. ASSUME NEW j \in 2 .. n, j >= 4,
               stack[t][j].function \in {"SetAndActivateSensor", "FirstStart", "Stop",
                 "CalibrateSensor", "RequestResistorChangeAndCheckVout"}
        PROVE  FALSE
    <2> DEFINE h == stack[t][j]
               f == h.function
               p == h.pc
               q == p - 1
    <2>1. PICK c \in DOMAIN Callee : /\ CallsAt(f, q, c) /\ stack[t][j - 1].function = Callee[c]
                                     /\ h \in Frames /\ q \in 1 .. 19
      BY <1>0, WaitingIn
    <2>2. j - 1 \in 2 .. n
      <3> HIDE DEF n
      <3> QED BY <1>1, <1>3
    <2>3. c \notin {"StopAll", "StopIfActive"}
      <3>1. Callee[c] # "StopMeasurements"
        BY <1>2, <2>1, <2>2
      <3> QED BY <3>1, CalleeIs
    <2>4. f # "FirstStart"
      BY <1>0, <1>3 DEF InsideFirstStart
    <2>5. ~Fresh(f, p)
      <3>1. Fresh(f, p) => j <= 3
        BY DEF NestingInv, NestedStarts
      <3>2. j \in Nat /\ j >= 4
        <4> HIDE DEF n
        <4> QED BY <1>1, <1>3
      <3> QED BY <3>1, <3>2
    <2>6. p \in 1 .. 20
      BY <2>1, FrameTyped
    <2>7. f \in {"SetAndActivateSensor", "FirstStart", "Stop", "CalibrateSensor",
                 "RequestResistorChangeAndCheckVout"}
      BY <1>3
    <2> HIDE DEF f, p
    <2>8. /\ q = 6 => p = 7
          /\ q = 4 => p = 5
          /\ q = 5 => p = 6
          /\ q = 1 => p = 2
      BY <2>6
    <2> HIDE DEF q
    <2>9. \/ f = "SetAndActivateSensor" /\ q = 6
          \/ f = "RequestResistorChangeAndCheckVout" /\ q \in {4, 5}
          \/ f = "CalibrateSensor" /\ q \in {1, 4}
      BY <2>1, <2>3, <2>4, <2>7 DEF CallsAt
    <2> QED BY <2>5, <2>8, <2>9 DEF Fresh
  <1>4. ASSUME i >= 5, stack[t][i].function = "StartMeasurements" PROVE FALSE
    <2>1. PICK c \in DOMAIN Callee : /\ CallsAt(stack[t][i].function, stack[t][i].pc - 1, c)
                                     /\ stack[t][i - 1].function = Callee[c]
      BY <1>0, WaitingIn
    <2>2. c \in {"FirstStart", "Reactivate"}
      BY <1>4, <2>1, CallersAre
    <2>3. stack[t][i - 1].function \in {"FirstStart", "SetAndActivateSensor"}
      BY <2>1, <2>2, CalleeIs
    <2>4. i - 1 \in 2 .. n /\ i - 1 >= 4
      <3>1. i \in 2 .. n
        OBVIOUS
      <3> HIDE DEF n
      <3> QED BY <1>1, <1>4, <3>1
    <2> QED BY <1>3, <2>3, <2>4
  <1> QED BY <1>2, <1>3, <1>4

LEMMA NestsToFive ==
  ASSUME NestingInv, NEW t \in Tasks
  PROVE  Len(stack[t]) <= 5
  <1> DEFINE n == Len(stack[t])
  <1>0. StackInv
    BY OutputParts DEF NestingInv
  <1>1. n \in Nat
    <2> DEFINE calls == stack[t]
    <2>1. calls \in Seq(Frames)
      BY <1>0 DEF StackInv
    <2> HIDE DEF calls
    <2>2. Len(calls) \in Nat
      BY <2>1
    <2> QED BY <2>2 DEF calls
  <1> SUFFICES ASSUME n > 5 PROVE FALSE
    <2> HIDE DEF n
    <2>1. n > 5 \/ n <= 5
      BY <1>1
    <2> QED BY <2>1 DEF n
  <1>2. 6 \in 2 .. n /\ 5 \in 2 .. n
    <2> HIDE DEF n
    <2> QED BY <1>1
  <1>3. PICK c \in DOMAIN Callee : stack[t][6 - 1].function = Callee[c]
    BY <1>0, <1>2, WaitingIn
  <1>4. stack[t][5].function \in {"StartMeasurements", "FirstStart", "StopMeasurements",
          "SetAndActivateSensor", "Stop", "RequestResistorChangeAndCheckVout", "CalibrateSensor"}
    BY <1>3, CalleesAre
  <1> QED BY <1>2, <1>4, DeepCalls

\* StartMeasurements and SetAndActivateSensor, which call each other, are nested at
\* most twice: a stack never holds more than DeepestNesting calls.
THEOREM RecursionEnds ==
  ASSUME KeysWhileCalibrating = {}
  PROVE  Spec => []RecursionBounded
  <1>1. NestingInv => RecursionBounded
    BY NestsToFive DEF RecursionBounded, DeepestNesting
  <1>2. Spec => []NestingInv
    BY AlwaysNesting
  <1> QED BY <1>1, <1>2, PTL

-----------------------------------------------------------------------------
\* The sensor each call is about.

\* The statement a frame waits in.
Waited(t, i) == Body[stack[t][i].function][stack[t][i].pc - 1]

\* Only these two functions have a sensor as their argument.
AboutVoltage ==
  \A t \in Tasks : \A i \in 1 .. Len(stack[t]) :
    stack[t][i].function \notin {"SetAndActivateSensor", "CalibrateSensor"}
      => stack[t][i].sensor = "Voltage"

PassedOn ==
  \A t \in Tasks : \A i \in 2 .. Len(stack[t]) :
    /\ Waited(t, i) \in {"ActivateVoltage", "ActivateThis"}
         => stack[t][i - 1].sensor = stack[t][i].sensor
    /\ Waited(t, i) = "Reactivate" => stack[t][i - 1].sensor = Active

\* Where a function relies on its sensor being the active one.
Relies(f, q) ==
  \/ f = "SetAndActivateSensor" /\ q >= 5
  \/ f = "CalibrateSensor" /\ q \in 2 .. 7
  \/ f = "CalibrationTask" /\ q \in 2 .. 9
  \/ f = "RequestResistorChangeAndCheckVout" /\ q >= 5
  \/ f = "StartCalibration" /\ q \in 3 .. 4

Focused ==
  \A t \in Tasks : \A i \in 1 .. Len(stack[t]) :
    Relies(stack[t][i].function, InProgress(t, i)) => stack[t][i].sensor = Active

ArgumentInv == NestingInv /\ AboutVoltage /\ PassedOn /\ Focused

\* Only SelectSensor changes the active sensor.
LEMMA ActiveKept ==
  ASSUME DriverTypes, NEW t \in Tasks, Step(t), Statement(t) # "SelectSensor"
  PROVE  Active' = Active
  <1>1. ~SelectSensor(t)
    BY DEF SelectSensor, Assign, Does
  <1>2. DataOK
    BY DEF DriverTypes
  <1>3. state' = state => Active' = Active
    BY DEF Active
  <1> QED BY <1>1, <1>2, <1>3, StateKept, FieldsAre

LEMMA SelectsTop ==
  ASSUME StackInv, NEW t \in Tasks, stack[t] # <<>>, Statement(t) = "SelectSensor"
  PROVE  Running(t).function = "SetAndActivateSensor" /\ Running(t).pc = 4
  BY TopOfTask, SelectsFrom

LEMMA AboutVoltageAfter ==
  ASSUME OutputInv, AboutVoltage, NEW t \in Tasks, Step(t), NEW i \in 1 .. Len(stack'[t]),
         stack'[t][i].function \notin {"SetAndActivateSensor", "CalibrateSensor"}
  PROVE  stack'[t][i].sensor = "Voltage"
  <1>0. /\ DriverTypes /\ StackInv /\ stack[t] # <<>> /\ Running(t) = stack[t][1]
        /\ 1 \in 1 .. Len(stack[t])
    BY OutputParts, FramesOfStep, TopIsFirst
  <1>1. ASSUME NEW j \in 1 .. Len(stack[t]), SameFrame(t, i, j)
        PROVE  stack'[t][i].sensor = "Voltage"
    BY <1>1 DEF SameFrame, AboutVoltage
  <1>2. CASE i = 1 /\ WentInto(t)
    <2> DEFINE s == Statement(t)
    <2>1. /\ stack'[t][1].function = Callee[s] /\ s \in DOMAIN Callee
          /\ stack'[t][1].sensor = Argument(s, Running(t))
      BY <1>2 DEF WentInto, Frame
    <2> HIDE DEF s
    <2>2. s \notin {"ActivateNext", "Reactivate", "ActivateThis", "CalibrateShunt", "CalibrateClamp"}
      BY <1>2, <2>1, CalleeIs
    <2> QED BY <1>2, <2>1, <2>2 DEF Argument
  <1>3. CASE i = 1 /\ WentRound(t)
    <2>1. Running(t).function = "CalibrationTask"
      BY <1>3 DEF WentRound
    <2>2. Running(t).sensor = "Voltage"
      BY <1>0, <2>1 DEF AboutVoltage
    <2> QED BY <1>3, <2>2 DEF WentRound
  <1>4. \A j \in 2 .. Len(stack[t]) : j \in 1 .. Len(stack[t])
    <2> DEFINE n == Len(stack[t])
    <2>1. n \in Nat
      BY <1>0, FramesOfStep
    <2> HIDE DEF n
    <2>2. \A j \in 2 .. n : j \in 1 .. n
      BY <2>1
    <2> QED BY <2>2 DEF n
  <1> QED BY <1>0, <1>1, <1>2, <1>3, <1>4, FrameAfter

\* The frames below the change of sensor that selects: none of them minds.
LEMMA SelectsAlone ==
  ASSUME ArgumentInv, NEW t \in Tasks, Step(t), Statement(t) = "SelectSensor",
         NEW i \in 2 .. Len(stack[t])
  PROVE  /\ Waited(t, i) = "Reactivate" => Active' = Active
         /\ Relies(stack[t][i].function, InProgress(t, i)) => stack[t][i].sensor = Active'
  <1> DEFINE n == Len(stack[t])
             F(j) == stack[t][j].function
             Q(j) == stack[t][j].pc - 1
  <1>0. /\ NestingInv /\ OutputInv /\ DriverTypes /\ StackInv /\ DataOK /\ NotStarted
        /\ InsideFirstStart /\ stack[t] # <<>> /\ Running(t) = stack[t][1] /\ n \in Nat \ {0}
    BY OutputParts, FramesOfStep DEF ArgumentInv, NestingInv, OutputInv
  <1>1. /\ F(1) = "SetAndActivateSensor" /\ Active' = stack[t][1].sensor
    BY <1>0, SelectsTop, StatementOfStep, FieldsAre
  <1>2. /\ 2 \in 2 .. n /\ 2 \in 1 .. n /\ i \in 2 .. n /\ i \in 1 .. n /\ i # 1
        /\ i # 2 => 3 \in 2 .. n
        /\ i \notin 2 .. 3 => 4 \in 2 .. n
    <2>1. i \in 2 .. n
      OBVIOUS
    <2> HIDE DEF n
    <2> QED BY <1>0, <2>1
  <1>3. ASSUME NEW j \in 2 .. n
        PROVE  /\ Waited(t, j) \in DOMAIN Callee /\ CallsAt(F(j), Q(j), Waited(t, j))
               /\ F(j - 1) = Callee[Waited(t, j)] /\ Q(j) \in 1 .. 19 /\ stack[t][j] \in Frames
    BY <1>0, WaitingIn DEF Waited
  <1>4. InProgress(t, i) = Q(i)
    BY <1>2 DEF InProgress
  <1>5. /\ Waited(t, 2) \in DOMAIN Callee /\ CallsAt(F(2), Q(2), Waited(t, 2))
        /\ Callee[Waited(t, 2)] = "SetAndActivateSensor"
    <2>1. F(2 - 1) = "SetAndActivateSensor"
      BY <1>1
    <2> QED BY <1>2, <1>3, <2>1
  <1>6. AboutVoltage /\ PassedOn /\ Focused
    BY DEF ArgumentInv
  <1>7. CASE Waited(t, 2) = "Reactivate"
    <2>1. stack[t][2 - 1].sensor = Active
      BY <1>2, <1>6, <1>7 DEF PassedOn
    <2>2. Active' = Active
      BY <1>1, <2>1
    <2> QED BY <1>2, <1>6, <2>2 DEF Focused
  <1>8. CASE F(2) = "FirstStart"
    <2>1. state.firstStart
      BY <1>0, <1>2, <1>8 DEF InsideFirstStart
    <2>2. Waited(t, 2) = "ActivateVoltage"
      <3> DEFINE f == F(2)
                 q == Q(2)
                 c == Waited(t, 2)
      <3>1. f = "FirstStart" /\ CallsAt(f, q, c)
        BY <1>5, <1>8
      <3> HIDE DEF f, q, c
      <3>2. c = "ActivateVoltage"
        BY <3>1 DEF CallsAt
      <3> QED BY <3>2 DEF c
    <2>3. Active' = "Voltage"
      <3>1. stack[t][2 - 1].sensor = stack[t][2].sensor
        BY <1>2, <1>6, <2>2 DEF PassedOn
      <3>2. stack[t][2].sensor = "Voltage"
        BY <1>2, <1>6, <1>8 DEF AboutVoltage
      <3> QED BY <1>1, <3>1, <3>2
    <2>4. /\ stack[t][i].wasActive = FALSE
          /\ F(i) = "StartMeasurements" => stack[t][i].pc <= 2
      BY <1>0, <1>2, <2>1 DEF NotStarted
    <2>5. stack[t][i].pc \in 1 .. 20
      BY <1>2, <1>3, FrameTyped
    <2> DEFINE f == F(i)
               q == Q(i)
               c == Waited(t, i)
               p == stack[t][i].pc
    <2>6. CallsAt(f, q, c) /\ c \in DOMAIN Callee /\ q = p - 1 /\ p \in 1 .. 20
      BY <1>2, <1>3, <2>5
    <2>7. c # "Reactivate"
      <3> SUFFICES ASSUME c = "Reactivate" PROVE FALSE
        OBVIOUS
      <3>1. f = "StartMeasurements" => p <= 2
        BY <2>4
      <3> HIDE DEF f, q, c, p
      <3>2. f = "StartMeasurements" /\ q = 2
        BY <2>6 DEF CallsAt
      <3> QED BY <2>6, <3>1, <3>2
    <2>8. ASSUME Relies(f, q) PROVE stack[t][i].sensor = "Voltage"
      <3>1. f # "SetAndActivateSensor"
        <4> SUFFICES ASSUME f = "SetAndActivateSensor" PROVE FALSE
          OBVIOUS
        <4>1. Fresh(f, p)
          <5> HIDE DEF f, q, c, p
          <5>1. q = 6
            BY <2>6, <2>8 DEF CallsAt, Relies
          <5>2. p = 7
            BY <2>6, <5>1
          <5> QED BY <5>2 DEF Fresh
        <4>2. stack[t][i].wasActive
          BY <1>0, <4>1 DEF NestingInv, NestedStarts
        <4> QED BY <2>4, <4>2
      <3>2. f \notin {"CalibrateSensor", "RequestResistorChangeAndCheckVout"}
        <4> SUFFICES ASSUME f \in {"CalibrateSensor", "RequestResistorChangeAndCheckVout"} PROVE FALSE
          OBVIOUS
        <4>1. Later(f, InProgress(t, i))
          BY DEF Later
        <4> QED BY <1>0, <1>2, <2>1, <4>1 DEF NestingInv, FirstDone
      <3>3. f \notin {"SetAndActivateSensor", "CalibrateSensor"}
        BY <3>1, <3>2
      <3> QED BY <1>2, <1>6, <3>3 DEF AboutVoltage
    <2> QED BY <1>4, <2>3, <2>7, <2>8
  <1>9. CASE Waited(t, 2) # "Reactivate" /\ F(2) # "FirstStart"
    <2>1. /\ F(2) \notin {"StartMeasurements", "SetAndActivateSensor", "FirstStart", "StopMeasurements",
                          "Stop"}
          /\ ~Relies(F(2), Q(2))
      <3> DEFINE f == F(2)
                 q == Q(2)
                 c == Waited(t, 2)
      <3>1. CallsAt(f, q, c) /\ Callee[c] = "SetAndActivateSensor" /\ c # "Reactivate"
            /\ f # "FirstStart"
        BY <1>5, <1>9
      <3> HIDE DEF f, q, c
      <3>2. f \notin {"StartMeasurements", "SetAndActivateSensor", "FirstStart", "StopMeasurements", "Stop"}
        BY <3>1, CalleeIs DEF CallsAt
      <3>3. c \in {"ActivateVoltage", "ActivateThis", "ActivateNext"}
        BY <3>1, CalleeIs DEF CallsAt
      <3>4. /\ f = "CalibrateSensor" => q = 1
            /\ f = "CalibrationTask" => q = 1
            /\ f = "RequestResistorChangeAndCheckVout" => q = 4
            /\ f = "StartCalibration" => q = 2
        BY <3>1, <3>3 DEF CallsAt
      <3>5. ~Relies(f, q)
        BY <3>2, <3>4 DEF Relies
      <3> QED BY <3>2, <3>5 DEF f, q
    <2>2. CASE i = 2
      BY <1>4, <1>9, <2>1, <2>2
    <2>3. CASE i # 2
      <3>1. F(3) = "CalibrationTask" /\ Q(3) \in {12, 13, 15} /\ Waited(t, 3) # "Reactivate"
        <4> DEFINE f == F(3)
                   q == Q(3)
                   c == Waited(t, 3)
        <4>1. 3 \in 2 .. n /\ F(3 - 1) = F(2)
          BY <1>2, <2>3
        <4>2. CallsAt(f, q, c) /\ c \in DOMAIN Callee /\ F(2) = Callee[c]
          BY <1>3, <4>1
        <4>3. F(2) \in {"RequestResistorChangeAndCheckVout", "CalibrateSensor"}
          BY <2>1, <4>2, CalleesAre
        <4> HIDE DEF f, q, c
        <4>4. f = "CalibrationTask" /\ q \in {12, 13, 15}
          BY <4>2, <4>3, CallersAre
        <4>5. c # "Reactivate"
          BY <4>2, <4>4 DEF CallsAt
        <4> QED BY <4>4, <4>5 DEF f, q, c
      <3>2. i = 3
        <4> SUFFICES ASSUME i # 3 PROVE FALSE
          OBVIOUS
        <4>1. 4 \in 2 .. n /\ F(4 - 1) = F(3)
          <5>1. i \notin 2 .. 3
            <6> HIDE DEF n
            <6> QED BY <2>3
          <5> QED BY <1>2, <5>1
        <4>2. F(3) = Callee[Waited(t, 4)] /\ Waited(t, 4) \in DOMAIN Callee
          BY <1>3, <4>1
        <4> QED BY <3>1, <4>2, CalleesAre
      <3>3. ~Relies(F(3), Q(3))
        BY <3>1 DEF Relies
      <3> QED BY <1>4, <3>1, <3>2, <3>3
    <2> QED BY <2>2, <2>3
  <1> QED BY <1>7, <1>8, <1>9

LEMMA PassedOnAfter ==
  ASSUME ArgumentInv, NEW t \in Tasks, Step(t), NEW i \in 2 .. Len(stack'[t])
  PROVE  /\ Waited(t, i)' \in {"ActivateVoltage", "ActivateThis"}
              => stack'[t][i - 1].sensor = stack'[t][i].sensor
         /\ Waited(t, i)' = "Reactivate" => stack'[t][i - 1].sensor = Active'
  <1> DEFINE n == Len(stack[t])
             m == Len(stack'[t])
             W == Body[stack'[t][i].function][stack'[t][i].pc - 1]
  <1>0. /\ OutputInv /\ DriverTypes /\ StackInv /\ stack[t] # <<>> /\ Running(t) = stack[t][1]
        /\ n \in Nat \ {0} /\ AboutVoltage /\ PassedOn
        /\ WentOn(t) \/ WentInto(t) \/ WentBack(t) \/ WentRound(t)
    BY OutputParts, FramesOfStep DEF ArgumentInv, NestingInv
  <1>1. Waited(t, i)' = W
    BY DEF Waited
  <1>2. ASSUME NEW j \in 2 .. n, stack'[t][i] = stack[t][j],
               stack'[t][i - 1].sensor = stack[t][j - 1].sensor
        PROVE  /\ W \in {"ActivateVoltage", "ActivateThis"}
                    => stack'[t][i - 1].sensor = stack'[t][i].sensor
               /\ W = "Reactivate" => stack'[t][i - 1].sensor = Active'
    <2>1. W = Waited(t, j)
      BY <1>2 DEF Waited
    <2>2. W = "Reactivate" => Active' = Active
      <3>1. CASE Statement(t) = "SelectSensor"
        BY <2>1, <3>1, SelectsAlone
      <3>2. CASE Statement(t) # "SelectSensor"
        BY <1>0, <3>2, ActiveKept
      <3> QED BY <3>1, <3>2
    <2> HIDE DEF W
    <2> QED BY <1>0, <1>2, <2>1, <2>2 DEF PassedOn
  <1>3. CASE WentOn(t)
    <2>1. m = n /\ Onward(t, stack'[t][1]) /\ \A j \in 2 .. n : stack'[t][j] = stack[t][j]
      BY <1>3 DEF WentOn
    <2>2. i \in 2 .. n /\ (i # 2 => i - 1 \in 2 .. n) /\ (i = 2 => i - 1 = 1)
      <3>1. i \in 2 .. m
        OBVIOUS
      <3> HIDE DEF m, n
      <3> QED BY <1>0, <2>1, <3>1
    <2>3. stack'[t][1].sensor = stack[t][1].sensor
      BY <1>0, <2>1 DEF Onward
    <2>4. stack'[t][i - 1].sensor = stack[t][i - 1].sensor
      <3>1. CASE i = 2
        BY <2>2, <2>3, <3>1
      <3>2. CASE i # 2
        BY <2>1, <2>2, <3>2
      <3> QED BY <3>1, <3>2
    <2> QED BY <1>1, <1>2, <2>1, <2>2, <2>4
  <1>4. CASE WentInto(t)
    <2> DEFINE s == Statement(t)
    <2>1. /\ stack'[t][1] = Frame(Callee[s], Argument(s, Running(t))) /\ Onward(t, stack'[t][2])
          /\ m = n + 1 /\ \A j \in 3 .. m : stack'[t][j] = stack[t][j - 1]
          /\ s \in DOMAIN Callee
      BY <1>4 DEF WentInto
    <2>2. /\ i # 2 => i \in 3 .. m /\ i - 1 \in 2 .. n
          /\ i \notin 2 .. 3 => i - 1 \in 3 .. m /\ i - 1 - 1 \in 1 .. n
          /\ i = 3 => i - 1 = 2 /\ i - 1 - 1 = 1
          /\ i = 2 => i - 1 = 1
      <3>1. i \in 2 .. m
        OBVIOUS
      <3> HIDE DEF m, n
      <3> QED BY <1>0, <2>1, <3>1
    <2>3. CASE i # 2
      <3> DEFINE j == i - 1
      <3>1. j \in 2 .. n /\ stack'[t][i] = stack[t][j]
        BY <2>1, <2>2, <2>3
      <3>2. stack'[t][j].sensor = stack[t][j - 1].sensor
        <4>1. CASE i = 3
          <5>1. stack'[t][2].sensor = stack[t][1].sensor
            BY <1>0, <2>1 DEF Onward
          <5> QED BY <2>2, <4>1, <5>1
        <4>2. CASE i # 3
          <5>1. i \notin 2 .. 3
            BY <2>3, <4>2
          <5>2. stack'[t][j] = stack[t][j - 1]
            BY <2>1, <2>2, <5>1
          <5> QED BY <5>2
        <4> QED BY <4>1, <4>2
      <3> QED BY <1>1, <1>2, <3>1, <3>2
    <2>4. CASE i = 2
      <3>1. /\ stack'[t][2].function = Running(t).function /\ stack'[t][2].sensor = Running(t).sensor
            /\ stack'[t][2].pc = Running(t).pc + 1
            /\ stack'[t][1].sensor = Argument(s, Running(t))
        BY <2>1 DEF Onward, Frame
      <3>2. W = s
        <4>1. stack'[t][2].pc - 1 = Running(t).pc
          <5> DEFINE k == Running(t).pc
                     l == stack'[t][2].pc
          <5>1. k \in 1 .. 20 /\ l = k + 1
            BY <1>0, <3>1, TopOfTask
          <5> HIDE DEF k, l
          <5>2. l - 1 = k
            BY <5>1
          <5> QED BY <5>2 DEF k, l
        <4> QED BY <2>4, <3>1, <4>1 DEF Statement
      <3>3. Active' = Active
        <4>1. s # "SelectSensor"
          BY <2>1 DEF Callee
        <4> QED BY <1>0, <4>1, ActiveKept
      <3>4. CallsAt(Running(t).function, Running(t).pc, s)
        BY <1>0, <2>1, RunningCalls
      <3>5. s = "ActivateVoltage" => Running(t).sensor = "Voltage"
        <4> DEFINE f == Running(t).function
                   p == Running(t).pc
        <4>1. s = "ActivateVoltage" => f \notin {"SetAndActivateSensor", "CalibrateSensor"}
          <5> HIDE DEF f, p, s
          <5>1. CallsAt(f, p, s)
            BY <3>4 DEF f, p
          <5> QED BY <5>1 DEF CallsAt
        <4>2. 1 \in 1 .. n
          <5> HIDE DEF n
          <5> QED BY <1>0
        <4> QED BY <1>0, <4>1, <4>2 DEF AboutVoltage
      <3> HIDE DEF W, s
      <3>6. /\ W \in {"ActivateVoltage", "ActivateThis"} => stack'[t][1].sensor = stack'[t][2].sensor
            /\ W = "Reactivate" => stack'[t][1].sensor = Active'
        BY <3>1, <3>2, <3>3, <3>5 DEF Argument, Active
      <3> QED BY <1>1, <2>2, <2>4, <3>6
    <2> QED BY <2>3, <2>4
  <1>5. CASE WentBack(t)
    <2>1. m = n - 1 /\ \A j \in 1 .. m : stack'[t][j] = stack[t][j + 1]
      BY <1>5 DEF WentBack
    <2> DEFINE j == i + 1
    <2>2. j \in 2 .. n /\ i \in 1 .. m /\ i - 1 \in 1 .. m /\ j - 1 = i - 1 + 1
      <3>1. i \in 2 .. m
        OBVIOUS
      <3> HIDE DEF m, n
      <3> QED BY <1>0, <2>1, <3>1
    <2>3. stack'[t][i] = stack[t][j] /\ stack'[t][i - 1] = stack[t][j - 1]
      BY <2>1, <2>2
    <2> QED BY <1>1, <1>2, <2>2, <2>3
  <1>6. CASE WentRound(t)
    <2>1. m = 1 /\ i \in 2 .. m
      BY <1>6 DEF WentRound
    <2> HIDE DEF m
    <2> QED BY <2>1
  <1> QED BY <1>0, <1>3, <1>4, <1>5, <1>6

LEMMA FocusedAfter ==
  ASSUME ArgumentInv, NEW t \in Tasks, Step(t), NEW i \in 1 .. Len(stack'[t]),
         Relies(stack'[t][i].function, InProgress(t, i)')
  PROVE  stack'[t][i].sensor = Active'
  <1> DEFINE f == stack'[t][i].function
             q == InProgress(t, i)'
             n == Len(stack[t])
  <1>0. /\ OutputInv /\ DriverTypes /\ StackInv /\ stack[t] # <<>> /\ Running(t) = stack[t][1]
        /\ n \in Nat \ {0} /\ AboutVoltage /\ PassedOn /\ Focused
        /\ WentOn(t) \/ WentInto(t) \/ WentBack(t) \/ WentRound(t)
    BY OutputParts, FramesOfStep DEF ArgumentInv, NestingInv
  <1>1. CASE Statement(t) = "SelectSensor"
    <2>1. WentOn(t)
      BY <1>0, <1>1, SelectsTop DEF WentInto, WentBack, WentRound, Callee
    <2>2. /\ Len(stack'[t]) = n /\ Onward(t, stack'[t][1])
          /\ \A j \in 2 .. n : stack'[t][j] = stack[t][j]
      BY <2>1 DEF WentOn
    <2>3. CASE i = 1
      <3>1. Active' = Running(t).sensor
        BY <1>0, <1>1, StatementOfStep, FieldsAre DEF DriverTypes
      <3> QED BY <2>2, <2>3, <3>1 DEF Onward
    <2>4. CASE i # 1
      <3>1. i \in 2 .. n
        <4>1. i \in 1 .. n
          BY <2>2
        <4> HIDE DEF n
        <4> QED BY <1>0, <2>4, <4>1
      <3>2. stack'[t][i] = stack[t][i] /\ InProgress(t, i)' = InProgress(t, i)
        BY <2>2, <2>4, <3>1 DEF InProgress
      <3> QED BY <1>1, <3>1, <3>2, SelectsAlone
    <2> QED BY <2>3, <2>4
  <1>2. CASE Statement(t) # "SelectSensor"
    <2>0. Active' = Active
      BY <1>0, <1>2, ActiveKept
    <2>1. ASSUME NEW j \in 1 .. n, SameFrame(t, i, j), Relies(stack[t][j].function, InProgress(t, j))
          PROVE  stack'[t][i].sensor = Active'
      BY <1>0, <2>0, <2>1 DEF Focused, SameFrame
    <2>2. CASE \E j \in 1 .. n : SameFrame(t, i, j) /\ InProgress(t, i)' = InProgress(t, j)
      <3>1. PICK j \in 1 .. n : SameFrame(t, i, j) /\ InProgress(t, i)' = InProgress(t, j)
        BY <2>2
      <3>2. f = stack[t][j].function /\ q = InProgress(t, j) /\ Relies(f, q)
        BY <3>1 DEF SameFrame
      <3> HIDE DEF f, q
      <3>3. Relies(stack[t][j].function, InProgress(t, j))
        BY <3>2
      <3> QED BY <2>1, <3>1, <3>3
    <2>3. 1 \in 1 .. n /\ InProgress(t, 1) = Running(t).pc
      BY <1>0, TopIsFirst DEF InProgress
    <2>4. CASE i = 1 /\ WentOn(t) /\ SameFrame(t, 1, 1) /\ InProgress(t, 1)' = InProgress(t, 1) + 1
      <3> DEFINE g == Running(t).function
                 k == Running(t).pc
      <3>1. f = g /\ q = k + 1 /\ k \in 1 .. 20 /\ Relies(f, q) /\ Statement(t) = Body[g][k]
        BY <1>0, <2>3, <2>4, TopOfTask DEF SameFrame
      <3>2. ~(Statement(t) \in DOMAIN Callee /\ Made(Statement(t), Running(t)))
        BY <2>4 DEF WentOn
      <3>3. Statement(t) \notin {"ActivateVoltage", "ActivateThis"}
        BY <3>2 DEF Made, Callee
      <3>4. /\ Body["SetAndActivateSensor"][4] = "SelectSensor"
            /\ Body["CalibrateSensor"][1] = "ActivateThis"
            /\ Body["CalibrationTask"][1] = "ActivateVoltage"
            /\ Body["RequestResistorChangeAndCheckVout"][4] = "ActivateVoltage"
            /\ Body["StartCalibration"][2] = "ActivateVoltage"
        BY DEF Body, SetAndActivateSensor, CalibrateSensor, CalibrationTask,
               RequestResistorChangeAndCheckVout, StartCalibration
      <3>5. Relies(g, k)
        <4> HIDE DEF f, q, g, k
        <4>1. /\ g = "SetAndActivateSensor" => k # 4
              /\ g = "CalibrateSensor" => k # 1
              /\ g = "CalibrationTask" => k # 1
              /\ g = "RequestResistorChangeAndCheckVout" => k # 4
              /\ g = "StartCalibration" => k # 2
          BY <1>2, <3>1, <3>3, <3>4
        <4>2. Relies(g, k + 1)
          BY <3>1
        <4>3. CASE g = "SetAndActivateSensor"
          <5>1. k + 1 >= 5
            BY <4>2, <4>3 DEF Relies
          <5>2. k >= 5
            BY <3>1, <4>1, <4>3, <5>1
          <5> QED BY <4>3, <5>2 DEF Relies
        <4>4. CASE g = "CalibrateSensor"
          <5>1. k + 1 \in 2 .. 7
            BY <4>2, <4>4 DEF Relies
          <5>2. k \in 2 .. 7
            BY <3>1, <4>1, <4>4, <5>1
          <5> QED BY <4>4, <5>2 DEF Relies
        <4>5. CASE g = "CalibrationTask"
          <5>1. k + 1 \in 2 .. 9
            BY <4>2, <4>5 DEF Relies
          <5>2. k \in 2 .. 9
            BY <3>1, <4>1, <4>5, <5>1
          <5> QED BY <4>5, <5>2 DEF Relies
        <4>6. CASE g = "RequestResistorChangeAndCheckVout"
          <5>1. k + 1 >= 5
            BY <4>2, <4>6 DEF Relies
          <5>2. k >= 5
            BY <3>1, <4>1, <4>6, <5>1
          <5> QED BY <4>6, <5>2 DEF Relies
        <4>7. CASE g = "StartCalibration"
          <5>1. k + 1 \in 3 .. 4
            BY <4>2, <4>7 DEF Relies
          <5>2. k \in 3 .. 4
            BY <3>1, <4>1, <4>7, <5>1
          <5> QED BY <4>7, <5>2 DEF Relies
        <4> QED BY <4>2, <4>3, <4>4, <4>5, <4>6, <4>7 DEF Relies
      <3> HIDE DEF f, q
      <3>6. Relies(stack[t][1].function, InProgress(t, 1))
        BY <1>0, <2>3, <3>5
      <3> QED BY <2>1, <2>3, <2>4, <3>6
    <2>5. CASE /\ i = 1 /\ WentBack(t) /\ 2 \in 2 .. n /\ SameFrame(t, 1, 2)
               /\ InProgress(t, 1)' = InProgress(t, 2) + 1
      <3> DEFINE g == stack[t][2].function
                 k == InProgress(t, 2)
                 c == Waited(t, 2)
      <3>1. /\ CallsAt(g, k, c) /\ c \in DOMAIN Callee /\ stack[t][2 - 1].function = Callee[c]
            /\ k \in 1 .. 19
        BY <1>0, <2>5, WaitingIn DEF Waited, InProgress
      <3>2. f = g /\ q = k + 1 /\ Relies(f, q)
        BY <2>5 DEF SameFrame
      <3>3. CASE Relies(g, k)
        <4>1. 2 \in 1 .. n
          <5> HIDE DEF n
          <5> QED BY <1>0, <2>5
        <4> QED BY <2>1, <2>5, <3>3, <4>1
      <3>4. CASE ~Relies(g, k)
        <4>1. c \in {"ActivateVoltage", "ActivateThis"}
          <5> HIDE DEF f, q, g, k, c
          <5>1. Relies(g, k + 1)
            BY <3>2
          <5>2. /\ k + 1 \in 2 .. 7 => k \in 2 .. 7 \/ k = 1
                /\ k + 1 \in 2 .. 9 => k \in 2 .. 9 \/ k = 1
                /\ k + 1 >= 5 => k >= 5 \/ k = 4
                /\ k + 1 \in 3 .. 4 => k \in 3 .. 4 \/ k = 2
            BY <3>1
          <5>3. \/ g = "CalibrateSensor" /\ k = 1
                \/ g = "CalibrationTask" /\ k = 1
                \/ g = "RequestResistorChangeAndCheckVout" /\ k = 4
                \/ g = "StartCalibration" /\ k = 2
                \/ g = "SetAndActivateSensor" /\ k = 4
            <6> DEFINE l == k + 1
            <6>1. Relies(g, l)
              BY <5>1
            <6>2. /\ l \in 2 .. 7 => k \in 2 .. 7 \/ k = 1
                  /\ l \in 2 .. 9 => k \in 2 .. 9 \/ k = 1
                  /\ l >= 5 => k >= 5 \/ k = 4
                  /\ l \in 3 .. 4 => k \in 3 .. 4 \/ k = 2
              BY <5>2
            <6> HIDE DEF l
            <6> QED BY <3>4, <6>1, <6>2 DEF Relies
          <5> QED BY <3>1, <5>3 DEF CallsAt
        <4>2. stack[t][2 - 1].sensor = stack[t][2].sensor
          BY <1>0, <2>5, <4>1 DEF PassedOn
        <4>3. Running(t).function = "SetAndActivateSensor" /\ Running(t).pc = 7
          <5>1. Running(t).function = "SetAndActivateSensor"
            BY <1>0, <3>1, <4>1, CalleeIs
          <5> QED BY <2>5, <5>1 DEF WentBack, Body, SetAndActivateSensor
        <4>4. stack[t][1].sensor = Active
          BY <1>0, <2>3, <4>3 DEF Focused, Relies
        <4> QED BY <2>0, <2>5, <4>2, <4>4 DEF SameFrame
      <3> QED BY <3>3, <3>4
    <2>6. CASE i = 1 /\ WentInto(t)
      <3>1. q = 1
        BY <2>6 DEF WentInto, Frame, InProgress
      <3> QED BY <3>1 DEF Relies
    <2>7. CASE i = 1 /\ WentRound(t)
      <3>1. f = "CalibrationTask" /\ q \in {1, 12}
        BY <2>7 DEF WentRound, InProgress
      <3> QED BY <3>1 DEF Relies
    <2> QED BY <1>0, <2>2, <2>4, <2>5, <2>6, <2>7, FrameAfter
  <1> QED BY <1>1, <1>2

\* The frames of the task that waits, whose active sensor the other one may change.
LEMMA OthersRelyOnNothing ==
  ASSUME OutputInv, [Next]_vars, NEW t \in Tasks, ~Step(t), stack'[t] = stack[t]
  PROVE  /\ \A i \in 1 .. Len(stack[t]) :
              Relies(stack[t][i].function, InProgress(t, i)) => Active' = Active
         /\ \A i \in 2 .. Len(stack[t]) : Waited(t, i) = "Reactivate" => Active' = Active
  <1>0. DriverTypes /\ StackInv
    BY OutputParts
  <1>1. CASE \E u \in Tasks : Step(u) /\ Statement(u) = "SelectSensor"
    <2>1. PICK u \in Tasks : Step(u) /\ Statement(u) = "SelectSensor"
      BY <1>1
    <2>2. u = Actor
      <3>1. Running(u).function = "SetAndActivateSensor" /\ stack[u] # <<>>
        BY <1>0, <2>1, SelectsTop, FramesOfStep
      <3> QED BY <2>1, <3>1, WhoActs DEF At
    <2>3. t # Actor
      BY <2>1, <2>2
    <2>4. \A i \in 1 .. Len(stack[t]) : ~Relies(stack[t][i].function, InProgress(t, i))
      <3> SUFFICES ASSUME NEW i \in 1 .. Len(stack[t])
                   PROVE  ~Relies(stack[t][i].function, InProgress(t, i))
        OBVIOUS
      <3>1. CASE i = 1
        BY <2>3, <3>1, OtherFrames DEF InProgress, Relies
      <3>2. CASE i # 1
        <4>1. stack[t][i].function = "CalibrationTask" /\ stack[t][i].pc = 20
          BY <2>3, <3>2, OtherFrames
        <4>2. InProgress(t, i) = 19
          BY <3>2, <4>1 DEF InProgress
        <4> QED BY <4>1, <4>2 DEF Relies
      <3> QED BY <3>1, <3>2
    <2>5. ASSUME NEW i \in 2 .. Len(stack[t]) PROVE Waited(t, i) # "Reactivate"
      <3>1. i \in 1 .. Len(stack[t]) /\ i # 1
        <4> DEFINE n == Len(stack[t])
        <4>1. n \in Nat /\ i \in 2 .. n
          <5> DEFINE calls == stack[t]
          <5>1. calls \in Seq(Frames)
            BY <1>0 DEF StackInv
          <5> HIDE DEF calls
          <5>2. Len(calls) \in Nat
            BY <5>1
          <5> QED BY <2>5, <5>2 DEF calls
        <4> HIDE DEF n
        <4>2. i \in 1 .. n /\ i # 1
          BY <4>1
        <4> QED BY <4>2 DEF n
      <3>2. stack[t][i].function = "CalibrationTask" /\ stack[t][i].pc = 20
        BY <2>3, <3>1, OtherFrames
      <3>3. Waited(t, i) = Body["CalibrationTask"][19]
        BY <3>2 DEF Waited
      <3> QED BY <3>3 DEF Body, CalibrationTask
    <2> QED BY <2>4, <2>5
  <1>2. CASE ~ \E u \in Tasks : Step(u) /\ Statement(u) = "SelectSensor"
    <2>1. Active' = Active
      <3>1. CASE \E u \in Tasks : Step(u)
        BY <1>0, <1>2, <3>1, ActiveKept
      <3>2. CASE ~ \E u \in Tasks : Step(u)
        BY <3>2, QuietSteps DEF Next, SameOutput
      <3> QED BY <3>1, <3>2
    <2> QED BY <2>1
  <1> QED BY <1>1, <1>2

LEMMA KeepsArguments ==
  ASSUME ArgumentInv, [Next]_vars
  PROVE  AboutVoltage' /\ PassedOn' /\ Focused'
  <1>0. OutputInv /\ DriverTypes /\ StackInv
    BY OutputParts DEF ArgumentInv, NestingInv
  <1>1. AboutVoltage'
    <2> SUFFICES ASSUME NEW t \in Tasks, NEW i \in 1 .. Len(stack'[t]),
                        stack'[t][i].function \notin {"SetAndActivateSensor", "CalibrateSensor"}
                 PROVE  stack'[t][i].sensor = "Voltage"
      BY DEF AboutVoltage
    <2>1. CASE Step(t)
      BY <1>0, <2>1, AboutVoltageAfter DEF ArgumentInv
    <2>2. CASE stack'[t] = stack[t]
      BY <2>2 DEF ArgumentInv, AboutVoltage
    <2>3. CASE t = "keyboard" /\ \E operation \in Keys : PressKey(operation)
      <3>1. Len(stack'[t]) = 1 /\ stack'[t][1].sensor = "Voltage"
        BY <1>0, <2>3, PressedKey
      <3>2. i = 1
        <4> DEFINE m == Len(stack'[t])
        <4>1. i \in 1 .. m /\ m = 1
          BY <3>1
        <4> HIDE DEF m
        <4> QED BY <4>1
      <3> QED BY <3>1, <3>2
    <2> QED BY <1>0, <2>1, <2>2, <2>3, WhoseStack
  <1>2. PassedOn'
    <2> SUFFICES ASSUME NEW t \in Tasks, NEW i \in 2 .. Len(stack'[t])
                 PROVE  /\ Waited(t, i)' \in {"ActivateVoltage", "ActivateThis"}
                             => stack'[t][i - 1].sensor = stack'[t][i].sensor
                        /\ Waited(t, i)' = "Reactivate" => stack'[t][i - 1].sensor = Active'
      BY DEF PassedOn
    <2>1. CASE Step(t)
      BY <2>1, PassedOnAfter
    <2>2. CASE ~Step(t) /\ stack'[t] = stack[t]
      <3>1. Waited(t, i)' = Waited(t, i) /\ i \in 2 .. Len(stack[t])
        BY <2>2 DEF Waited
      <3>2. Waited(t, i) = "Reactivate" => Active' = Active
        BY <1>0, <2>2, <3>1, OthersRelyOnNothing
      <3> QED BY <2>2, <3>1, <3>2 DEF ArgumentInv, PassedOn
    <2>3. CASE t = "keyboard" /\ \E operation \in Keys : PressKey(operation)
      <3> DEFINE m == Len(stack'[t])
      <3>1. m = 1 /\ i \in 2 .. m
        BY <1>0, <2>3, PressedKey
      <3> HIDE DEF m
      <3> QED BY <3>1
    <2> QED BY <1>0, <2>1, <2>2, <2>3, WhoseStack
  <1>3. Focused'
    <2> SUFFICES ASSUME NEW t \in Tasks, NEW i \in 1 .. Len(stack'[t]),
                        Relies(stack'[t][i].function, InProgress(t, i)')
                 PROVE  stack'[t][i].sensor = Active'
      BY DEF Focused
    <2>1. CASE Step(t)
      BY <2>1, FocusedAfter
    <2>2. CASE ~Step(t) /\ stack'[t] = stack[t]
      <3>1. /\ InProgress(t, i)' = InProgress(t, i) /\ i \in 1 .. Len(stack[t])
            /\ stack'[t][i] = stack[t][i]
        BY <2>2 DEF InProgress
      <3>2. Relies(stack[t][i].function, InProgress(t, i))
        BY <3>1
      <3>3. Active' = Active
        BY <1>0, <2>2, <3>1, <3>2, OthersRelyOnNothing
      <3> QED BY <3>1, <3>2, <3>3 DEF ArgumentInv, Focused
    <2>3. CASE t = "keyboard" /\ \E operation \in Keys : PressKey(operation)
      <3>1. Len(stack'[t]) = 1 /\ stack'[t][1].pc = 1
        BY <1>0, <2>3, PressedKey
      <3>2. i = 1
        <4> DEFINE m == Len(stack'[t])
        <4>1. i \in 1 .. m /\ m = 1
          BY <3>1
        <4> HIDE DEF m
        <4> QED BY <4>1
      <3>3. InProgress(t, i)' = 1
        BY <3>1, <3>2 DEF InProgress
      <3> QED BY <3>3 DEF Relies
    <2> QED BY <1>0, <2>1, <2>2, <2>3, WhoseStack
  <1> QED BY <1>1, <1>2, <1>3

LEMMA InitArguments == Init => AboutVoltage /\ PassedOn /\ Focused
  <1> SUFFICES ASSUME Init PROVE AboutVoltage /\ PassedOn /\ Focused
    OBVIOUS
  <1>1. AboutVoltage
    BY FramesAtFirst DEF AboutVoltage
  <1>2. ASSUME NEW t \in Tasks, NEW i \in 2 .. Len(stack[t]) PROVE FALSE
    <2> DEFINE n == Len(stack[t])
    <2>1. n \in Nat
      <3> DEFINE calls == stack[t]
      <3>1. calls \in Seq(Frames)
        BY InitOutput, OutputParts DEF StackInv
      <3> HIDE DEF calls
      <3>2. Len(calls) \in Nat
        BY <3>1
      <3> QED BY <3>2 DEF calls
    <2>2. i \in 2 .. n
      BY <1>2
    <2> HIDE DEF n
    <2>3. i \in 1 .. n /\ i # 1
      BY <2>1, <2>2
    <2> QED BY <2>3, FramesAtFirst DEF n
  <1>3. PassedOn
    BY <1>2 DEF PassedOn
  <1>4. Focused
    BY FramesAtFirst DEF Focused, InProgress, Relies
  <1> QED BY <1>1, <1>3, <1>4

LEMMA AlwaysArguments ==
  ASSUME KeysWhileCalibrating = {}
  PROVE  Spec => []ArgumentInv
  <1>1. Spec => []NestingInv
    BY AlwaysNesting
  <1>2. Init => AboutVoltage /\ PassedOn /\ Focused
    BY InitArguments
  <1>3. NestingInv /\ AboutVoltage /\ PassedOn /\ Focused /\ [Next]_vars
          => AboutVoltage' /\ PassedOn' /\ Focused'
    BY KeepsArguments DEF ArgumentInv
  <1> QED BY <1>1, <1>2, <1>3, PTL DEF Spec, ArgumentInv

-----------------------------------------------------------------------------
\* The ADC.

GainServes == AtItsLevel(Active)
Serves == adc.input = Active /\ GainServes

SameServing ==
  /\ adc'.input = adc.input /\ adc'.gain = adc.gain /\ Active' = Active
  /\ \A s \in Sensors : sensor'[s].gain = sensor[s].gain /\ sensor'[s].preamp = sensor[s].preamp

\* The statements of a gain key that write.
KeyWrites == {"ProgramPreamp", "ProgramAdc", "StoreLevel"}

\* The statements that change a level, what it sets, the ADC's inputs or the active sensor.
Adjusts == {"SelectSensor", "EnableActive", "DisableActive", "AllCalibration", "CalibrateVoltage",
            "VoltageNormal", "SetLevel", "ShuntMinGain", "ClampMinGain"} \cup KeyWrites

LEMMA AdjustsAt ==
  ASSUME NEW f \in Functions, NEW p \in 1 .. Len(Body[f])
  PROVE  /\ Body[f][p] = "EnableActive" => f = "SetAndActivateSensor" /\ p = 5
         /\ Body[f][p] = "DisableActive" => \/ f = "SetAndActivateSensor" /\ p = 3
                                            \/ f = "StopMeasurements" /\ p = 3
         /\ Body[f][p] = "SelectSensor" => f = "SetAndActivateSensor" /\ p = 4
         /\ Body[f][p] = "AllCalibration" => f = "StartCalibration" /\ p = 3
         /\ Body[f][p] = "CalibrateVoltage" => f = "CalibrationTask" /\ p = 2
         /\ Body[f][p] = "VoltageNormal" => f = "RequestResistorChangeAndCheckVout" /\ p = 3
         /\ Body[f][p] = "SetLevel" => f = "CalibrateSensor" /\ p = 2
         /\ Body[f][p] = "ShuntMinGain" => f = "CalibrationTask" /\ p = 14
         /\ Body[f][p] = "ClampMinGain" => f = "CalibrationTask" /\ p = 16
         /\ Body[f][p] \in KeyWrites => f \in {"IncreaseGain", "DecreaseGain"}
         /\ Body[f][p] = "ProgramPreamp" => p = 2
         /\ Body[f][p] = "ProgramAdc" => p = 3
         /\ Body[f][p] = "StoreLevel" => p = 4
         /\ Body[f][p] = "StartAdc" => f = "FirstStart" /\ p = 2
         /\ Body[f][p] = "StableData" => \/ f = "CalibrationTask" /\ p = 7
                                         \/ f = "RequestResistorChangeAndCheckVout" /\ p = 7
                                         \/ f = "CalibrateSensor" /\ p = 6
         /\ Body[f][p] = "StoreVoltage" => f = "CalibrationTask" /\ p = 9
         /\ Body[f][p] = "StoreReading" => f = "CalibrateSensor" /\ p = 9
  <1>1. CASE f = "StartMeasurements"
    BY <1>1 DEF Body, StartMeasurements, KeyWrites
  <1>2. CASE f = "FirstStart"
    BY <1>2 DEF Body, FirstStart, KeyWrites
  <1>3. CASE f = "StopMeasurements"
    BY <1>3 DEF Body, StopMeasurements, KeyWrites
  <1>4. CASE f = "SetAndActivateSensor"
    BY <1>4 DEF Body, SetAndActivateSensor, KeyWrites
  <1>5. CASE f = "StartNormalModeOperation"
    BY <1>5 DEF Body, StartNormalModeOperation, KeyWrites
  <1>6. CASE f = "StartCalibration"
    BY <1>6 DEF Body, StartCalibration, KeyWrites
  <1>7. CASE f = "Stop"
    BY <1>7 DEF Body, Stop, KeyWrites
  <1>8. CASE f = "SwitchToNextSensor"
    BY <1>8 DEF Body, SwitchToNextSensor, KeyWrites
  <1>9. CASE f \in {"DisableAGC", "IncreaseGain", "DecreaseGain"}
    <2>1. CASE f = "DisableAGC"
      BY <2>1 DEF Body, KeyWrites
    <2>2. CASE f = "IncreaseGain"
      BY <2>2 DEF Body, IncreaseGain, KeyWrites
    <2>3. CASE f = "DecreaseGain"
      BY <2>3 DEF Body, DecreaseGain, KeyWrites
    <2> QED BY <1>9, <2>1, <2>2, <2>3
  <1>10. CASE f = "CalibrationTask"
    BY <1>10 DEF Body, CalibrationTask, KeyWrites
  <1>11. CASE f = "RequestResistorChangeAndCheckVout"
    BY <1>11 DEF Body, RequestResistorChangeAndCheckVout, KeyWrites
  <1>12. CASE f = "CalibrateSensor"
    BY <1>12 DEF Body, CalibrateSensor, KeyWrites
  <1> QED BY FunctionsAre, <1>1, <1>2, <1>3, <1>4, <1>5, <1>6, <1>7, <1>8, <1>9, <1>10, <1>11, <1>12

LEMMA ServingKept ==
  ASSUME DriverTypes, NEW t \in Tasks, Step(t), Statement(t) \notin Adjusts
  PROVE  SameServing
  <1>0. /\ sensor \in [Sensors -> Controllers] /\ \A s \in Sensors : sensor[s] \in Controllers
        /\ Active \in Sensors
        /\ adc \in [on : BOOLEAN, gain : 1 .. 2 \cup Levels, input : Sensors]
    BY SensorTyped DEF DriverTypes
  <1>1. Active' = Active
    BY ActiveKept DEF Adjusts
  <1>2. /\ ~EnableActive(t) /\ ~DisableActive(t) /\ ~AllCalibration(t) /\ ~CalibrateVoltage(t)
        /\ ~VoltageNormal(t) /\ ~SetLevel(t) /\ ~ShuntMinGain(t) /\ ~ClampMinGain(t)
        /\ ~ProgramPreamp(t) /\ ~ProgramAdc(t) /\ ~StoreLevel(t)
    BY DEF EnableActive, DisableActive, AllCalibration, CalibrateVoltage, VoltageNormal, SetLevel,
           Adjust, ShuntMinGain, ClampMinGain, MinGain, ProgramPreamp, ProgramAdc, StoreLevel,
           TakeNewGain, Does, Adjusts, KeyWrites
  <1>3. CASE Control(t)
    BY <1>1, <1>3 DEF Control, Call, Return, Loop, Delay, SameServing
  <1>4. CASE Hardware(t)
    <2>1. adc'.input = adc.input /\ adc'.gain = adc.gain
      BY <1>0, <1>4 DEF Hardware, PowerOn, PowerOff, RelayOn, RelayOff, GeneratorOff, Switch,
                        AdcAndGeneratorOn, StartAdc, StopAdc, SwitchAdc
    <2>2. sensor' = sensor
      BY <1>4 DEF Hardware, PowerOn, PowerOff, RelayOn, RelayOff, GeneratorOff, Switch,
                  AdcAndGeneratorOn, StartAdc, StopAdc, SwitchAdc
    <2> QED BY <1>1, <2>1, <2>2 DEF SameServing
  <1>5. CASE Fields(t)
    <2>1. sensor' = sensor /\ adc' = adc
      BY <1>5 DEF Fields, ReadActive, SelectSensor, SetActive, ClearActive, ClearFirstStart,
                  SetNormal, SetCalibration, Assign
    <2> QED BY <1>1, <2>1 DEF SameServing
  <1>6. CASE CalibrationSteps(t)
    <2>1. sensor' = sensor /\ adc' = adc
      BY <1>6 DEF CalibrationSteps, Ask, TakeAnswer, StableData, StoreVoltage, StoreReading, Store,
                  FirstLevel, NextLevel, SuspendCalibration, ResumeCalibration
    <2> QED BY <1>1, <2>1 DEF SameServing
  <1>7. CASE SensorSteps(t)
    <2>1. CASE AllNormal(t)
      <3>1. \A s \in Sensors :
              /\ [sensor[s] EXCEPT !.mode = "Normal", !.agc = HasAGC(s)].gain = sensor[s].gain
              /\ [sensor[s] EXCEPT !.mode = "Normal", !.agc = HasAGC(s)].preamp = sensor[s].preamp
        BY <1>0 DEF Controllers
      <3> QED BY <1>1, <2>1, <3>1 DEF AllNormal, SameServing
    <2>2. CASE TurnAgcOff(t)
      <3> DEFINE new == [sensor[Active] EXCEPT !.agc = FALSE]
      <3>1. sensor' = [sensor EXCEPT ![Active] = new] /\ adc' = adc
        BY <1>0, <2>2 DEF TurnAgcOff
      <3>2. new.gain = sensor[Active].gain /\ new.preamp = sensor[Active].preamp
        BY <1>0 DEF Controllers
      <3> HIDE DEF new
      <3> QED BY <1>0, <1>1, <3>1, <3>2 DEF SameServing
    <2> QED BY <1>2, <1>7, <2>1, <2>2 DEF SensorSteps
  <1>8. CASE GainKeySteps(t)
    <2>1. ChooseHigher(t) \/ ChooseLower(t)
      BY <1>2, <1>8 DEF GainKeySteps
    <2>2. sensor' = sensor /\ adc' = adc
      BY <2>1 DEF ChooseHigher, ChooseLower, ChooseLevel
    <2> QED BY <1>1, <2>2 DEF SameServing
  <1> QED BY <1>3, <1>4, <1>5, <1>6, <1>7, <1>8 DEF Step

LEMMA ServingStays ==
  ASSUME DataOK, SameServing
  PROVE  (GainServes <=> GainServes') /\ (Serves => Serves')
  <1>1. /\ sensor'[Active'].gain = sensor[Active].gain /\ Active' = Active
        /\ sensor'[Active'].preamp = sensor[Active].preamp
    BY StateTyped DEF SameServing
  <1>2. GainServes <=> GainServes'
    BY <1>1 DEF GainServes, AtItsLevel, SameServing
  <1> QED BY <1>2 DEF Serves, SameServing

\* What the other statements do.
LEMMA GainOf ==
  ASSUME DataOK, NEW s \in Sensors, NEW l \in Levels,
         Active' = Active, adc'.gain = AdcGain(s, l), sensor'[s].gain = l,
         sensor'[s].preamp = l, s = Active
  PROVE  GainServes'
  BY DEF GainServes, AtItsLevel

LEMMA AdjustServes ==
  ASSUME DriverTypes, NEW t \in Tasks, Step(t), Statement(t) # "SelectSensor"
  PROVE  /\ Statement(t) = "DisableActive" => GainServes'
         /\ Statement(t) = "EnableActive" /\ GainServes => Serves'
         /\ Statement(t) \in {"AllCalibration", "CalibrateVoltage"} /\ Active = "Voltage"
              => GainServes' /\ adc'.input = adc.input
         /\ Statement(t) = "SetLevel" /\ Active = Running(t).sensor
              => GainServes' /\ adc'.input = adc.input
         /\ Statement(t) \in KeyWrites => adc'.input = adc.input
  <1>0. /\ DataOK /\ sensor \in [Sensors -> Controllers]
        /\ \A s \in Sensors : sensor[s] \in Controllers /\ sensor[s].gain \in Levels
                                            /\ sensor[s].preamp \in Levels
        /\ Active \in Sensors /\ level \in Levels /\ 1 \in Levels
        /\ adc \in [on : BOOLEAN, gain : 1 .. 2 \cup Levels, input : Sensors]
    BY SensorTyped, GainsAre DEF DriverTypes
  <1>1. Active' = Active
    BY ActiveKept
  <1>2. ASSUME DisableActive(t) PROVE GainServes'
    <2> DEFINE new == [sensor[Active] EXCEPT !.on = FALSE, !.gain = 1, !.preamp = 1]
    <2>1. sensor' = [sensor EXCEPT ![Active] = new] /\ adc' = [adc EXCEPT !.gain = AdcGain(Active, 1)]
      BY <1>0, <1>2 DEF DisableActive, Controllers
    <2>2. new.gain = 1 /\ new.preamp = 1
      BY <1>0 DEF Controllers
    <2> HIDE DEF new
    <2>3. sensor'[Active].gain = 1 /\ sensor'[Active].preamp = 1 /\ adc'.gain = AdcGain(Active, 1)
      BY <1>0, <2>1, <2>2
    <2> QED BY <1>0, <1>1, <2>3, GainOf
  <1>3. ASSUME EnableActive(t), GainServes PROVE Serves'
    <2> DEFINE normal == sensor[Active].mode = "Normal"
               l == IF normal THEN 1 ELSE sensor[Active].gain
               k == IF normal THEN 1 ELSE sensor[Active].preamp
               new == [sensor[Active] EXCEPT !.on = TRUE, !.ran = TRUE,
                                             !.agc = normal /\ HasAGC(Active), !.gain = l,
                                             !.preamp = k]
    <2>1. /\ sensor' = [sensor EXCEPT ![Active] = new]
          /\ adc' = [adc EXCEPT !.input = Active,
                                !.gain = IF normal THEN AdcGain(Active, 1) ELSE adc.gain]
      BY <1>0, <1>3 DEF EnableActive
    <2>2. new.gain = l /\ new.preamp = k
      BY <1>0 DEF Controllers
    <2>3. l \in Levels /\ k = l
      BY <1>0, <1>3 DEF GainServes, AtItsLevel
    <2> HIDE DEF new
    <2>4. sensor'[Active].gain = l /\ sensor'[Active].preamp = l
      BY <1>0, <2>1, <2>2, <2>3
    <2>5. adc'.input = Active /\ adc'.gain = AdcGain(Active, l)
      BY <1>0, <1>3, <2>1 DEF GainServes, AtItsLevel
    <2> HIDE DEF l, k
    <2> QED BY <1>0, <1>1, <2>3, <2>4, <2>5, GainOf DEF Serves
  <1>4. ASSUME AllCalibration(t), Active = "Voltage" PROVE GainServes' /\ adc'.input = adc.input
    <2>1. /\ sensor' = [s \in Sensors |->
                         [sensor[s] EXCEPT !.mode = "Calibration", !.agc = FALSE,
                                           !.gain = 1, !.preamp = 1]]
          /\ adc' = [adc EXCEPT !.gain = AdcGain("Voltage", 1)]
      BY <1>4 DEF AllCalibration
    <2>2. sensor'[Active].gain = 1 /\ sensor'[Active].preamp = 1
      BY <1>0, <2>1 DEF Controllers
    <2>3. adc'.gain = AdcGain(Active, 1) /\ adc'.input = adc.input
      BY <1>0, <1>4, <2>1
    <2> QED BY <1>0, <1>1, <1>4, <2>2, <2>3, GainOf
  <1>5. ASSUME NEW st, NEW s, NEW mode, NEW l \in Levels, Adjust(t, st, s, mode, l), s = Active
        PROVE  GainServes' /\ adc'.input = adc.input
    <2> DEFINE new == [sensor[s] EXCEPT !.mode = mode, !.gain = l, !.preamp = l,
                                        !.agc = mode = "Normal" /\ (sensor[s].agc \/ HasAGC(s))]
    <2>1. sensor' = [sensor EXCEPT ![s] = new] /\ adc' = [adc EXCEPT !.gain = AdcGain(s, l)]
      BY <1>5 DEF Adjust
    <2>2. new.gain = l /\ new.preamp = l
      BY <1>0, <1>5 DEF Controllers
    <2> HIDE DEF new
    <2>3. /\ sensor'[s].gain = l /\ sensor'[s].preamp = l
          /\ adc'.gain = AdcGain(s, l) /\ adc'.input = adc.input
      BY <1>0, <1>5, <2>1, <2>2
    <2> QED BY <1>0, <1>1, <1>5, <2>3, GainOf
  <1>6. /\ Statement(t) = "CalibrateVoltage" /\ Active = "Voltage"
             => GainServes' /\ adc'.input = adc.input
        /\ Statement(t) = "SetLevel" /\ Active = Running(t).sensor
             => GainServes' /\ adc'.input = adc.input
    BY <1>0, <1>5, StatementOfStep DEF CalibrateVoltage, SetLevel
  <1>7. Statement(t) \in KeyWrites => adc'.input = adc.input
    <2>1. ProgramPreamp(t) \/ StoreLevel(t) => adc' = adc
      BY DEF ProgramPreamp, StoreLevel, TakeNewGain
    <2>2. ProgramAdc(t) => adc'.input = adc.input
      BY <1>0 DEF ProgramAdc
    <2> QED BY <2>1, <2>2, StatementOfStep DEF KeyWrites
  <1> QED BY <1>2, <1>3, <1>4, <1>6, <1>7, StatementOfStep

\* The AGC moves the gain of the sensor the ADC samples.
LEMMA AgcServes ==
  ASSUME DataOK, NEW by \in {-1, 1}, AgcMovesGain(by), adc.input = Active
  PROVE  Serves' /\ adc.on
  <1> DEFINE s == adc.input
             l == sensor[s].gain + by
             new == [sensor[s] EXCEPT !.gain = l, !.preamp = l]
  <1>0. /\ sensor \in [Sensors -> Controllers] /\ s \in Sensors /\ s = Active
        /\ \A r \in Sensors : sensor[r] \in Controllers
        /\ adc \in [on : BOOLEAN, gain : 1 .. 2 \cup Levels, input : Sensors]
    BY SensorTyped
  <1>1. /\ sensor' = [sensor EXCEPT ![s] = new] /\ adc' = [adc EXCEPT !.gain = AdcGain(s, l)]
        /\ state' = state /\ l \in 1 .. MaxGain(s) /\ adc.on
    BY <1>0 DEF AgcMovesGain, Controllers
  <1>2. new.gain = l /\ new.preamp = l
    BY <1>0 DEF Controllers
  <1>3. l \in Levels
    BY <1>0, <1>1, GainsAre
  <1> HIDE DEF new, l, s
  <1>4. sensor'[s].gain = l /\ sensor'[s].preamp = l /\ adc'.gain = AdcGain(s, l) /\ adc'.input = adc.input
    BY <1>0, <1>1, <1>2
  <1>5. Active' = Active
    BY <1>1 DEF Active
  <1> QED BY <1>0, <1>1, <1>3, <1>4, <1>5, GainOf DEF Serves

\* A start, and the change of sensor it makes, have set the ADC for the active sensor
\* before the output is connected; StartCalibration, before it lets the calibration go.
Serving ==
  \A t \in Tasks : stack[t] # <<>> =>
    /\ stack[t][1].function = "StartMeasurements" /\ stack[t][1].pc >= 3 => Serves
    /\ stack[t][1].function = "StartCalibration" /\ stack[t][1].pc = 4 /\ Measuring => Serves
    /\ /\ stack[t][1].function = "SetAndActivateSensor"
       /\ 2 \in 2 .. Len(stack[t]) /\ stack[t][2].function = "StartMeasurements"
       => /\ stack[t][1].pc \in 4 .. 5 => GainServes
          /\ stack[t][1].pc >= 6 => Serves

ServingInv == ArgumentInv /\ Serving /\ AdcServesActive

LEMMA ServingAfter ==
  ASSUME ServingInv, NEW t \in Tasks, Step(t), stack'[t] # <<>>
  PROVE  /\ stack'[t][1].function = "StartMeasurements" /\ stack'[t][1].pc >= 3 => Serves'
         /\ /\ stack'[t][1].function = "SetAndActivateSensor"
            /\ 2 \in 2 .. Len(stack'[t]) /\ stack'[t][2].function = "StartMeasurements"
            => /\ stack'[t][1].pc \in 4 .. 5 => GainServes'
               /\ stack'[t][1].pc >= 6 => Serves'
  <1> DEFINE n == Len(stack[t])
             m == Len(stack'[t])
             f == stack[t][1].function
             p == stack[t][1].pc
             g == stack'[t][1].function
             r == stack'[t][1].pc
             s == Statement(t)
  <1>0. /\ ArgumentInv /\ OutputInv /\ DriverTypes /\ StackInv /\ StackInv' /\ DataOK
        /\ stack[t] # <<>> /\ Running(t) = stack[t][1] /\ n \in Nat \ {0}
        /\ WentOn(t) \/ WentInto(t) \/ WentBack(t) \/ WentRound(t)
    BY OutputParts, FramesOfStep, OtherStack DEF ServingInv, ArgumentInv, NestingInv
  <1>1. /\ f \in Functions /\ p \in 1 .. 20 /\ p \in 1 .. Len(Body[f]) /\ s = Body[f][p]
    BY <1>0, TopOfTask
  <1>2. /\ f = "StartMeasurements" /\ p >= 3 => Serves
        /\ f = "SetAndActivateSensor" /\ 2 \in 2 .. n /\ stack[t][2].function = "StartMeasurements"
           => /\ p \in 4 .. 5 => GainServes
              /\ p >= 6 => Serves
    BY <1>0 DEF ServingInv, Serving
  <1>3. s \notin Adjusts => (GainServes => GainServes') /\ (Serves => Serves')
    BY <1>0, ServingKept, ServingStays
  <1>4. CASE WentOn(t)
    <2>1. /\ m = n /\ g = f /\ r = p + 1 /\ \A j \in 2 .. n : stack'[t][j] = stack[t][j]
          /\ ~(s \in DOMAIN Callee /\ Made(s, Running(t))) /\ s \notin {"Return", "Loop"}
      BY <1>0, <1>4 DEF WentOn, Onward
    <2>2. ASSUME g = "StartMeasurements", r >= 3 PROVE Serves'
      <3>1. s # "Reactivate"
        BY <2>1 DEF Made, Callee
      <3>2. Body["StartMeasurements"][2] = "Reactivate"
        BY DEF Body, StartMeasurements
      <3>3. s \notin Adjusts
        <4>1. f = "StartMeasurements"
          BY <2>1, <2>2
        <4> HIDE DEF f, p, s
        <4> QED BY <1>1, <4>1, AdjustsAt DEF Adjusts
      <3>4. p >= 3
        <4> HIDE DEF f, p, g, r, s
        <4> QED BY <1>1, <2>1, <2>2, <3>1, <3>2
      <3> QED BY <1>2, <1>3, <2>1, <2>2, <3>3, <3>4
    <2>3. ASSUME g = "SetAndActivateSensor", 2 \in 2 .. m, stack'[t][2].function = "StartMeasurements"
          PROVE  /\ r \in 4 .. 5 => GainServes'
                 /\ r >= 6 => Serves'
      <3>1. /\ f = "SetAndActivateSensor" /\ 2 \in 2 .. n /\ stack[t][2].function = "StartMeasurements"
        BY <2>1, <2>3
      <3>2. p \in 1 .. 7
        <4>1. Len(Body["SetAndActivateSensor"]) = 7
          BY DEF Body, SetAndActivateSensor
        <4> HIDE DEF p, f
        <4> QED BY <1>1, <3>1, <4>1
      <3>3. CASE p \in 1 .. 2
        <4> HIDE DEF p, r
        <4> QED BY <2>1, <3>3
      <3>4. CASE p = 3
        <4>1. s = "DisableActive"
          BY <1>1, <3>1, <3>4 DEF Body, SetAndActivateSensor
        <4>2. GainServes'
          BY <1>0, <4>1, AdjustServes
        <4>3. r = 4
          BY <2>1, <3>4
        <4> QED BY <4>2, <4>3
      <3>5. CASE p = 4
        <4>1. s = "SelectSensor"
          BY <1>1, <3>1, <3>5 DEF Body, SetAndActivateSensor
        <4>2. Waited(t, 2) = "Reactivate"
          <5>1. PICK c : /\ c \in DOMAIN Callee /\ CallsAt("StartMeasurements", stack[t][2].pc - 1, c)
                         /\ stack[t][2 - 1].function = Callee[c] /\ c = Waited(t, 2)
            BY <1>0, <3>1, WaitingIn DEF Waited
          <5>2. Callee[c] = "SetAndActivateSensor"
            BY <3>1, <5>1
          <5> QED BY <5>1, <5>2, CallersAre, CalleeIs
        <4>3. Active' = Active
          BY <1>0, <3>1, <4>1, <4>2, SelectsAlone
        <4>4. SameServing
          BY <4>1, <4>3, StatementOfStep DEF SelectSensor, Assign, SameServing
        <4>5. GainServes'
          BY <1>0, <1>2, <3>1, <3>5, <4>4, ServingStays
        <4>6. r = 5
          BY <2>1, <3>5
        <4> QED BY <4>5, <4>6
      <3>6. CASE p = 5
        <4>1. s = "EnableActive"
          BY <1>1, <3>1, <3>6 DEF Body, SetAndActivateSensor
        <4>2. GainServes
          BY <1>2, <3>1, <3>6
        <4>3. Serves'
          BY <1>0, <4>1, <4>2, AdjustServes
        <4>4. r = 6
          BY <2>1, <3>6
        <4> QED BY <4>3, <4>4
      <3>7. CASE p \in 6 .. 7
        <4>1. s \in {"StartIfWasActive", "Return"}
          BY <1>1, <3>1, <3>7 DEF Body, SetAndActivateSensor
        <4>2. Serves
          BY <1>2, <3>1, <3>7
        <4>3. Serves'
          BY <1>3, <4>1, <4>2 DEF Adjusts, KeyWrites
        <4>4. r >= 6 /\ r \notin 4 .. 5
          <5> HIDE DEF p, r
          <5> QED BY <2>1, <3>7
        <4> QED BY <4>3, <4>4
      <3> HIDE DEF p
      <3>8. p \in 1 .. 2 \/ p = 3 \/ p = 4 \/ p = 5 \/ p \in 6 .. 7
        BY <3>2
      <3> QED BY <3>3, <3>4, <3>5, <3>6, <3>7, <3>8
    <2> QED BY <2>2, <2>3
  <1>5. CASE WentInto(t)
    <2>1. r = 1
      BY <1>5 DEF WentInto, Frame
    <2> QED BY <2>1
  <1>6. CASE WentBack(t)
    <2>1. /\ m = n - 1 /\ \A j \in 1 .. m : stack'[t][j] = stack[t][j + 1] /\ s = "Return"
          /\ p = Len(Body[f])
      BY <1>0, <1>6 DEF WentBack
    <2>2. /\ m \in Nat \ {0} /\ 1 \in 1 .. m
      <3> DEFINE calls == stack'[t]
      <3>1. WellFormed(calls) /\ calls # <<>>
        BY <1>0 DEF StackInv
      <3>2. Len(calls) \in Nat \ {0}
        BY <3>1, TopOf
      <3> HIDE DEF calls
      <3>3. 1 \in 1 .. Len(calls)
        BY <3>2
      <3> QED BY <3>2, <3>3 DEF calls
    <2>3. 2 \in 2 .. n /\ stack'[t][1] = stack[t][2]
      <3>1. 2 \in 2 .. n
        <4> HIDE DEF n, m
        <4> QED BY <1>0, <2>1, <2>2
      <3>2. stack'[t][1] = stack[t][1 + 1]
        BY <2>1, <2>2
      <3> QED BY <3>1, <3>2
    <2>4. PICK c : /\ c \in DOMAIN Callee /\ CallsAt(g, r - 1, c) /\ f = Callee[c]
                   /\ r - 1 \in 1 .. 19 /\ stack'[t][1] \in Frames
      BY <1>0, <2>3, WaitingIn
    <2>5. Serves => Serves'
      BY <1>3, <2>1 DEF Adjusts, KeyWrites
    <2> DEFINE q == r - 1
    <2>6. /\ CallsAt(g, q, c) /\ r \in 1 .. 20 /\ q = r - 1
      BY <2>4, FrameTyped
    <2>7. ASSUME g = "StartMeasurements", r >= 3 PROVE Serves'
      <3>1. c = "Reactivate"
        <4> HIDE DEF g, r, q
        <4>1. q # 1
          BY <2>6, <2>7
        <4> QED BY <2>6, <2>7, <4>1 DEF CallsAt
      <3>2. f = "SetAndActivateSensor"
        BY <2>4, <3>1, CalleeIs
      <3>3. p >= 6
        BY <2>1, <3>2 DEF Body, SetAndActivateSensor
      <3>4. stack[t][2].function = "StartMeasurements"
        BY <2>3, <2>7
      <3> QED BY <1>2, <2>3, <2>5, <3>2, <3>3, <3>4
    <2>8. ASSUME g = "SetAndActivateSensor", r >= 4 PROVE r >= 6 /\ r \notin 4 .. 5 /\ Serves'
      <3>1. c = "StartIfWasActive" /\ r = 7
        <4> HIDE DEF g, r, q
        <4>1. q # 2
          BY <2>6, <2>8
        <4>2. c = "StartIfWasActive" /\ q = 6
          BY <2>6, <2>8, <4>1 DEF CallsAt
        <4> QED BY <2>6, <4>2
      <3>2. f = "StartMeasurements"
        BY <2>4, <3>1, CalleeIs
      <3>3. p >= 3
        BY <2>1, <3>2 DEF Body, StartMeasurements
      <3> QED BY <1>2, <2>5, <3>1, <3>2, <3>3
    <2>9. r \in 4 .. 5 \/ r >= 6 => r >= 4
      <3> HIDE DEF r, q
      <3> QED BY <2>6
    <2> HIDE DEF r, g
    <2> QED BY <2>7, <2>8, <2>9 DEF r, g
  <1>7. CASE WentRound(t)
    BY <1>7 DEF WentRound
  <1> QED BY <1>0, <1>4, <1>5, <1>6, <1>7

LEMMA AdcServesAfter ==
  ASSUME ServingInv, NEW t \in Tasks, Step(t), adc'.on, output'.relay
  PROVE  /\ adc'.input = Active'
         /\ Statement(t) \notin KeyWrites => GainServes' \/ (Measuring /\ SameServing)
  <1> DEFINE s == Statement(t)
  <1>0. /\ ArgumentInv /\ NestingInv /\ OutputInv /\ DriverTypes /\ StackInv /\ DataOK
        /\ stack[t] # <<>> /\ Running(t) = stack[t][1] /\ 1 \in 1 .. Len(stack[t])
        /\ output \in [power : BOOLEAN, generator : BOOLEAN, relay : BOOLEAN]
    BY OutputParts, FramesOfStep, TopIsFirst DEF ServingInv, ArgumentInv, NestingInv, DataOK
  <1>1. Measuring => adc.input = Active
    BY DEF ServingInv, AdcServesActive
  <1>2. s \notin Adjusts => SameServing
    BY <1>0, ServingKept
  <1>3. SameServing /\ Measuring =>
          /\ adc'.input = Active'
          /\ s \notin KeyWrites => GainServes' \/ (Measuring /\ SameServing)
    BY <1>1 DEF SameServing
  <1>4. CASE t # Actor
    <2>1. Return(t)
      BY <1>0, <1>4, WhoActs
    <2>2. s \notin Adjusts /\ adc' = adc /\ output' = output
      BY <2>1 DEF Return, Adjusts, KeyWrites
    <2>3. Measuring
      BY <2>2 DEF Measuring
    <2> QED BY <1>2, <1>3, <2>2, <2>3
  <1>5. CASE t = Actor
    <2>1. PICK f \in Functions : \E k \in 1 .. Len(Body[f]) :
             At(t, f, k) /\ s = Body[f][k] /\ Reached(f, k)
      BY <1>0, <1>5, ActorIsAt
    <2>2. PICK p \in 1 .. Len(Body[f]) : At(t, f, p) /\ s = Body[f][p] /\ Reached(f, p)
      BY <2>1
    <2>3. stack[t][1].function = f /\ stack[t][1].pc = p /\ InProgress(t, 1) = p
      BY <1>0, <2>2 DEF At, InProgress
    <2> HIDE DEF s
    <2>4. CASE f = "StartMeasurements" /\ p >= 3
      <3>1. Serves
        BY <1>0, <2>3, <2>4 DEF ServingInv, Serving
      <3>2. s \notin Adjusts
        BY <2>2, <2>4, AdjustsAt DEF Adjusts
      <3>3. Serves'
        BY <1>0, <1>2, <3>1, <3>2, ServingStays
      <3> QED BY <3>3 DEF Serves
    <2>5. CASE ~(f = "StartMeasurements" /\ p >= 3)
      <3>1. s \notin {"AdcAndGeneratorOn", "RelayOn"}
        BY <2>2, <2>5, OutputAt
      <3>2. output.relay
        <4>1. PowerOn(t) \/ PowerOff(t) \/ GeneratorOff(t) => output'.relay = output.relay
          BY <1>0, HardwareIs
        <4>2. RelayOff(t) => ~output'.relay
          BY <1>0, HardwareIs
        <4>3. ~RelayOn(t) /\ ~AdcAndGeneratorOn(t)
          BY <3>1 DEF RelayOn, Switch, AdcAndGeneratorOn, Does, s
        <4> QED BY <4>1, <4>2, <4>3, OutputKept
      <3>3. adc.on
        <4>1. ~StartAdc(t)
          <5> SUFFICES ASSUME StartAdc(t) PROVE FALSE
            OBVIOUS
          <5>1. s = "StartAdc"
            BY DEF StartAdc, SwitchAdc, Does, s
          <5>2. f = "FirstStart"
            BY <2>2, <5>1, AdjustsAt
          <5>3. ~output.relay
            BY <2>2, <5>2 DEF Reached, InFirstStart
          <5> QED BY <3>2, <5>3
        <4>2. ~StopAdc(t)
          BY <1>0, HardwareIs
        <4>3. ~AdcAndGeneratorOn(t)
          BY <3>1 DEF AdcAndGeneratorOn, Does, s
        <4> QED BY <1>0, <4>1, <4>2, <4>3, ClockKept
      <3>4. Measuring /\ adc.input = Active
        BY <1>1, <3>2, <3>3 DEF Measuring
      <3>5. f \notin Switching => ~AllOff /\ state.isActive
        BY <2>2, <3>3 DEF Reached, Settled, AllOff, AllOn
      <3>6. ~Rests(f, p) \/ f \in Switching
        <4>1. Rests(f, p) => ~state.isActive
          BY <1>0, <2>3 DEF NestingInv, Resting
        <4> QED BY <3>5, <4>1
      <3>7. s \notin {"SelectSensor", "EnableActive", "DisableActive"}
        <4> SUFFICES ASSUME s \in {"SelectSensor", "EnableActive", "DisableActive"} PROVE FALSE
          OBVIOUS
        <4>1. \/ f = "SetAndActivateSensor" /\ p \in {3, 4, 5}
              \/ f = "StopMeasurements" /\ p = 3
          BY <2>2, AdjustsAt
        <4>2. CASE f = "SetAndActivateSensor" /\ p \in {3, 4, 5}
          BY <2>2, <3>3, <4>2 DEF Reached, InActivate, AllOff
        <4>3. CASE f = "StopMeasurements" /\ p = 3
          BY <2>2, <3>3, <4>3 DEF Reached, InStop
        <4> QED BY <4>1, <4>2, <4>3
      <3>8. s \notin {"VoltageNormal", "ShuntMinGain", "ClampMinGain"}
        <4> SUFFICES ASSUME s \in {"VoltageNormal", "ShuntMinGain", "ClampMinGain"} PROVE FALSE
          OBVIOUS
        <4>1. \/ f = "RequestResistorChangeAndCheckVout" /\ p = 3
              \/ f = "CalibrationTask" /\ p \in {14, 16}
          BY <2>2, AdjustsAt
        <4> QED BY <3>6, <4>1 DEF Rests, Switching
      <3>9. s \in {"AllCalibration", "CalibrateVoltage"} => Active = "Voltage"
        <4>1. s \in {"AllCalibration", "CalibrateVoltage"} =>
                \/ f = "StartCalibration" /\ p = 3
                \/ f = "CalibrationTask" /\ p = 2
          BY <2>2, AdjustsAt
        <4>2. (f = "StartCalibration" /\ p = 3) \/ (f = "CalibrationTask" /\ p = 2) =>
                Relies(f, p) /\ f \notin {"SetAndActivateSensor", "CalibrateSensor"}
          BY DEF Relies
        <4>3. /\ Relies(f, p) => stack[t][1].sensor = Active
              /\ f \notin {"SetAndActivateSensor", "CalibrateSensor"} => stack[t][1].sensor = "Voltage"
          BY <1>0, <2>3 DEF ArgumentInv, AboutVoltage, Focused
        <4> QED BY <4>1, <4>2, <4>3
      <3>10. s = "SetLevel" => Active = Running(t).sensor
        <4>a. s = "SetLevel" => f = "CalibrateSensor" /\ p = 2
          BY <2>2, AdjustsAt
        <4>b. f = "CalibrateSensor" /\ p = 2 => Relies(f, p)
          BY DEF Relies
        <4>1. s = "SetLevel" => Relies(f, p)
          BY <4>a, <4>b
        <4> QED BY <1>0, <2>3, <4>1 DEF ArgumentInv, Focused
      <3>11. CASE s \in Adjusts
        <4>1. Active' = Active
          BY <1>0, <3>7, ActiveKept DEF s
        <4>2. CASE s \in {"AllCalibration", "CalibrateVoltage", "SetLevel"}
          <5>1. GainServes' /\ adc'.input = adc.input
            BY <1>0, <3>7, <3>9, <3>10, <4>2, AdjustServes DEF s
          <5> QED BY <3>4, <4>1, <5>1 DEF s
        <4>3. CASE s \in KeyWrites
          <5>1. adc'.input = adc.input
            BY <1>0, <3>7, <4>3, AdjustServes DEF s
          <5> QED BY <3>4, <4>1, <4>3, <5>1 DEF s
        <4> QED BY <3>7, <3>8, <3>11, <4>2, <4>3 DEF Adjusts
      <3> QED BY <1>2, <1>3, <3>4, <3>11 DEF s
    <2> QED BY <2>4, <2>5 DEF s
  <1> QED BY <1>4, <1>5

\* What StartCalibration hands over to the calibration.
LEMMA CalibrationStartServes ==
  ASSUME ServingInv, NEW t \in Tasks, Step(t), stack'[t] # <<>>, Measuring',
         stack'[t][1].function = "StartCalibration", stack'[t][1].pc = 4
  PROVE  Serves'
  <1> DEFINE f == stack[t][1].function
             p == stack[t][1].pc
             r == stack'[t][1].pc
  <1>0. /\ ArgumentInv /\ OutputInv /\ DriverTypes /\ StackInv /\ StackInv'
        /\ stack[t] # <<>> /\ Running(t) = stack[t][1] /\ 1 \in 1 .. Len(stack[t])
        /\ WentOn(t) \/ WentInto(t) \/ WentBack(t) \/ WentRound(t)
    BY OutputParts, FramesOfStep, OtherStack, TopIsFirst DEF ServingInv, ArgumentInv, NestingInv
  <1>1. /\ f \in Functions /\ p \in 1 .. 20 /\ Statement(t) = Body[f][p]
    BY <1>0, TopOfTask
  <1>2. CASE WentOn(t)
    <2>1. f = "StartCalibration" /\ r = p + 1
      BY <1>0, <1>2 DEF WentOn, Onward
    <2>2. p = 3
      <3>1. r = 4
        OBVIOUS
      <3> HIDE DEF p, r
      <3> QED BY <1>1, <2>1, <3>1
    <2>3. Statement(t) = "AllCalibration"
      BY <1>1, <2>1, <2>2 DEF Body, StartCalibration
    <2>4. Active = "Voltage"
      <3>1. InProgress(t, 1) = 3 /\ Relies(stack[t][1].function, 3)
        BY <2>1, <2>2 DEF InProgress, Relies
      <3> QED BY <1>0, <2>1, <3>1 DEF ArgumentInv, AboutVoltage, Focused
    <2>5. GainServes'
      BY <1>0, <2>3, <2>4, AdjustServes
    <2>6. adc'.input = Active'
      BY AdcServesAfter DEF Measuring
    <2> QED BY <2>5, <2>6 DEF Serves
  <1>3. CASE WentInto(t)
    BY <1>3 DEF WentInto, Frame
  <1>4. CASE WentBack(t)
    <2> DEFINE n == Len(stack[t])
               m == Len(stack'[t])
    <2>1. /\ m = n - 1 /\ \A j \in 1 .. m : stack'[t][j] = stack[t][j + 1]
      BY <1>0, <1>4 DEF WentBack
    <2>2. m \in Nat \ {0} /\ n \in Nat \ {0}
      <3>1. n \in Nat \ {0}
        BY <1>0, FramesOfStep
      <3> DEFINE calls == stack'[t]
      <3>2. WellFormed(calls) /\ calls # <<>>
        BY <1>0 DEF StackInv
      <3>3. Len(calls) \in Nat \ {0}
        BY <3>2, TopOf
      <3> QED BY <3>1, <3>3
    <2>3. 2 \in 2 .. n /\ stack'[t][1] = stack[t][2]
      <3>1. 2 \in 2 .. n /\ 1 \in 1 .. m
        <4> HIDE DEF n, m
        <4> QED BY <2>1, <2>2
      <3>2. stack'[t][1] = stack[t][1 + 1]
        BY <2>1, <3>1
      <3> QED BY <3>1, <3>2
    <2>4. PICK c : c \in DOMAIN Callee /\ CallsAt("StartCalibration", 4 - 1, c)
      BY <1>0, <2>3, WaitingIn
    <2> QED BY <2>4 DEF CallsAt
  <1>5. CASE WentRound(t)
    BY <1>5 DEF WentRound
  <1> QED BY <1>0, <1>2, <1>3, <1>4, <1>5

\* A step that is not the task's own leaves the ADC to it.
LEMMA OthersServe ==
  ASSUME ServingInv, [Next]_vars, ~(\E u \in Tasks : Step(u) /\ u = Actor)
  PROVE  /\ SameServing \/ (adc.on /\ (adc.input = Active => Serves'))
         /\ Serves => Serves'
         /\ ~adc.on /\ GainServes => GainServes'
         /\ adc'.on = adc.on /\ output' = output
         /\ Calibrating' => Calibrating
  <1>0. OutputInv /\ DriverTypes /\ DataOK
    BY OutputParts DEF ServingInv, ArgumentInv, NestingInv
  <1>1. CASE \E u \in Tasks : Step(u)
    <2>1. PICK u \in Tasks : Step(u)
      BY <1>1
    <2>2. Return(u)
      BY <1>0, <2>1, WhoActs
    <2>3. adc' = adc /\ output' = output /\ sensor' = sensor /\ state' = state /\ status' = status
      BY <2>2 DEF Return
    <2>4. SameServing /\ (Calibrating' => Calibrating)
      BY <2>3 DEF SameServing, Active, Calibrating
    <2> QED BY <1>0, <2>3, <2>4, ServingStays
  <1>2. CASE \E by \in {-1, 1} : AgcMovesGain(by)
    <2>1. PICK by \in {-1, 1} : AgcMovesGain(by)
      BY <1>2
    <2>2. adc.on /\ adc'.on = adc.on /\ output' = output /\ status' = status
      BY <1>0, <2>1 DEF AgcMovesGain, DataOK
    <2>3. adc.input = Active => Serves'
      BY <1>0, <2>1, AgcServes
    <2>4. Calibrating' => Calibrating
      BY <2>2 DEF Calibrating
    <2> QED BY <2>2, <2>3, <2>4 DEF Serves
  <1>3. CASE \/ \E u \in Tasks : Wake(u)
             \/ \E operation \in Keys : PressKey(operation)
             \/ AnswerDialog \/ UNCHANGED vars
    <2>1. adc' = adc /\ output' = output /\ sensor' = sensor /\ state' = state
      BY <1>3 DEF Wake, PressKey, AnswerDialog, vars
    <2>2. SameServing
      BY <2>1 DEF SameServing, Active
    <2>3. Calibrating' => Calibrating
      <3>1. ASSUME NEW u \in Tasks, Wake(u) PROVE Calibrating' => Calibrating
        <4>1. status[u] = "delayed" /\ \A v \in Tasks \ {u} : status'[v] = status[v]
          BY <1>0, <3>1, StatusIs
        <4> QED BY <4>1 DEF Calibrating, Tasks
      <3>2. CASE ~(\E u \in Tasks : Wake(u))
        BY <1>3, <3>2 DEF PressKey, AnswerDialog, vars, Calibrating
      <3> QED BY <3>1, <3>2
    <2> QED BY <1>0, <2>1, <2>2, <2>3, ServingStays
  <1> QED BY <1>1, <1>2, <1>3 DEF Next

\* No gain key is handled while the calibration runs.
LEMMA KeyWritesAlone ==
  ASSUME OutputInv, NEW t \in Tasks, Step(t), Statement(t) \in KeyWrites
  PROVE  /\ t = "keyboard" /\ ~Calibrating /\ ~Calibrating'
         /\ Running(t).function \in {"IncreaseGain", "DecreaseGain"}
  <1>0. /\ DriverTypes /\ StackInv /\ KeyboardAlone /\ stack[t] # <<>>
    BY OutputParts, FramesOfStep
  <1>1. Running(t).function \in {"IncreaseGain", "DecreaseGain"}
    <2> DEFINE f == Running(t).function
               p == Running(t).pc
    <2>1. f \in Functions /\ p \in 1 .. Len(Body[f]) /\ Body[f][p] \in KeyWrites
      BY <1>0, TopOfTask
    <2> HIDE DEF f, p
    <2>2. f \in {"IncreaseGain", "DecreaseGain"}
      BY <2>1, AdjustsAt
    <2> QED BY <2>2 DEF f
  <1>2. t = "keyboard"
    <2>1. CASE t = "calibration"
      <3> DEFINE calls == stack[t]
      <3>1. WellFormed(calls) /\ calls # <<>> /\ Head(calls).function \in Operations \ {"Stop"}
        BY <1>0, <1>1 DEF StackInv, Running, Operations
      <3>2. calls[Len(calls)].function = "CalibrationTask"
        BY <1>0, <2>1 DEF StackInv, Bottom
      <3> HIDE DEF calls
      <3>3. Len(calls) = 1 /\ Head(calls) = calls[1]
        BY <3>1, NotCalled, TopOf
      <3> QED BY <3>1, <3>2, <3>3 DEF Operations
    <2> QED BY <2>1 DEF Tasks
  <1>3. ~Calibrating
    BY <1>0, <1>1, <1>2 DEF KeyboardAlone, At
  <1>4. status' = status
    <2>1. ~Delay(t) /\ ~SuspendCalibration(t) /\ ~ResumeCalibration(t)
      BY DEF Delay, SuspendCalibration, ResumeCalibration, Does, KeyWrites
    <2> QED BY <2>1, StatusKept
  <1> QED BY <1>1, <1>2, <1>3, <1>4 DEF Calibrating

\* Only StartCalibration lets a calibration go.
LEMMA CalibrationGoes ==
  ASSUME OutputInv, NEW t \in Tasks, Step(t), Calibrating', ~Calibrating
  PROVE  At(t, "StartCalibration", 4) /\ ResumeCalibration(t)
  <1>0. /\ DriverTypes /\ StackInv /\ DataOK /\ stack[t] # <<>> /\ "calibration" \in Tasks
    BY OutputParts, FramesOfStep
  <1>1. status' # status /\ status["calibration"] = "suspended"
        /\ status'["calibration"] # "suspended"
    BY DEF Calibrating
  <1>2. ~SuspendCalibration(t)
    BY <1>0, <1>1, StatusIs
  <1>3. ~Delay(t)
    <2> SUFFICES ASSUME Delay(t) PROVE FALSE
      OBVIOUS
    <2>1. t # "calibration"
      BY <1>1 DEF Delay, Does, Runs, CalibrationRuns
    <2> QED BY <1>0, <1>1, <2>1, StatusIs
  <1>4. ResumeCalibration(t)
    BY <1>1, <1>2, <1>3, StatusKept
  <1>5. Statement(t) = "ResumeCalibration"
    BY <1>4 DEF ResumeCalibration, Does
  <1> DEFINE f == Running(t).function
             p == Running(t).pc
  <1>6. f \in Functions /\ p \in 1 .. Len(Body[f]) /\ Body[f][p] = "ResumeCalibration"
    BY <1>0, <1>5, TopOfTask
  <1> HIDE DEF f, p
  <1>7. f = "StartCalibration" /\ p = 4
    BY <1>6, BodyShape
  <1> QED BY <1>0, <1>4, <1>7 DEF At, f, p

LEMMA KeepsServing ==
  ASSUME ServingInv, [Next]_vars
  PROVE  Serving' /\ AdcServesActive'
  <1>0. OutputInv /\ DriverTypes /\ StackInv
    BY OutputParts DEF ServingInv, ArgumentInv, NestingInv
  <1>1. Serving'
    <2> SUFFICES ASSUME NEW t \in Tasks, stack'[t] # <<>>
                 PROVE  /\ stack'[t][1].function = "StartMeasurements" /\ stack'[t][1].pc >= 3 => Serves'
                        /\ stack'[t][1].function = "StartCalibration" /\ stack'[t][1].pc = 4 /\ Measuring'
                             => Serves'
                        /\ /\ stack'[t][1].function = "SetAndActivateSensor"
                           /\ 2 \in 2 .. Len(stack'[t]) /\ stack'[t][2].function = "StartMeasurements"
                           => /\ stack'[t][1].pc \in 4 .. 5 => GainServes'
                              /\ stack'[t][1].pc >= 6 => Serves'
      BY DEF Serving
    <2>1. CASE Step(t)
      BY <2>1, ServingAfter, CalibrationStartServes
    <2>2. CASE ~Step(t) /\ stack'[t] = stack[t]
      <3>1. CASE t # Actor
        <4>1. 1 \in 1 .. Len(stack[t])
          BY <1>0, <2>2, TopIsFirst
        <4>2. /\ stack[t][1].function \notin {"StartMeasurements", "SetAndActivateSensor"}
              /\ stack[t][1].function = "StartCalibration" => stack[t][1].pc = 5
          BY <1>0, <3>1, <4>1, OtherFrames
        <4> QED BY <2>2, <4>2
      <3>2. CASE t = Actor
        <4>1. ~(\E u \in Tasks : Step(u) /\ u = Actor)
          BY <2>2, <3>2
        <4>2. /\ Serves => Serves'
              /\ ~adc.on /\ GainServes => GainServes'
              /\ Measuring' => Measuring
          BY <4>1, OthersServe DEF Measuring
        <4>3. stack[t][1].function = "SetAndActivateSensor" /\ stack[t][1].pc \in 4 .. 5 => ~adc.on
          <5> SUFFICES ASSUME stack[t][1].function = "SetAndActivateSensor", stack[t][1].pc \in 4 .. 5
                       PROVE  ~adc.on
            OBVIOUS
          <5>1. PICK p \in {4, 5} : At(t, "SetAndActivateSensor", p)
            BY <1>0, <2>2, TopIsFirst DEF At
          <5>2. ActorReached
            BY <1>0, OutputParts
          <5>3. InActivate(p)
            BY <3>2, <5>1, <5>2, FunctionsAre DEF ActorReached, Reached
          <5> QED BY <5>3 DEF InActivate, AllOff
        <4> QED BY <2>2, <4>2, <4>3 DEF ServingInv, Serving
      <3> QED BY <3>1, <3>2
    <2>3. CASE t = "keyboard" /\ \E operation \in Keys : PressKey(operation)
      <3>1. stack'[t][1].function \in Operations /\ stack'[t][1].pc = 1
        BY <1>0, <2>3, PressedKey
      <3> QED BY <3>1 DEF Operations
    <2> QED BY <1>0, <2>1, <2>2, <2>3, WhoseStack
  <1>2. AdcServesActive'
    <2> SUFFICES ASSUME Measuring' PROVE adc'.input = Active' /\ (Calibrating' => GainServes')
      BY DEF AdcServesActive, GainServes, Active
    <2>1. DataOK
      BY <1>0, OutputParts
    <2>2. Measuring => adc.input = Active /\ (Calibrating => GainServes)
      BY DEF ServingInv, AdcServesActive, GainServes
    <2>3. CASE \E u \in Tasks : Step(u) /\ u = Actor
      <3>1. PICK t \in Tasks : Step(t) /\ t = Actor
        BY <2>3
      <3>2. /\ adc'.input = Active'
            /\ Statement(t) \notin KeyWrites => GainServes' \/ (Measuring /\ SameServing)
        BY <3>1, AdcServesAfter DEF Measuring
      <3>3. ASSUME Calibrating' PROVE GainServes'
        <4>1. Statement(t) \notin KeyWrites
          BY <1>0, <3>1, <3>3, KeyWritesAlone
        <4>2. CASE Measuring /\ SameServing
          <5>1. CASE Calibrating
            BY <2>1, <2>2, <4>2, <5>1, ServingStays
          <5>2. CASE ~Calibrating
            <6>1. At(t, "StartCalibration", 4)
              BY <1>0, <3>1, <3>3, <5>2, CalibrationGoes
            <6>2. stack[t] # <<>> /\ stack[t][1].function = "StartCalibration" /\ stack[t][1].pc = 4
              BY <1>0, <6>1, TopIsFirst DEF At
            <6>3. Serves
              BY <4>2, <6>2 DEF ServingInv, Serving
            <6> QED BY <2>1, <4>2, <6>3, ServingStays DEF Serves
          <5> QED BY <5>1, <5>2
        <4> QED BY <3>2, <4>1, <4>2
      <3> QED BY <3>2, <3>3
    <2>4. CASE ~(\E u \in Tasks : Step(u) /\ u = Actor)
      <3>1. /\ SameServing \/ (adc.on /\ (adc.input = Active => Serves'))
            /\ Measuring /\ (Calibrating' => Calibrating)
        BY <2>4, OthersServe DEF Measuring
      <3>2. CASE SameServing
        BY <2>1, <2>2, <3>1, <3>2, ServingStays DEF SameServing
      <3>3. CASE adc.input = Active => Serves'
        BY <2>2, <3>1, <3>3 DEF Serves
      <3> QED BY <3>1, <3>2, <3>3
    <2> QED BY <2>3, <2>4
  <1> QED BY <1>1, <1>2

LEMMA InitServing == Init => Serving /\ AdcServesActive
  <1> SUFFICES ASSUME Init PROVE Serving /\ AdcServesActive
    OBVIOUS
  <1>1. ASSUME NEW t \in Tasks, stack[t] # <<>>
        PROVE  stack[t][1].function = "CalibrationTask"
    <2>1. 1 \in 1 .. Len(stack[t])
      BY <1>1, InitOutput, OutputParts, TopIsFirst
    <2> QED BY <2>1, FramesAtFirst
  <1>2. ~adc.on
    BY DEF Init
  <1> QED BY <1>1, <1>2 DEF Serving, AdcServesActive, Measuring

LEMMA AlwaysServing ==
  ASSUME KeysWhileCalibrating = {}
  PROVE  Spec => []ServingInv
  <1>1. Spec => []ArgumentInv
    BY AlwaysArguments
  <1>2. Init => Serving /\ AdcServesActive
    BY InitServing
  <1>3. ArgumentInv /\ Serving /\ AdcServesActive /\ [Next]_vars => Serving' /\ AdcServesActive'
    BY KeepsServing DEF ServingInv
  <1> QED BY <1>1, <1>2, <1>3, PTL DEF Spec, ServingInv

\* Whenever the output is connected and sampled, the ADC's inputs are the active sensor's,
\* however the changes of sensor are nested; and during a calibration that sensor is
\* amplified at its level, whichever sensors' gains are set through the ADC meanwhile and
\* whatever the gain keys and the AGC left before it.
THEOREM AdcAlwaysServes ==
  ASSUME KeysWhileCalibrating = {}
  PROVE  Spec => []AdcServesActive
  <1>1. ServingInv => AdcServesActive
    BY DEF ServingInv
  <1>2. Spec => []ServingInv
    BY AlwaysServing
  <1> QED BY <1>1, <1>2, PTL


-----------------------------------------------------------------------------
\* The gain keys.

\* The level a key sets stays in its frame; each statement changes the frame.
LEMMA DoesKeepsChoice ==
  ASSUME StackInv, NEW t \in Tasks, NEW s, Does(t, s)
  PROVE  /\ stack'[t] # stack[t] /\ stack[t] # <<>> /\ Statement(t) = s
         /\ stack'[t][1].newGain = Running(t).newGain
  <1>1. /\ stack[t] # <<>> /\ Statement(t) = s
        /\ Running(t) \in Frames /\ Running(t).pc \in 1 .. 20
    BY RunningTask, TopOfTask DEF Does
  <1> DEFINE calls == stack[t]
             top == [Running(t) EXCEPT !.pc = @ + 1]
             new == stack'[t]
  <1>2. calls \in Seq(Frames) /\ Running(t) = calls[1]
    BY <1>1, TopIsFirst DEF StackInv, Running
  <1>3. new = <<top>> \o Tail(calls)
    BY DEF Does, Advanced, Running, StackInv
  <1>4. top.pc = Running(t).pc + 1 /\ top.newGain = Running(t).newGain
    BY <1>1 DEF Frames
  <1>5. top.pc # Running(t).pc
    <2> DEFINE k == Running(t).pc
    <2>1. k \in 1 .. 20 /\ top.pc = k + 1
      BY <1>1, <1>4
    <2> HIDE DEF k, top
    <2> QED BY <2>1 DEF k
  <1>6. Tail(calls) \in Seq(Frames)
    BY <1>1, <1>2
  <1> HIDE DEF calls, top, new
  <1>7. new[1] = top
    BY <1>3, <1>6
  <1>8. new # calls
    BY <1>2, <1>5, <1>7
  <1> QED BY <1>1, <1>4, <1>7, <1>8 DEF calls, new

Keying ==
  /\ stack["keyboard"] # <<>>
  /\ stack["keyboard"][1].function \in {"IncreaseGain", "DecreaseGain"}

\* Without an AGC to overtake it a key finds what it programmed when it stores the level.
KeyProgrammed ==
  Keying /\ Measuring /\ ~sensor[Active].agc /\ stack["keyboard"][1].newGain # 0 =>
    /\ stack["keyboard"][1].pc \in 3 .. 4
         => sensor[Active].preamp = stack["keyboard"][1].newGain
    /\ stack["keyboard"][1].pc = 4
         => adc.gain = AdcGain(Active, stack["keyboard"][1].newGain)

LEMMA KeyProgrammedAfter ==
  ASSUME ServingInv, KeyProgrammed, Step("keyboard"), Keying', Measuring', ~sensor'[Active'].agc,
         stack'["keyboard"][1].newGain # 0, stack'["keyboard"][1].pc \in 3 .. 4
  PROVE  /\ sensor'[Active'].preamp = stack'["keyboard"][1].newGain
         /\ stack'["keyboard"][1].pc = 4
              => adc'.gain = AdcGain(Active', stack'["keyboard"][1].newGain)
  <1> DEFINE t == "keyboard"
             f == stack[t][1].function
             p == stack[t][1].pc
             g == stack'[t][1].function
             r == stack'[t][1].pc
  <1>0. /\ OutputInv /\ DriverTypes /\ StackInv /\ StackInv' /\ DataOK /\ t \in Tasks
        /\ stack[t] # <<>> /\ Running(t) = stack[t][1] /\ 1 \in 1 .. Len(stack[t])
        /\ WentOn(t) \/ WentInto(t) \/ WentBack(t) \/ WentRound(t)
    BY OutputParts, FramesOfStep, OtherStack, TopIsFirst DEF ServingInv, ArgumentInv, NestingInv
  <1>1. /\ f \in Functions /\ p \in 1 .. 20 /\ p \in 1 .. Len(Body[f]) /\ Statement(t) = Body[f][p]
        /\ g \in {"IncreaseGain", "DecreaseGain"}
    BY <1>0, TopOfTask DEF Keying
  <1>2. CASE WentOn(t)
    <2>1. f = g /\ r = p + 1
      BY <1>0, <1>2 DEF WentOn, Onward
    <2>2. p \in 2 .. 3
      <3>1. r \in 3 .. 4
        OBVIOUS
      <3> HIDE DEF p, r
      <3> QED BY <1>1, <2>1, <3>1
    <2>3. /\ p = 2 => Statement(t) = "ProgramPreamp"
          /\ p = 3 => Statement(t) = "ProgramAdc"
      BY <1>1, <2>1 DEF Body, IncreaseGain, DecreaseGain
    <2>4. CASE p = 2
      <3>1. ProgramPreamp(t)
        BY <1>0, <2>3, <2>4, StatementOfStep
      <3>2. stack'[t][1].newGain = Running(t).newGain
        BY <1>0, <3>1, DoesKeepsChoice DEF ProgramPreamp, TakeNewGain
      <3>3. sensor'[Active].preamp = Running(t).newGain
        BY <1>0, <3>1, <3>2, TakesNewGain DEF ProgramPreamp
      <3>4. Active' = Active
        BY <3>1 DEF ProgramPreamp, TakeNewGain, Active
      <3>5. r # 4
        BY <2>1, <2>4
      <3> QED BY <3>2, <3>3, <3>4, <3>5
    <2>5. CASE p = 3
      <3>1. ProgramAdc(t)
        BY <1>0, <2>3, <2>5, StatementOfStep
      <3>2. stack'[t][1].newGain = Running(t).newGain
        BY <1>0, <3>1, DoesKeepsChoice DEF ProgramAdc
      <3>3. /\ adc' = [adc EXCEPT !.gain = AdcGain(Active, Running(t).newGain)]
            /\ sensor' = sensor /\ output' = output /\ Active' = Active
        BY <3>1, <3>2 DEF ProgramAdc, Active
      <3>4. adc'.gain = AdcGain(Active, Running(t).newGain) /\ adc'.on = adc.on
        BY <1>0, <3>3 DEF DataOK
      <3>5. Measuring /\ Keying
        BY <1>0, <1>1, <2>1, <3>3, <3>4 DEF Measuring, Keying
      <3>6. sensor[Active].preamp = Running(t).newGain
        BY <1>0, <2>5, <3>2, <3>3, <3>5 DEF KeyProgrammed
      <3> QED BY <3>2, <3>3, <3>4, <3>6
    <2> HIDE DEF p
    <2>6. p = 2 \/ p = 3
      BY <2>2
    <2> QED BY <2>4, <2>5, <2>6
  <1>3. CASE WentInto(t)
    BY <1>3 DEF WentInto, Frame
  <1>4. CASE WentBack(t)
    <2> DEFINE n == Len(stack[t])
               m == Len(stack'[t])
    <2>1. /\ m = n - 1 /\ \A j \in 1 .. m : stack'[t][j] = stack[t][j + 1]
      BY <1>0, <1>4 DEF WentBack
    <2>2. m \in Nat \ {0} /\ n \in Nat \ {0}
      <3>1. n \in Nat \ {0}
        BY <1>0, FramesOfStep
      <3> DEFINE calls == stack'[t]
      <3>2. WellFormed(calls) /\ calls # <<>>
        BY <1>0 DEF StackInv, Keying
      <3>3. Len(calls) \in Nat \ {0}
        BY <3>2, TopOf
      <3> QED BY <3>1, <3>3
    <2>3. 2 \in 2 .. n /\ stack'[t][1] = stack[t][2]
      <3>1. 2 \in 2 .. n /\ 1 \in 1 .. m
        <4> HIDE DEF n, m
        <4> QED BY <2>1, <2>2
      <3>2. stack'[t][1] = stack[t][1 + 1]
        BY <2>1, <3>1
      <3> QED BY <3>1, <3>2
    <2>4. PICK c : c \in DOMAIN Callee /\ CallsAt(g, r - 1, c)
      BY <1>0, <2>3, WaitingIn
    <2> HIDE DEF g
    <2> QED BY <1>1, <2>4 DEF CallsAt
  <1>5. CASE WentRound(t)
    BY <1>1, <1>5 DEF WentRound
  <1> QED BY <1>0, <1>2, <1>3, <1>4, <1>5

LEMMA KeepsProgrammed ==
  ASSUME ServingInv, KeyProgrammed, [Next]_vars
  PROVE  KeyProgrammed'
  <1> SUFFICES ASSUME Keying', Measuring', ~sensor'[Active'].agc,
                      stack'["keyboard"][1].newGain # 0, stack'["keyboard"][1].pc \in 3 .. 4
               PROVE  /\ sensor'[Active'].preamp = stack'["keyboard"][1].newGain
                      /\ stack'["keyboard"][1].pc = 4
                           => adc'.gain = AdcGain(Active', stack'["keyboard"][1].newGain)
    BY DEF KeyProgrammed, Active, AdcGain
  <1>0. /\ OutputInv /\ DriverTypes /\ StackInv /\ DataOK /\ KeyboardAlone /\ "keyboard" \in Tasks
    BY OutputParts DEF ServingInv, ArgumentInv, NestingInv
  <1>1. CASE Step("keyboard")
    BY <1>1, KeyProgrammedAfter
  <1>2. CASE ~Step("keyboard") /\ stack'["keyboard"] = stack["keyboard"]
    <2>1. Keying
      BY <1>2 DEF Keying
    <2>2. ~Calibrating
      BY <1>0, <2>1, TopIsFirst DEF KeyboardAlone, At, Keying
    <2>3. ~Step("calibration")
      BY <1>0, <2>2, OtherStack DEF Tasks
    <2>4. ASSUME NEW by \in {-1, 1}, AgcMovesGain(by) PROVE FALSE
      <3> DEFINE s == adc.input
                 new == [sensor[s] EXCEPT !.gain = sensor[s].gain + by, !.preamp = sensor[s].gain + by]
      <3>1. /\ adc.on /\ sensor[s].agc /\ output' = output /\ Active' = Active
            /\ sensor' = [sensor EXCEPT ![s] = new]
        BY <1>0, <2>4 DEF AgcMovesGain, Active, DataOK
      <3>2. s = Active
        BY <3>1 DEF ServingInv, AdcServesActive, Measuring
      <3>3. sensor \in [Sensors -> Controllers] /\ Active \in Sensors
        BY <1>0, SensorTyped
      <3>4. new.agc = sensor[s].agc
        BY <3>2, <3>3 DEF Controllers
      <3> HIDE DEF new
      <3> QED BY <3>1, <3>2, <3>3, <3>4
    <2>5. sensor' = sensor /\ adc' = adc /\ output' = output /\ state' = state
      BY <1>2, <2>3, <2>4 DEF Next, Wake, PressKey, AnswerDialog, vars, Tasks
    <2> QED BY <1>2, <2>1, <2>5 DEF KeyProgrammed, Measuring, Active, AdcGain
  <1>3. CASE \E operation \in Keys : PressKey(operation)
    <2>1. stack'["keyboard"][1].pc = 1
      BY <1>0, <1>3, PressedKey
    <2> QED BY <2>1
  <1> QED BY <1>0, <1>1, <1>2, <1>3, WhoseStack

\* Who may leave the level and the amplification of the active sensor apart.
LEMMA PartedByKeys ==
  ASSUME ServingInv, KeyProgrammed, Next, Measuring', ~GainServes'
  PROVE  \/ KeyDoes("ProgramPreamp") \/ KeyDoes("ProgramAdc")
         \/ KeyDoes("StoreLevel") /\ sensor[Active].agc
         \/ Measuring /\ ~GainServes /\ sensor'[Active].gain = sensor[Active].gain
  <1>0. /\ OutputInv /\ DriverTypes /\ StackInv /\ DataOK /\ Active \in Sensors
    BY OutputParts, StateTyped DEF ServingInv, ArgumentInv, NestingInv
  <1>1. ASSUME Measuring, SameServing
        PROVE  Measuring /\ ~GainServes /\ sensor'[Active].gain = sensor[Active].gain
    BY <1>0, <1>1, ServingStays DEF SameServing
  <1>2. CASE \E u \in Tasks : Step(u) /\ u = Actor
    <2>1. PICK t \in Tasks : Step(t) /\ t = Actor
      BY <1>2
    <2>2. CASE Statement(t) \notin KeyWrites
      BY <1>1, <2>1, <2>2, AdcServesAfter DEF Measuring
    <2>3. CASE Statement(t) \in KeyWrites
      <3>1. t = "keyboard" /\ Running(t).function \in {"IncreaseGain", "DecreaseGain"}
        BY <1>0, <2>1, <2>3, KeyWritesAlone
      <3>2. Does(t, Statement(t))
        <4>1. ProgramPreamp(t) \/ ProgramAdc(t) \/ StoreLevel(t)
          BY <2>1, <2>3, StatementOfStep DEF KeyWrites
        <4> QED BY <4>1 DEF ProgramPreamp, ProgramAdc, StoreLevel, TakeNewGain, Does
      <3>3. KeyDoes(Statement(t))
        BY <1>0, <3>1, <3>2, DoesKeepsChoice DEF KeyDoes
      <3>4. CASE Statement(t) = "StoreLevel" /\ ~sensor[Active].agc
        <4>1. StoreLevel(t) /\ Runs(t)
          BY <2>1, <3>4, StatementOfStep, StepRuns
        <4>2. /\ adc' = adc /\ output' = output /\ state' = state /\ Active' = Active
          BY <4>1 DEF StoreLevel, TakeNewGain, Active
        <4>3. Measuring
          BY <4>2 DEF Measuring
        <4>4. CASE Running(t).newGain = 0
          <5>1. sensor' = sensor
            BY <4>1, <4>4 DEF StoreLevel, TakeNewGain
          <5>2. SameServing
            BY <4>2, <5>1 DEF SameServing
          <5> QED BY <1>1, <4>3, <5>2
        <4>5. CASE Running(t).newGain # 0
          <5>1. stack[t] # <<>> /\ Running(t) = stack[t][1]
            BY <1>0, <2>1, FramesOfStep
          <5>2. Running(t).pc = 4
            <6> DEFINE f == Running(t).function
                       p == Running(t).pc
            <6>1. f \in Functions /\ p \in 1 .. Len(Body[f]) /\ Body[f][p] = "StoreLevel"
              BY <1>0, <3>4, <5>1, TopOfTask
            <6> HIDE DEF f, p
            <6>2. p = 4
              BY <6>1, AdjustsAt
            <6> QED BY <6>2 DEF p
          <5>3. /\ sensor[Active].preamp = Running(t).newGain
                /\ adc.gain = AdcGain(Active, Running(t).newGain)
            BY <3>1, <3>4, <4>3, <4>5, <5>1, <5>2 DEF KeyProgrammed, Keying
          <5>4. /\ sensor'[Active].gain = Running(t).newGain
                /\ sensor'[Active].preamp = sensor[Active].preamp
            BY <1>0, <4>1, <4>5, TakesNewGain DEF StoreLevel
          <5>5. GainServes'
            BY <4>2, <5>3, <5>4 DEF GainServes, AtItsLevel
          <5> QED BY <5>5
        <4> QED BY <4>4, <4>5
      <3> QED BY <2>3, <3>1, <3>3, <3>4 DEF KeyWrites
    <2> QED BY <2>2, <2>3
  <1>3. CASE ~(\E u \in Tasks : Step(u) /\ u = Actor)
    <2>1. /\ SameServing \/ (adc.on /\ (adc.input = Active => Serves'))
          /\ Measuring
      BY <1>3, OthersServe DEF Measuring
    <2>2. adc.input = Active
      BY <2>1 DEF ServingInv, AdcServesActive
    <2> QED BY <1>1, <2>1, <2>2 DEF Serves
  <1> QED BY <1>2, <1>3

\* While the output is connected and sampled, only the statements of a gain key part the
\* active sensor's level from its amplification; and the key leaves them apart only if
\* that sensor's AGC was on, and so could move the level between its statements.
THEOREM OnlyKeysPart ==
  ASSUME KeysWhileCalibrating = {}
  PROVE  Spec => OnlyKeysPartThem
  <1>1. Spec => []ServingInv
    BY AlwaysServing
  <1>2. Init => KeyProgrammed
    BY DEF Init, KeyProgrammed, Keying
  <1>3. ServingInv /\ KeyProgrammed /\ [Next]_vars => KeyProgrammed'
    BY KeepsProgrammed
  <1>4. ServingInv /\ KeyProgrammed /\ [Next]_vars =>
          [Measuring' /\ ~AtItsLevel(Active)' =>
             \/ KeyDoes("ProgramPreamp") \/ KeyDoes("ProgramAdc")
             \/ KeyDoes("StoreLevel") /\ sensor[Active].agc
             \/ Measuring /\ ~AtItsLevel(Active) /\ sensor'[Active].gain = sensor[Active].gain]_vars
    BY PartedByKeys DEF GainServes
  <1> QED BY <1>1, <1>2, <1>3, <1>4, PTL DEF Spec, OnlyKeysPartThem

-----------------------------------------------------------------------------
\* The calibration's readings.

\* Past the statement that read the data of the frame's sensor.
HasRead(f, q) ==
  \/ f = "CalibrateSensor" /\ q >= 7
  \/ f = "CalibrationTask" /\ q >= 8

ReadBefore ==
  \A t \in Tasks : \A i \in 1 .. Len(stack[t]) :
    HasRead(stack[t][i].function, InProgress(t, i))
      => data[stack[t][i].sensor].sensor = stack[t][i].sensor

StoredInv == ServingInv /\ ReadBefore /\ StoredFromItsSensor

LEMMA DataKept ==
  ASSUME NEW t \in Tasks, Step(t)
  PROVE  /\ StableData(t) \/ data' = data
         /\ StoreVoltage(t) \/ StoreReading(t) \/ stored' = stored
  <1>1. CASE Control(t) \/ Hardware(t) \/ Fields(t)
    BY <1>1 DEF Control, Call, Return, Loop, Delay, Hardware, PowerOn, PowerOff, RelayOn, RelayOff,
                GeneratorOff, Switch, AdcAndGeneratorOn, StartAdc, StopAdc, SwitchAdc, Fields,
                ReadActive, SelectSensor, SetActive, ClearActive, ClearFirstStart, SetNormal,
                SetCalibration, Assign
  <1>2. CASE SensorSteps(t) \/ GainKeySteps(t)
    BY <1>2 DEF SensorSteps, EnableActive, DisableActive, AllNormal, AllCalibration,
                CalibrateVoltage, VoltageNormal, SetLevel, Adjust, ShuntMinGain, ClampMinGain,
                MinGain, TurnAgcOff, GainKeySteps, ChooseHigher, ChooseLower, ChooseLevel,
                ProgramPreamp, ProgramAdc, StoreLevel, TakeNewGain
  <1>3. CASE CalibrationSteps(t)
    BY <1>3 DEF CalibrationSteps, Ask, TakeAnswer, StableData, StoreVoltage, StoreReading, Store,
                FirstLevel, NextLevel, SuspendCalibration, ResumeCalibration
  <1> QED BY <1>1, <1>2, <1>3 DEF Step

\* The reading filed under the active sensor is one of that sensor.
LEMMA ReadsActive ==
  ASSUME ServingInv, NEW t \in Tasks, Step(t), StableData(t)
  PROVE  /\ data'[Active].sensor = Active /\ Active' = Active
         /\ \A s \in Sensors : s # Active => data'[s] = data[s]
  <1>0. OutputInv /\ DriverTypes /\ DataOK /\ stack[t] # <<>> /\ Statement(t) = "StableData"
    BY OutputParts, FramesOfStep DEF ServingInv, ArgumentInv, NestingInv, StableData, Does
  <1>1. t = Actor
    BY <1>0, WhoActs DEF Return
  <1>2. PICK f \in Functions : \E p \in 1 .. Len(Body[f]) :
          At(t, f, p) /\ Statement(t) = Body[f][p] /\ Reached(f, p)
    BY <1>0, <1>1, ActorIsAt
  <1>3. PICK p \in 1 .. Len(Body[f]) : At(t, f, p) /\ Statement(t) = Body[f][p] /\ Reached(f, p)
    BY <1>2
  <1>4. \/ f = "CalibrationTask" /\ p = 7
        \/ f = "RequestResistorChangeAndCheckVout" /\ p = 7
        \/ f = "CalibrateSensor" /\ p = 6
    BY <1>0, <1>3, AdjustsAt
  <1>5. AllOn
    BY <1>3, <1>4 DEF Reached, Started, Switching
  <1>6. adc.on /\ adc.input = Active /\ sensor[adc.input].on
    BY <1>5 DEF AllOn, ServingInv, AdcServesActive, Measuring, Active
  <1>7. data' = [data EXCEPT ![Active] = [sensor |-> Active, gain |-> sensor[Active].gain]]
    BY <1>6 DEF StableData
  <1>8. Active' = Active /\ Active \in Sensors
    BY <1>0, ActiveKept, StateTyped
  <1> DEFINE reading == [sensor |-> Active, gain |-> sensor[Active].gain]
  <1>9. reading.sensor = Active /\ data' = [data EXCEPT ![Active] = reading]
    BY <1>7
  <1>10. data \in [Sensors -> Readings]
    BY <1>0 DEF DataOK
  <1> HIDE DEF reading
  <1> QED BY <1>8, <1>9, <1>10

LEMMA ReadingsStay ==
  ASSUME ServingInv, [Next]_vars, NEW s \in Sensors, data[s].sensor = s
  PROVE  data'[s].sensor = s
  <1>1. CASE \E t \in Tasks : Step(t)
    <2>1. PICK t \in Tasks : Step(t)
      BY <1>1
    <2>2. CASE StableData(t)
      BY <2>1, <2>2, ReadsActive
    <2>3. CASE data' = data
      BY <2>3
    <2> QED BY <2>1, <2>2, <2>3, DataKept
  <1>2. CASE ~ \E t \in Tasks : Step(t)
    BY <1>2 DEF Next, Wake, AgcMovesGain, PressKey, AnswerDialog, vars
  <1> QED BY <1>1, <1>2

LEMMA ReadBeforeAfter ==
  ASSUME ServingInv, ReadBefore, [Next]_vars, NEW t \in Tasks, Step(t),
         NEW i \in 1 .. Len(stack'[t]), HasRead(stack'[t][i].function, InProgress(t, i)')
  PROVE  data'[stack'[t][i].sensor].sensor = stack'[t][i].sensor
  <1> DEFINE f == stack'[t][i].function
             q == InProgress(t, i)'
             n == Len(stack[t])
  <1>0. /\ OutputInv /\ DriverTypes /\ StackInv /\ stack[t] # <<>> /\ Running(t) = stack[t][1]
        /\ n \in Nat \ {0} /\ Focused
        /\ WentOn(t) \/ WentInto(t) \/ WentBack(t) \/ WentRound(t)
    BY OutputParts, FramesOfStep DEF ServingInv, ArgumentInv, NestingInv
  <1>1. ASSUME NEW j \in 1 .. n, stack'[t][i].sensor = stack[t][j].sensor,
               HasRead(stack[t][j].function, InProgress(t, j))
        PROVE  data'[stack'[t][i].sensor].sensor = stack'[t][i].sensor
    <2>1. stack[t][j].sensor \in Sensors
      <3> DEFINE calls == stack[t]
      <3>1. calls \in Seq(Frames) /\ j \in 1 .. Len(calls)
        BY <1>0 DEF StackInv
      <3> HIDE DEF calls
      <3>2. calls[j] \in Frames
        BY <3>1
      <3> QED BY <3>2, FrameTyped DEF calls
    <2>2. data[stack[t][j].sensor].sensor = stack[t][j].sensor
      BY <1>1 DEF ReadBefore
    <2> QED BY <1>1, <2>1, <2>2, ReadingsStay
  <1>2. CASE \E j \in 1 .. n : SameFrame(t, i, j) /\ InProgress(t, i)' = InProgress(t, j)
    <2>1. PICK j \in 1 .. n : SameFrame(t, i, j) /\ InProgress(t, i)' = InProgress(t, j)
      BY <1>2
    <2>2. /\ f = stack[t][j].function /\ q = InProgress(t, j) /\ HasRead(f, q)
          /\ stack'[t][i].sensor = stack[t][j].sensor
      BY <2>1 DEF SameFrame
    <2> HIDE DEF f, q
    <2>3. HasRead(stack[t][j].function, InProgress(t, j))
      BY <2>2
    <2> QED BY <1>1, <2>2, <2>3
  <1>3. 1 \in 1 .. n /\ InProgress(t, 1) = Running(t).pc
    BY <1>0, TopIsFirst DEF InProgress
  <1>4. CASE i = 1 /\ WentOn(t) /\ SameFrame(t, 1, 1) /\ InProgress(t, 1)' = InProgress(t, 1) + 1
    <2> DEFINE g == Running(t).function
               k == Running(t).pc
    <2>1. /\ f = g /\ q = k + 1 /\ k \in 1 .. 20 /\ HasRead(f, q) /\ Statement(t) = Body[g][k]
          /\ stack'[t][1].sensor = stack[t][1].sensor
      BY <1>0, <1>3, <1>4, TopOfTask DEF SameFrame
    <2>2. HasRead(g, k) \/ (g = "CalibrateSensor" /\ k = 6) \/ (g = "CalibrationTask" /\ k = 7)
      <3> HIDE DEF f, q, g, k
      <3> DEFINE l == k + 1
      <3>1. (l >= 7 => k >= 7 \/ k = 6) /\ (l >= 8 => k >= 8 \/ k = 7)
        BY <2>1
      <3>2. HasRead(g, l)
        BY <2>1
      <3> HIDE DEF l
      <3> QED BY <3>1, <3>2 DEF HasRead
    <2>3. CASE HasRead(g, k)
      <3>1. HasRead(stack[t][1].function, InProgress(t, 1))
        BY <1>0, <1>3, <2>3
      <3> QED BY <1>1, <1>3, <1>4, <2>1, <3>1
    <2>4. CASE (g = "CalibrateSensor" /\ k = 6) \/ (g = "CalibrationTask" /\ k = 7)
      <3>1. Statement(t) = "StableData"
        BY <2>1, <2>4 DEF Body, CalibrateSensor, CalibrationTask
      <3>2. StableData(t)
        BY <3>1, StatementOfStep
      <3>3. stack[t][1].sensor = Active
        <4>1. Relies(g, k)
          BY <2>4 DEF Relies
        <4>2. Relies(stack[t][1].function, InProgress(t, 1))
          BY <1>0, <1>3, <4>1
        <4> QED BY <1>0, <1>3, <4>2 DEF Focused
      <3> QED BY <1>4, <2>1, <3>2, <3>3, ReadsActive
    <2> QED BY <2>2, <2>3, <2>4
  <1>5. CASE /\ i = 1 /\ WentBack(t) /\ 2 \in 2 .. n /\ SameFrame(t, 1, 2)
             /\ InProgress(t, 1)' = InProgress(t, 2) + 1
    <2> DEFINE g == stack[t][2].function
               k == InProgress(t, 2)
               c == Waited(t, 2)
    <2>1. CallsAt(g, k, c) /\ k \in 1 .. 19
      BY <1>0, <1>5, WaitingIn DEF Waited, InProgress
    <2>2. f = g /\ q = k + 1 /\ HasRead(f, q) /\ stack'[t][1].sensor = stack[t][2].sensor
      BY <1>5 DEF SameFrame
    <2>3. HasRead(g, k)
      <3> HIDE DEF f, q, g, k, c
      <3> DEFINE l == k + 1
      <3>1. (l >= 7 => k >= 7 \/ k = 6) /\ (l >= 8 => k >= 8 \/ k = 7)
        BY <2>1
      <3>2. HasRead(g, l)
        BY <2>2
      <3> HIDE DEF l
      <3>3. HasRead(g, k) \/ (g = "CalibrateSensor" /\ k = 6) \/ (g = "CalibrationTask" /\ k = 7)
        BY <3>1, <3>2 DEF HasRead
      <3> QED BY <2>1, <3>3 DEF CallsAt
    <2>4. 2 \in 1 .. n
      <3> HIDE DEF n
      <3> QED BY <1>0, <1>5
    <2> QED BY <1>1, <1>5, <2>2, <2>3, <2>4
  <1>6. CASE i = 1 /\ WentInto(t)
    <2>1. q = 1
      BY <1>6 DEF WentInto, Frame, InProgress
    <2> QED BY <2>1 DEF HasRead
  <1>7. CASE i = 1 /\ WentRound(t)
    <2>1. f = "CalibrationTask" /\ q \in {1, 12}
      BY <1>7 DEF WentRound, InProgress
    <2>2. q = 12
      <3> SUFFICES ASSUME q = 1 PROVE FALSE
        BY <2>1
      <3> HIDE DEF f, q
      <3> HasRead(f, q)
        BY DEF f, q
      <3> QED BY <2>1 DEF HasRead
    <2>3. /\ Running(t).function = "CalibrationTask" /\ Running(t).pc = 17
          /\ stack'[t][1].sensor = Running(t).sensor
      BY <1>7, <2>2 DEF WentRound, InProgress
    <2>4. HasRead(stack[t][1].function, InProgress(t, 1))
      BY <1>0, <1>3, <2>3 DEF HasRead
    <2> QED BY <1>0, <1>1, <1>3, <1>7, <2>3, <2>4
  <1> QED BY <1>0, <1>2, <1>4, <1>5, <1>6, <1>7, FrameAfter

\* What is stored under a sensor was read from it.
LEMMA StoresRead ==
  ASSUME ServingInv, ReadBefore, NEW t \in Tasks, Step(t), StoredFromItsSensor
  PROVE  StoredFromItsSensor'
  <1>0. /\ OutputInv /\ DriverTypes /\ StackInv /\ DataOK /\ AboutVoltage
        /\ stack[t] # <<>> /\ Running(t) = stack[t][1]
    BY OutputParts, FramesOfStep DEF ServingInv, ArgumentInv, NestingInv
  <1>1. 1 \in 1 .. Len(stack[t]) /\ InProgress(t, 1) = Running(t).pc
    BY <1>0, TopIsFirst DEF InProgress
  <1>2. /\ Running(t).function \in Functions /\ Running(t).sensor \in Sensors
        /\ Running(t).pc \in 1 .. Len(Body[Running(t).function])
        /\ Statement(t) = Body[Running(t).function][Running(t).pc]
    BY <1>0, TopOfTask, FrameTyped
  <1>3. ASSUME NEW s \in Sensors, NEW l, stored' = [stored EXCEPT ![s][l] = data[s]],
               data[s].sensor = s
        PROVE  StoredFromItsSensor'
    <2> SUFFICES ASSUME NEW r \in Sensors, NEW k \in Levels
                 PROVE  stored'[r][k].sensor \in {r, "notStored"}
      BY DEF StoredFromItsSensor
    <2>1. stored'[r][k] = IF r = s /\ k = l THEN data[s] ELSE stored[r][k]
      BY <1>0, <1>3 DEF DataOK
    <2> QED BY <1>3, <2>1 DEF StoredFromItsSensor
  <1>4. CASE StoreVoltage(t)
    <2>1. Statement(t) = "StoreVoltage" /\ stored' = [stored EXCEPT !["Voltage"][1] = data["Voltage"]]
      BY <1>4 DEF StoreVoltage, Store, Does
    <2>2. Running(t).function = "CalibrationTask" /\ Running(t).pc = 9
      <3> DEFINE f == Running(t).function
                 p == Running(t).pc
      <3>1. /\ f \in Functions /\ p \in 1 .. Len(Body[f])
            /\ Body[f][p] = "StoreVoltage"
        BY <1>2, <2>1
      <3> HIDE DEF f, p
      <3>2. f = "CalibrationTask" /\ p = 9
        BY <3>1, AdjustsAt
      <3> QED BY <3>2 DEF f, p
    <2>3. Running(t).sensor = "Voltage"
      BY <1>0, <1>1, <2>2 DEF AboutVoltage
    <2>4. data["Voltage"].sensor = "Voltage"
      BY <1>0, <1>1, <2>2, <2>3 DEF ReadBefore, HasRead
    <2> QED BY <1>3, <2>1, <2>4 DEF Sensors
  <1>5. CASE StoreReading(t)
    <2> DEFINE s == Running(t).sensor
    <2>1. Statement(t) = "StoreReading" /\ stored' = [stored EXCEPT ![s][level] = data[s]]
      BY <1>5 DEF StoreReading, Store, Does
    <2>2. Running(t).function = "CalibrateSensor" /\ Running(t).pc = 9
      <3> DEFINE f == Running(t).function
                 p == Running(t).pc
      <3>1. /\ f \in Functions /\ p \in 1 .. Len(Body[f])
            /\ Body[f][p] = "StoreReading"
        BY <1>2, <2>1
      <3> HIDE DEF f, p
      <3>2. f = "CalibrateSensor" /\ p = 9
        BY <3>1, AdjustsAt
      <3> QED BY <3>2 DEF f, p
    <2>3. data[s].sensor = s
      BY <1>0, <1>1, <2>2 DEF ReadBefore, HasRead
    <2> HIDE DEF s
    <2>4. s \in Sensors
      BY <1>2 DEF s
    <2> QED BY <1>3, <2>1, <2>3, <2>4
  <1>6. CASE stored' = stored
    BY <1>6 DEF StoredFromItsSensor
  <1> QED BY <1>4, <1>5, <1>6, DataKept

LEMMA KeepsReadings ==
  ASSUME StoredInv, [Next]_vars
  PROVE  ReadBefore' /\ StoredFromItsSensor'
  <1>0. /\ ServingInv /\ ReadBefore /\ StoredFromItsSensor
        /\ OutputInv /\ DriverTypes /\ StackInv
    BY OutputParts DEF StoredInv, ServingInv, ArgumentInv, NestingInv
  <1>1. ReadBefore'
    <2> SUFFICES ASSUME NEW t \in Tasks, NEW i \in 1 .. Len(stack'[t]),
                        HasRead(stack'[t][i].function, InProgress(t, i)')
                 PROVE  data'[stack'[t][i].sensor].sensor = stack'[t][i].sensor
      BY DEF ReadBefore
    <2>1. CASE Step(t)
      BY <1>0, <2>1, ReadBeforeAfter
    <2>2. CASE stack'[t] = stack[t]
      <3>1. /\ InProgress(t, i)' = InProgress(t, i) /\ i \in 1 .. Len(stack[t])
            /\ stack'[t][i] = stack[t][i]
        BY <2>2 DEF InProgress
      <3>2. data[stack[t][i].sensor].sensor = stack[t][i].sensor
        BY <1>0, <3>1 DEF ReadBefore
      <3>3. stack[t][i].sensor \in Sensors
        <4> DEFINE calls == stack[t]
        <4>1. calls \in Seq(Frames) /\ i \in 1 .. Len(calls)
          BY <1>0, <3>1 DEF StackInv
        <4> HIDE DEF calls
        <4>2. calls[i] \in Frames
          BY <4>1
        <4> QED BY <4>2, FrameTyped DEF calls
      <3> QED BY <1>0, <3>1, <3>2, <3>3, ReadingsStay
    <2>3. CASE t = "keyboard" /\ \E operation \in Keys : PressKey(operation)
      <3>1. Len(stack'[t]) = 1 /\ stack'[t][1].function \in Operations
        BY <1>0, <2>3, PressedKey
      <3>2. i = 1
        <4> DEFINE m == Len(stack'[t])
        <4>1. i \in 1 .. m /\ m = 1
          BY <3>1
        <4> HIDE DEF m
        <4> QED BY <4>1
      <3> QED BY <3>1, <3>2 DEF Operations, HasRead
    <2> QED BY <1>0, <2>1, <2>2, <2>3, WhoseStack
  <1>2. StoredFromItsSensor'
    <2>1. ASSUME NEW t \in Tasks, Step(t) PROVE StoredFromItsSensor'
      BY <1>0, <2>1, StoresRead
    <2>2. CASE ~ \E t \in Tasks : Step(t)
      <3>1. stored' = stored
        BY <2>2 DEF Next, Wake, AgcMovesGain, PressKey, AnswerDialog, vars
      <3> QED BY <1>0, <3>1 DEF StoredFromItsSensor
    <2> QED BY <2>1, <2>2
  <1> QED BY <1>1, <1>2

LEMMA InitReadings == Init => ReadBefore /\ StoredFromItsSensor
  <1> SUFFICES ASSUME Init PROVE ReadBefore /\ StoredFromItsSensor
    OBVIOUS
  <1>1. ReadBefore
    BY FramesAtFirst DEF ReadBefore, InProgress, HasRead
  <1>2. StoredFromItsSensor
    BY DEF Init, StoredFromItsSensor, NotStored
  <1> QED BY <1>1, <1>2

\* What is stored as a sensor's calibration was read from that sensor: between the
\* reading, filed under whichever sensor is active, and the store, the sensor is
\* stopped, the calls return, and the levels of the other sensor are calibrated.
THEOREM StoredWhatItRead ==
  ASSUME KeysWhileCalibrating = {}
  PROVE  Spec => []StoredFromItsSensor
  <1>1. Spec => []ServingInv
    BY AlwaysServing
  <1>2. Init => ReadBefore /\ StoredFromItsSensor
    BY InitReadings
  <1>3. ServingInv /\ ReadBefore /\ StoredFromItsSensor /\ [Next]_vars
          => ReadBefore' /\ StoredFromItsSensor'
    BY KeepsReadings DEF StoredInv
  <1> QED BY <1>1, <1>2, <1>3, PTL DEF Spec

=============================================================================
