------------------------- MODULE ClampMeterDriverProofs -------------------------
(***************************************************************************)
(* That the driver's calls and returns keep its two stacks well formed,    *)
(* that every variable keeps its type, and that the buzzer sounds for the  *)
(* clamp only, for any levels, keys and depth of calls.                    *)
(***************************************************************************)
EXTENDS ClampMeterDriver, SequenceTheorems, TLAPS

\* A body's statements, a caller and the function it waits for.
Functions == DOMAIN Body

\* The caller is past the statement that called the function.
WaitsFor(caller, function) ==
  /\ caller.pc > 1 /\ Body[caller.function][caller.pc - 1] \in DOMAIN Callee
  /\ function = Callee[Body[caller.function][caller.pc - 1]]

WellFormed(calls) ==
  /\ calls \in Seq(Frames)
  /\ \A i \in 1 .. Len(calls) : calls[i].pc <= Len(Body[calls[i].function])
  /\ \A i \in 2 .. Len(calls) : WaitsFor(calls[i], calls[i - 1].function)

Bottom(t) == stack[t][Len(stack[t])].function

StackInv ==
  /\ stack \in [Tasks -> Seq(Frames)] /\ \A t \in Tasks : WellFormed(stack[t])
  /\ stack["calibration"] # <<>> /\ Bottom("calibration") = "CalibrationTask"
  /\ stack["keyboard"] # <<>> => Bottom("keyboard") \in Operations

At(t, function, pc) ==
  stack[t] # <<>> /\ Running(t).function = function /\ Running(t).pc = pc

-----------------------------------------------------------------------------
\* The bodies.

LEMMA FunctionsAre ==
  Functions = {"StartMeasurements", "FirstStart", "StopMeasurements", "SetAndActivateSensor",
    "StartNormalModeOperation", "StartCalibration", "Stop", "SwitchToNextSensor",
    "DisableAGC", "IncreaseGain", "DecreaseGain", "CalibrationTask",
    "RequestResistorChangeAndCheckVout", "CalibrateSensor"}
  BY DEF Functions, Body

LEMMA BodyShape ==
  ASSUME NEW f \in Functions
  PROVE  /\ Len(Body[f]) \in 2 .. 20 /\ 1 <= Len(Body[f])
         /\ \A p \in 1 .. Len(Body[f]) :
              /\ Body[f][p] \in {"Return", "Loop"} <=> p = Len(Body[f])
              /\ Body[f][p] = "Loop" => f = "CalibrationTask"
              /\ Body[f][p] = "Return" => f # "CalibrationTask"
              /\ Body[f][p] = "NextLevel" <=> f = "CalibrationTask" /\ p = 17
              /\ Body[f][p] = "SelectSensor" <=> f = "SetAndActivateSensor" /\ p = 4
              /\ Body[f][p] = "ResumeCalibration" <=> f = "StartCalibration" /\ p = 4
  <1>1. CASE f = "StartMeasurements"
    BY <1>1 DEF Body, StartMeasurements
  <1>2. CASE f = "FirstStart"
    BY <1>2 DEF Body, FirstStart
  <1>3. CASE f = "StopMeasurements"
    BY <1>3 DEF Body, StopMeasurements
  <1>4. CASE f = "SetAndActivateSensor"
    BY <1>4 DEF Body, SetAndActivateSensor
  <1>5. CASE f = "StartNormalModeOperation"
    BY <1>5 DEF Body, StartNormalModeOperation
  <1>6. CASE f = "StartCalibration"
    BY <1>6 DEF Body, StartCalibration
  <1>7. CASE f = "Stop"
    BY <1>7 DEF Body, Stop
  <1>8. CASE f = "SwitchToNextSensor"
    BY <1>8 DEF Body, SwitchToNextSensor
  <1>9. CASE f = "DisableAGC"
    BY <1>9 DEF Body
  <1>10. CASE f = "IncreaseGain"
    BY <1>10 DEF Body, IncreaseGain
  <1>11. CASE f = "DecreaseGain"
    BY <1>11 DEF Body, DecreaseGain
  <1>12. CASE f = "CalibrationTask"
    BY <1>12 DEF Body, CalibrationTask
  <1>13. CASE f = "RequestResistorChangeAndCheckVout"
    BY <1>13 DEF Body, RequestResistorChangeAndCheckVout
  <1>14. CASE f = "CalibrateSensor"
    BY <1>14 DEF Body, CalibrateSensor
  <1> QED BY FunctionsAre, <1>1, <1>2, <1>3, <1>4, <1>5, <1>6, <1>7, <1>8, <1>9, <1>10, <1>11, <1>12, <1>13, <1>14

LEMMA CalleesAre ==
  ASSUME NEW s \in DOMAIN Callee
  PROVE  /\ Callee[s] \in {"StartMeasurements", "FirstStart", "StopMeasurements",
               "SetAndActivateSensor", "Stop", "RequestResistorChangeAndCheckVout",
               "CalibrateSensor"}
         /\ Callee[s] \in Functions
  BY DEF Callee, Functions, Body

LEMMA FrameTyped ==
  ASSUME NEW f \in Frames
  PROVE  f.function \in Functions /\ f.pc \in 1 .. 20 /\ f.sensor \in Sensors /\ f.wasActive \in BOOLEAN
         /\ f.newGain \in 0 .. MaxLevel
  BY DEF Frames, Functions

-----------------------------------------------------------------------------
\* Stacks of calls.

LEMMA TopOf ==
  ASSUME NEW calls, WellFormed(calls), calls # <<>>
  PROVE  /\ Len(calls) \in Nat \ {0} /\ Head(calls) = calls[1] /\ Head(calls) \in Frames
         /\ Head(calls).pc \in 1 .. Len(Body[Head(calls).function])
         /\ Head(calls).function \in Functions
  <1>1. calls \in Seq(Frames) /\ Len(calls) \in Nat \ {0}
    BY EmptySeq DEF WellFormed
  <1>2. Head(calls) = calls[1] /\ Head(calls) \in Frames
    BY <1>1, HeadTailProperties
  <1>3. Head(calls).pc <= Len(Body[Head(calls).function])
    BY <1>1, <1>2 DEF WellFormed
  <1>4. Head(calls).pc \in 1 .. 20 /\ Head(calls).function \in Functions
    BY <1>2, FrameTyped
  <1>5. Len(Body[Head(calls).function]) \in 2 .. 20
    BY <1>4, BodyShape
  <1>6. Head(calls).pc \in 1 .. Len(Body[Head(calls).function])
    <2> DEFINE at == Head(calls).pc
               end == Len(Body[Head(calls).function])
    <2>1. at \in Int /\ at >= 1 /\ end \in Int /\ at <= end
      BY <1>3, <1>4, <1>5
    <2> HIDE DEF at, end
    <2>2. at \in 1 .. end
      BY <2>1
    <2> QED BY <2>2 DEF at, end
  <1> QED BY <1>1, <1>2, <1>4, <1>6

\* The innermost call goes on.
GoneOn(calls, f) == <<f>> \o Tail(calls)
Called(calls, g, f) == <<g, f>> \o Tail(calls)

LEMMA TopReplaced ==
  ASSUME NEW calls, WellFormed(calls), calls # <<>>, NEW f \in Frames,
         f.function = Head(calls).function, f.pc <= Len(Body[f.function]),
         NEW new, new = GoneOn(calls, f)
  PROVE  /\ WellFormed(new) /\ new # <<>> /\ Head(new) = f /\ Len(new) = Len(calls)
         /\ \A i \in 2 .. Len(calls) : new[i] = calls[i]
         /\ new[Len(new)].function = calls[Len(calls)].function
  <1>1. /\ calls \in Seq(Frames) /\ Len(calls) \in Nat \ {0} /\ Head(calls) = calls[1]
    BY TopOf DEF WellFormed
  <1>2. /\ new \in Seq(Frames) /\ Len(new) = Len(calls) /\ new # <<>> /\ Head(new) = f
        /\ new[1] = f /\ \A i \in 2 .. Len(calls) : new[i] = calls[i]
    BY <1>1 DEF GoneOn
  <1>3. \A i \in 1 .. Len(new) : new[i].pc <= Len(Body[new[i].function])
    BY <1>1, <1>2 DEF WellFormed
  <1>4. ASSUME NEW i \in 2 .. Len(new) PROVE WaitsFor(new[i], new[i - 1].function)
    <2>1. new[i] = calls[i] /\ i - 1 \in 1 .. Len(calls) /\ i \in 2 .. Len(calls)
      BY <1>1, <1>2
    <2>2. new[i - 1].function = calls[i - 1].function
      BY <1>1, <1>2, <2>1
    <2> QED BY <2>1, <2>2 DEF WellFormed
  <1>5. new[Len(new)].function = calls[Len(calls)].function
    BY <1>1, <1>2
  <1> QED BY <1>2, <1>3, <1>4, <1>5 DEF WellFormed

\* It calls another function.
LEMMA TopCalls ==
  ASSUME NEW calls, WellFormed(calls), calls # <<>>, NEW f \in Frames, NEW g \in Frames,
         f.function = Head(calls).function, f.pc <= Len(Body[f.function]),
         g.pc = 1, WaitsFor(f, g.function),
         NEW new, new = Called(calls, g, f)
  PROVE  /\ WellFormed(new) /\ new # <<>> /\ Head(new) = g /\ Len(new) = Len(calls) + 1
         /\ new[2] = f /\ \A i \in 2 .. Len(calls) : new[i + 1] = calls[i]
         /\ new[Len(new)].function = calls[Len(calls)].function
  <1>1. /\ calls \in Seq(Frames) /\ Len(calls) \in Nat \ {0} /\ Head(calls) = calls[1]
    BY TopOf DEF WellFormed
  <1>2. /\ new \in Seq(Frames) /\ Len(new) = Len(calls) + 1 /\ new # <<>> /\ Head(new) = g
        /\ new[1] = g /\ new[2] = f /\ \A i \in 3 .. Len(calls) + 1 : new[i] = calls[i - 1]
    BY <1>1 DEF Called
  <1>3. ASSUME NEW i \in 1 .. Len(new) PROVE new[i].pc <= Len(Body[new[i].function])
    <2>1. CASE i = 1
      <3>1. g.function \in Functions
        BY FrameTyped
      <3>2. 1 <= Len(Body[g.function])
        BY <3>1, BodyShape
      <3>3. new[i] = g
        BY <1>2, <2>1
      <3>4. g.pc <= Len(Body[g.function])
        BY <3>2, Zenon
      <3> QED BY <3>3, <3>4
    <2>2. CASE i = 2
      BY <1>2, <2>2
    <2>3. CASE i > 2
      <3>1. new[i] = calls[i - 1] /\ i - 1 \in 1 .. Len(calls)
        BY <1>1, <1>2, <2>3
      <3> QED BY <3>1 DEF WellFormed
    <2> QED BY <1>1, <1>2, <2>1, <2>2, <2>3
  <1>4. ASSUME NEW i \in 2 .. Len(new) PROVE WaitsFor(new[i], new[i - 1].function)
    <2>1. CASE i = 2
      BY <1>2, <2>1
    <2>2. CASE i > 2
      <3> DEFINE j == i - 1
      <3>1. new[i] = calls[j] /\ j \in 2 .. Len(calls)
        BY <1>1, <1>2, <2>2
      <3>2. new[i - 1].function = calls[j - 1].function
        BY <1>1, <1>2, <2>2
      <3> HIDE DEF j
      <3>3. WaitsFor(calls[j], calls[j - 1].function)
        BY <3>1 DEF WellFormed
      <3> QED BY <3>1, <3>2, <3>3
    <2> QED BY <1>1, <1>2, <2>1, <2>2
  <1>5. new[Len(new)].function = calls[Len(calls)].function
    BY <1>1, <1>2
  <1>6. \A i \in 2 .. Len(calls) : new[i + 1] = calls[i]
    BY <1>1, <1>2
  <1> QED BY <1>2, <1>3, <1>4, <1>5, <1>6 DEF WellFormed

\* It returns.
LEMMA TopReturns ==
  ASSUME NEW calls, WellFormed(calls), calls # <<>>,
         NEW new, new = Tail(calls)
  PROVE  /\ WellFormed(new) /\ Len(new) = Len(calls) - 1
         /\ \A i \in 1 .. Len(new) : new[i] = calls[i + 1]
         /\ new # <<>> =>
              /\ Head(new) = calls[2] /\ WaitsFor(Head(new), Head(calls).function)
              /\ new[Len(new)].function = calls[Len(calls)].function
  <1>1. /\ calls \in Seq(Frames) /\ Len(calls) \in Nat \ {0} /\ Head(calls) = calls[1]
    BY TopOf DEF WellFormed
  <1>2. /\ new \in Seq(Frames) /\ Len(new) = Len(calls) - 1 /\ Len(new) \in Nat
        /\ \A i \in 1 .. Len(new) : new[i] = calls[i + 1]
    BY <1>1, HeadTailProperties, LenProperties
  <1>3. \A i \in 1 .. Len(new) : new[i].pc <= Len(Body[new[i].function])
    <2> SUFFICES ASSUME NEW i \in 1 .. Len(new) PROVE new[i].pc <= Len(Body[new[i].function])
      OBVIOUS
    <2>1. i + 1 \in 1 .. Len(calls) /\ new[i] = calls[i + 1]
      BY <1>1, <1>2
    <2> QED BY <2>1 DEF WellFormed
  <1>4. ASSUME NEW i \in 2 .. Len(new) PROVE WaitsFor(new[i], new[i - 1].function)
    <2>1. /\ i + 1 \in 2 .. Len(calls) /\ new[i] = calls[i + 1]
          /\ new[i - 1] = calls[i + 1 - 1]
      BY <1>1, <1>2
    <2> QED BY <2>1 DEF WellFormed
  <1>5. ASSUME new # <<>>
        PROVE  /\ Head(new) = calls[2] /\ WaitsFor(Head(new), Head(calls).function)
               /\ new[Len(new)].function = calls[Len(calls)].function
    <2>1. Len(new) \in Nat \ {0}
      BY <1>2, <1>5, EmptySeq
    <2>2. Head(new) = new[1]
      BY <1>2, <1>5, HeadTailProperties
    <2>3. new[1] = calls[2] /\ new[Len(new)] = calls[Len(calls)] /\ 2 \in 2 .. Len(calls)
      BY <1>1, <1>2, <2>1
    <2>4. WaitsFor(calls[2], calls[2 - 1].function)
      BY <2>3 DEF WellFormed
    <2> QED BY <1>1, <2>2, <2>3, <2>4
  <1> QED BY <1>2, <1>3, <1>4, <1>5 DEF WellFormed

\* It begins, as the only one.
LEMMA TopAlone ==
  ASSUME NEW f \in Functions, NEW s \in Sensors, NEW new, new = <<Frame(f, s)>>
  PROVE  /\ WellFormed(new) /\ new # <<>> /\ Head(new) = Frame(f, s) /\ Len(new) = 1
         /\ Frame(f, s) \in Frames /\ Frame(f, s).function = f /\ Frame(f, s).pc = 1
         /\ new[Len(new)].function = f
  <1>1. 1 <= Len(Body[f])
    BY BodyShape
  <1> DEFINE frame == Frame(f, s)
  <1>2. frame \in Frames /\ frame.function = f /\ frame.pc = 1
    <2>1. 0 \in 0 .. MaxLevel
      BY DriverAssumption
    <2> QED BY <2>1 DEF Frame, Frames, Functions
  <1> HIDE DEF frame
  <1>3. new \in Seq(Frames) /\ Len(new) = 1 /\ new[1] = frame /\ Head(new) = frame /\ new # <<>>
    BY <1>2 DEF frame
  <1>4. frame.pc <= Len(Body[frame.function])
    BY <1>1, <1>2, Zenon
  <1>5. \A i \in 1 .. Len(new) : new[i].pc <= Len(Body[new[i].function])
    BY <1>3, <1>4
  <1>6. \A i \in 2 .. Len(new) : WaitsFor(new[i], new[i - 1].function)
    BY <1>3
  <1> QED BY <1>2, <1>3, <1>5, <1>6 DEF frame, WellFormed

-----------------------------------------------------------------------------
\* What a step of a task does to its stack.

\* The innermost frame after a statement, which may have noted isActive.
Onward(t, f) ==
  /\ f.function = Running(t).function /\ f.pc = Running(t).pc + 1
  /\ f.sensor = Running(t).sensor /\ f.pc <= Len(Body[f.function])
  /\ f.wasActive \in {Running(t).wasActive, state.isActive}

Goes(t) == \E f \in Frames :
  /\ Onward(t, f)
  /\ stack' = [stack EXCEPT ![t] = GoneOn(@, f)]

Calls(t) == \E f, g \in Frames :
  /\ Onward(t, f) /\ Statement(t) \in DOMAIN Callee /\ Made(Statement(t), Running(t))
  /\ Statement(t) = "StartIfWasActive" => f.wasActive = Running(t).wasActive
  /\ g = Frame(Callee[Statement(t)], Argument(Statement(t), Running(t)))
  /\ WaitsFor(f, g.function)
  /\ stack' = [stack EXCEPT ![t] = Called(@, g, f)]

Returns(t) ==
  /\ Running(t).pc = Len(Body[Running(t).function]) /\ Statement(t) = "Return"
  /\ stack' = [stack EXCEPT ![t] = Tail(@)]

Loops(t) ==
  /\ Running(t).function = "CalibrationTask" /\ Running(t).pc = 20
  /\ stack' = [stack EXCEPT ![t] = <<Frame("CalibrationTask", "Voltage")>>]

GoesBack(t) == \E f \in Frames :
  /\ Running(t).function = "CalibrationTask" /\ Running(t).pc = 17
  /\ f.function = "CalibrationTask" /\ f.pc = 12 /\ f.wasActive = Running(t).wasActive
  /\ f.sensor = Running(t).sensor
  /\ stack' = [stack EXCEPT ![t] = GoneOn(@, f)]

Moves(t) ==
  /\ stack[t] # <<>>
  /\ Goes(t) \/ Calls(t) \/ Returns(t) \/ Loops(t) \/ GoesBack(t)

LEMMA TopOfTask ==
  ASSUME StackInv, NEW t \in Tasks, stack[t] # <<>>
  PROVE  /\ Running(t) \in Frames /\ Running(t).function \in Functions
         /\ Running(t).pc \in 1 .. Len(Body[Running(t).function])
         /\ Statement(t) = Body[Running(t).function][Running(t).pc]
         /\ Running(t).pc \in 1 .. 20
  <1>1. WellFormed(stack[t])
    BY DEF StackInv
  <1>2. /\ Running(t) \in Frames /\ Running(t).function \in Functions
        /\ Running(t).pc \in 1 .. Len(Body[Running(t).function])
    BY <1>1, TopOf DEF Running
  <1> QED BY <1>2, FrameTyped DEF Statement

LEMMA RunningTask ==
  ASSUME StackInv, NEW t \in Tasks, Runs(t)
  PROVE  stack[t] # <<>>
  BY DEF StackInv, Runs, Tasks

\* A statement that is not the last of its body.
LEMMA NotLast ==
  ASSUME StackInv, NEW t \in Tasks, stack[t] # <<>>, Statement(t) \notin {"Return", "Loop"}
  PROVE  Running(t).pc + 1 <= Len(Body[Running(t).function]) /\ Running(t).pc + 1 \in 1 .. 20
  <1> DEFINE f == Running(t).function
             p == Running(t).pc
             n == Len(Body[f])
  <1>1. f \in Functions /\ p \in 1 .. n /\ Statement(t) = Body[f][p]
    BY TopOfTask
  <1>2. n \in 2 .. 20 /\ (Body[f][p] \in {"Return", "Loop"} <=> p = n)
    BY <1>1, BodyShape
  <1> HIDE DEF f, p, n
  <1>3. p # n
    BY <1>1, <1>2
  <1>4. p + 1 <= n /\ p + 1 \in 1 .. 20
    BY <1>1, <1>2, <1>3
  <1> QED BY <1>4 DEF f, p, n

LEMMA DoesGoes ==
  ASSUME StackInv, NEW t \in Tasks, NEW s, s \notin {"Return", "Loop"}, Does(t, s)
  PROVE  stack[t] # <<>> /\ Goes(t)
  <1>1. Runs(t) /\ Statement(t) = s /\ stack' = [stack EXCEPT ![t] = Advanced(@)]
    BY DEF Does
  <1>2. stack[t] # <<>>
    BY <1>1, RunningTask
  <1>3. /\ Running(t) \in Frames /\ Running(t).pc \in 1 .. 20
        /\ Running(t).pc + 1 <= Len(Body[Running(t).function]) /\ Running(t).pc + 1 \in 1 .. 20
    BY <1>1, <1>2, TopOfTask, NotLast
  <1> DEFINE f == [Running(t) EXCEPT !.pc = @ + 1]
  <1>4. /\ f \in Frames /\ f.function = Running(t).function /\ f.pc = Running(t).pc + 1
        /\ f.sensor = Running(t).sensor /\ f.wasActive = Running(t).wasActive
    BY <1>3 DEF Frames
  <1>5. stack' = [stack EXCEPT ![t] = GoneOn(@, f)]
    BY <1>1 DEF Advanced, Running, GoneOn, StackInv
  <1> HIDE DEF f
  <1>6. f.pc <= Len(Body[f.function])
    BY <1>3, <1>4, Zenon
  <1> QED BY <1>2, <1>4, <1>5, <1>6 DEF Goes, Onward

LEMMA ReadActiveGoes ==
  ASSUME StackInv, NEW t \in Tasks, state.isActive \in BOOLEAN, ReadActive(t)
  PROVE  stack[t] # <<>> /\ Goes(t)
  <1>1. Runs(t) /\ Statement(t) = "ReadActive"
    BY DEF ReadActive
  <1>2. stack[t] # <<>>
    BY <1>1, RunningTask
  <1>3. /\ Running(t) \in Frames /\ Running(t).pc \in 1 .. 20
        /\ Running(t).pc + 1 <= Len(Body[Running(t).function]) /\ Running(t).pc + 1 \in 1 .. 20
    BY <1>1, <1>2, TopOfTask, NotLast
  <1> DEFINE r == [Running(t) EXCEPT !.wasActive = state.isActive]
             f == [r EXCEPT !.pc = @ + 1]
  <1>4. /\ f \in Frames /\ f.function = Running(t).function /\ f.pc = Running(t).pc + 1
        /\ f.sensor = Running(t).sensor /\ f.wasActive = state.isActive
    BY <1>3 DEF Frames
  <1>5. stack' = [stack EXCEPT ![t] = Advanced(<<r>> \o Tail(@))]
    BY DEF ReadActive, Running
  <1> DEFINE calls == stack[t]
  <1>6. Advanced(<<r>> \o Tail(calls)) = GoneOn(calls, f)
    <2>1. calls \in Seq(Frames) /\ r \in Frames /\ calls # <<>>
      BY <1>2, <1>3 DEF StackInv, Frames
    <2> HIDE DEF calls, r
    <2>2. Head(<<r>> \o Tail(calls)) = r /\ Tail(<<r>> \o Tail(calls)) = Tail(calls)
      BY <2>1
    <2> QED BY <2>2 DEF Advanced, GoneOn
  <1>7. stack' = [stack EXCEPT ![t] = GoneOn(@, f)]
    BY <1>5, <1>6
  <1> HIDE DEF f
  <1>8. f.pc <= Len(Body[f.function])
    BY <1>3, <1>4, Zenon
  <1> QED BY <1>2, <1>4, <1>7, <1>8 DEF Goes, Onward

LEMMA CallMoves ==
  ASSUME StackInv, NEW t \in Tasks, state.isActive \in BOOLEAN, state.activeSensor \in Sensors,
         Call(t)
  PROVE  /\ stack[t] # <<>> /\ Statement(t) \in DOMAIN Callee
         /\ IF Made(Statement(t), Running(t))
            THEN /\ Calls(t) /\ Head(stack'[t]).function = Callee[Statement(t)]
                 /\ Head(stack'[t]).wasActive = FALSE
                 /\ Head(stack'[t]).sensor = Argument(Statement(t), Running(t))
            ELSE Goes(t)
  <1>1. Runs(t) /\ Statement(t) \in DOMAIN Callee
    BY DEF Call
  <1>2. stack[t] # <<>>
    BY <1>1, RunningTask
  <1>3. Statement(t) \notin {"Return", "Loop"}
    BY <1>1 DEF Callee
  <1>4. /\ Running(t) \in Frames /\ Running(t).pc \in 1 .. 20
        /\ Running(t).pc + 1 <= Len(Body[Running(t).function]) /\ Running(t).pc + 1 \in 1 .. 20
        /\ Statement(t) = Body[Running(t).function][Running(t).pc]
    BY <1>2, <1>3, TopOfTask, NotLast
  <1> DEFINE s == Statement(t)
             was == IF s = "StopIfActive" THEN Running(t).wasActive \/ state.isActive
                    ELSE Running(t).wasActive
             f == [Running(t) EXCEPT !.pc = @ + 1, !.wasActive = was]
             g == Frame(Callee[s], Argument(s, Running(t)))
  <1>5. /\ f \in Frames /\ f.function = Running(t).function /\ f.pc = Running(t).pc + 1
        /\ f.sensor = Running(t).sensor /\ f.wasActive \in {Running(t).wasActive, state.isActive}
        /\ s = "StartIfWasActive" => f.wasActive = Running(t).wasActive
    <2>1. (Running(t).wasActive \/ state.isActive) \in {Running(t).wasActive, state.isActive}
      BY <1>4, FrameTyped
    <2>2. was \in BOOLEAN /\ was \in {Running(t).wasActive, state.isActive}
      BY <1>4, <2>1, FrameTyped
    <2>3. s = "StartIfWasActive" => was = Running(t).wasActive
      OBVIOUS
    <2> HIDE DEF was
    <2> QED BY <1>4, <2>2, <2>3 DEF Frames
  <1>6. g \in Frames /\ g.pc = 1 /\ g.function = Callee[s] /\ g.wasActive = FALSE
        /\ g.sensor = Argument(s, Running(t))
    <2>1. Argument(s, Running(t)) \in Sensors
      <3>1. NextSensor[state.activeSensor] \in Sensors
        BY DEF NextSensor, Sensors
      <3>2. Running(t).sensor \in Sensors
        BY <1>4, FrameTyped
      <3> QED BY <3>1, <3>2 DEF Argument, Sensors
    <2>2. Callee[s] \in Functions
      BY <1>1, CalleesAre
    <2>3. 0 \in 0 .. MaxLevel
      BY DriverAssumption
    <2> QED BY <2>1, <2>2, <2>3 DEF Frame, Frames, Functions
  <1>7. IF Made(s, Running(t))
        THEN stack' = [stack EXCEPT ![t] = Called(@, g, f)]
        ELSE stack' = [stack EXCEPT ![t] = GoneOn(@, f)]
    BY DEF Call, Called, GoneOn
  <1> HIDE DEF f, g
  <1>8. f.pc - 1 = Running(t).pc /\ f.pc > 1
    BY <1>4, <1>5
  <1>9. f.pc <= Len(Body[f.function])
    BY <1>4, <1>5, Zenon
  <1>10. WaitsFor(f, g.function)
    <2>1. Body[f.function][f.pc - 1] = s
      BY <1>4, <1>5, <1>8
    <2> QED BY <1>1, <1>6, <1>8, <2>1 DEF WaitsFor
  <1>11. CASE Made(s, Running(t))
    <2>1. Calls(t)
      BY <1>1, <1>5, <1>6, <1>7, <1>9, <1>10, <1>11 DEF Calls, Onward, g
    <2>2. stack'[t] = Called(stack[t], g, f)
      BY <1>7, <1>11 DEF StackInv
    <2>3. Head(stack'[t]) = g
      BY <2>2 DEF Called, StackInv
    <2> QED BY <1>1, <1>2, <1>6, <1>11, <2>1, <2>3
  <1>12. CASE ~Made(s, Running(t))
    BY <1>1, <1>2, <1>5, <1>7, <1>9, <1>12 DEF Goes, Onward
  <1> QED BY <1>11, <1>12

LEMMA NextLevelMoves ==
  ASSUME StackInv, NEW t \in Tasks, NextLevel(t)
  PROVE  stack[t] # <<>> /\ IF level < MaxLevel THEN GoesBack(t) ELSE Goes(t)
  <1>1. Runs(t) /\ Statement(t) = "NextLevel"
    BY DEF NextLevel
  <1>2. stack[t] # <<>>
    BY <1>1, RunningTask
  <1>3. /\ Running(t) \in Frames /\ Running(t).function = "CalibrationTask" /\ Running(t).pc = 17
    <2>1. /\ Running(t).function \in Functions
          /\ Running(t).pc \in 1 .. Len(Body[Running(t).function])
          /\ Body[Running(t).function][Running(t).pc] = "NextLevel"
      BY <1>1, <1>2, TopOfTask
    <2> QED BY <1>2, <2>1, BodyShape, TopOfTask
  <1>4. CASE level < MaxLevel
    <2> DEFINE f == [Running(t) EXCEPT !.pc = @ - BackToCheckVout]
    <2>1. /\ f \in Frames /\ f.function = "CalibrationTask" /\ f.pc = 12
          /\ f.wasActive = Running(t).wasActive /\ f.sensor = Running(t).sensor
      BY <1>3 DEF Frames, BackToCheckVout
    <2>2. stack' = [stack EXCEPT ![t][1].pc = @ - BackToCheckVout]
      BY <1>4 DEF NextLevel
    <2> DEFINE calls == stack[t]
    <2>3. [calls EXCEPT ![1] = f] = GoneOn(calls, f)
      <3>1. calls \in Seq(Frames) /\ calls # <<>>
        BY <1>2 DEF StackInv
      <3> HIDE DEF calls, f
      <3>2. Len(calls) \in Nat \ {0} /\ 1 \in 1 .. Len(calls)
        BY <3>1, EmptySeq
      <3>3. /\ [calls EXCEPT ![1] = f] \in Seq(Frames)
            /\ Len([calls EXCEPT ![1] = f]) = Len(calls)
            /\ \A j \in 1 .. Len(calls) : [calls EXCEPT ![1] = f][j] = IF j = 1 THEN f ELSE calls[j]
        BY <2>1, <3>1, <3>2, ExceptSeq
      <3>4. /\ GoneOn(calls, f) \in Seq(Frames) /\ Len(GoneOn(calls, f)) = Len(calls)
            /\ \A j \in 1 .. Len(calls) : GoneOn(calls, f)[j] = IF j = 1 THEN f ELSE calls[j]
        BY <2>1, <3>1, <3>2 DEF GoneOn
      <3> HIDE DEF GoneOn
      <3>5. \A j \in 1 .. Len([calls EXCEPT ![1] = f]) : [calls EXCEPT ![1] = f][j] = GoneOn(calls, f)[j]
        BY <3>3, <3>4
      <3> QED BY <3>3, <3>4, <3>5, SeqEqual
    <2>4. stack' = [stack EXCEPT ![t] = GoneOn(@, f)]
      <3>1. calls[1] = Running(t)
        BY <1>2, TopOf DEF StackInv, Running
      <3>2. stack' = [stack EXCEPT ![t] = [calls EXCEPT ![1] = [calls[1] EXCEPT !.pc = @ - BackToCheckVout]]]
        BY <2>2
      <3> QED BY <2>3, <3>1, <3>2
    <2> HIDE DEF f
    <2> QED BY <1>2, <1>3, <1>4, <2>1, <2>4 DEF GoesBack
  <1>5. CASE ~(level < MaxLevel)
    <2> DEFINE f == [Running(t) EXCEPT !.pc = @ + 1]
    <2>1. /\ f \in Frames /\ f.function = "CalibrationTask" /\ f.pc = 18
          /\ f.sensor = Running(t).sensor /\ f.wasActive = Running(t).wasActive
      BY <1>3 DEF Frames
    <2>2. stack' = [stack EXCEPT ![t] = GoneOn(@, f)]
      BY <1>5 DEF NextLevel, Advanced, GoneOn, Running
    <2>3. Running(t).pc + 1 <= Len(Body[Running(t).function])
      BY <1>1, <1>2, NotLast
    <2> HIDE DEF f
    <2>4. f.pc = Running(t).pc + 1
      BY <1>3, <2>1
    <2>5. f.pc <= Len(Body[f.function])
      BY <1>3, <2>1, <2>3, <2>4, Zenon
    <2> QED BY <1>2, <1>3, <1>5, <2>1, <2>2, <2>4, <2>5 DEF Goes, Onward
  <1> QED BY <1>4, <1>5

LEMMA LastMoves ==
  ASSUME StackInv, NEW t \in Tasks, Return(t) \/ Loop(t)
  PROVE  stack[t] # <<>> /\ ((Return(t) /\ Returns(t)) \/ (Loop(t) /\ Loops(t)))
  <1>1. Runs(t) /\ stack[t] # <<>> /\ Statement(t) \in {"Return", "Loop"}
    BY RunningTask DEF Return, Loop
  <1> DEFINE f == Running(t).function
             p == Running(t).pc
             n == Len(Body[f])
  <1>2. f \in Functions /\ p \in 1 .. n /\ Statement(t) = Body[f][p]
    BY <1>1, TopOfTask
  <1>3. p = n /\ (Statement(t) = "Loop" => f = "CalibrationTask")
    BY <1>1, <1>2, BodyShape
  <1>4. Len(Body["CalibrationTask"]) = 20
    BY DEF Body, CalibrationTask
  <1>5. CASE Return(t)
    BY <1>1, <1>3, <1>5 DEF Return, Returns
  <1>6. CASE Loop(t)
    BY <1>1, <1>3, <1>4, <1>6 DEF Loop, Loops
  <1> QED BY <1>1, <1>5, <1>6

-----------------------------------------------------------------------------
\* Types.

DataOK ==
  /\ status \in [Tasks -> {"ready", "delayed", "suspended"}]
  /\ output \in [power : BOOLEAN, generator : BOOLEAN, relay : BOOLEAN]
  /\ adc \in [on : BOOLEAN, gain : 1 .. 2 \cup Levels, input : Sensors]
  /\ sensor \in [Sensors -> [on : BOOLEAN, ran : BOOLEAN, mode : {"Normal", "Calibration"},
                             agc : BOOLEAN, gain : Levels, preamp : Levels]]
  /\ buzzing \in BOOLEAN
  /\ iq \in [tick : Ticks, start : Ticks]
  /\ state \in [isActive : BOOLEAN, firstStart : BOOLEAN,
                workMode : {"Normal", "Calibration"}, activeSensor : Sensors]
  /\ dialog \in [asking : BOOLEAN, answered : BOOLEAN]
  /\ level \in Levels
  /\ data \in [Sensors -> Readings]
  /\ stored \in [Sensors -> [Levels -> Readings \cup {NotStored}]]

DriverTypes == StackInv /\ DataOK

LEMMA TypesGiveTypeOK == DriverTypes => TypeOK
  BY DEF DriverTypes, StackInv, DataOK, TypeOK

LEMMA StateTyped ==
  ASSUME DataOK
  PROVE  /\ state.isActive \in BOOLEAN /\ state.firstStart \in BOOLEAN
         /\ state.activeSensor \in Sensors /\ Active \in Sensors
  BY DEF DataOK, Active

LEMMA GainsAre ==
  ASSUME NEW s \in Sensors
  PROVE  /\ 1 \in Levels /\ MaxGain(s) \in Levels
         /\ \A l \in Levels : AdcGain(s, l) \in 1 .. 2 \cup Levels
         /\ \A l \in 1 .. MaxGain(s) : l \in Levels
  BY DriverAssumption DEF Levels, MaxGain, AdcGain

\* A gain key's choice: a level, or 0 for none.
Chosen(by) ==
  LET l == sensor[Active].gain + by IN IF l \in 1 .. MaxGain(Active) THEN l ELSE 0

LEMMA ChosenTyped ==
  ASSUME DataOK, NEW by \in {-1, 1}
  PROVE  /\ Chosen(by) \in 0 .. MaxLevel
         /\ Chosen(by) # 0 => Chosen(by) \in Levels
  <1>1. Active \in Sensors
    BY StateTyped
  <1>2. \A l \in 1 .. MaxGain(Active) : l \in Levels
    BY <1>1, GainsAre
  <1> QED BY <1>2, DriverAssumption DEF Chosen, Levels

LEMMA ChooseLevelGoes ==
  ASSUME StackInv, DataOK, NEW t \in Tasks, NEW by \in {-1, 1}, NEW st,
         st \notin {"Return", "Loop"}, ChooseLevel(t, st, by)
  PROVE  /\ stack[t] # <<>> /\ Goes(t)
         /\ Head(stack'[t]).newGain = Chosen(by)
         /\ Head(stack'[t]).function = Running(t).function
         /\ Head(stack'[t]).pc = Running(t).pc + 1
  <1>1. Runs(t) /\ Statement(t) = st
    BY DEF ChooseLevel
  <1>2. stack[t] # <<>>
    BY <1>1, RunningTask
  <1>3. /\ Running(t) \in Frames /\ Running(t).pc \in 1 .. 20
        /\ Running(t).pc + 1 <= Len(Body[Running(t).function]) /\ Running(t).pc + 1 \in 1 .. 20
    BY <1>1, <1>2, TopOfTask, NotLast
  <1> DEFINE n == Chosen(by)
             r == [Running(t) EXCEPT !.newGain = n]
             f == [r EXCEPT !.pc = @ + 1]
  <1>4. n \in 0 .. MaxLevel
    BY ChosenTyped
  <1>5. stack' = [stack EXCEPT ![t] = Advanced(<<r>> \o Tail(@))]
    BY DEF ChooseLevel, Chosen
  <1> HIDE DEF n
  <1>6. /\ f \in Frames /\ f.function = Running(t).function /\ f.pc = Running(t).pc + 1
        /\ f.sensor = Running(t).sensor /\ f.wasActive = Running(t).wasActive
        /\ f.newGain = n /\ r \in Frames
    BY <1>3, <1>4 DEF Frames
  <1> DEFINE calls == stack[t]
  <1>7. Advanced(<<r>> \o Tail(calls)) = GoneOn(calls, f)
    <2>1. calls \in Seq(Frames) /\ calls # <<>>
      BY <1>2 DEF StackInv
    <2> HIDE DEF calls, r
    <2>2. Head(<<r>> \o Tail(calls)) = r /\ Tail(<<r>> \o Tail(calls)) = Tail(calls)
      BY <1>6, <2>1
    <2> QED BY <2>2 DEF Advanced, GoneOn
  <1>8. stack' = [stack EXCEPT ![t] = GoneOn(@, f)]
    BY <1>5, <1>7
  <1> HIDE DEF f
  <1>9. f.pc <= Len(Body[f.function])
    BY <1>3, <1>6, Zenon
  <1>10. Head(stack'[t]) = f
    <2>1. stack'[t] = GoneOn(calls, f)
      BY <1>8 DEF StackInv
    <2>2. calls \in Seq(Frames) /\ calls # <<>>
      BY <1>2 DEF StackInv
    <2> HIDE DEF calls
    <2> QED BY <1>6, <2>1, <2>2 DEF GoneOn
  <1> QED BY <1>2, <1>6, <1>8, <1>9, <1>10 DEF Goes, Onward, n

LEMMA StepMoves ==
  ASSUME DriverTypes, NEW t \in Tasks, Step(t)
  PROVE  Moves(t)
  <1> USE DEF DriverTypes
  <1>1. CASE Control(t)
    <2>1. CASE Call(t)
      BY <2>1, CallMoves, StateTyped DEF Moves
    <2>2. CASE Return(t) \/ Loop(t)
      BY <2>2, LastMoves DEF Moves
    <2>3. CASE Delay(t)
      BY <2>3, DoesGoes DEF Moves, Delay
    <2> QED BY <1>1, <2>1, <2>2, <2>3 DEF Control
  <1>2. CASE Hardware(t)
    BY <1>2, DoesGoes
      DEF Hardware, PowerOn, PowerOff, RelayOn, RelayOff, GeneratorOff, Switch,
          AdcAndGeneratorOn, StartAdc, StopAdc, SwitchAdc, Moves
  <1>3. CASE Fields(t)
    BY <1>3, DoesGoes, ReadActiveGoes, StateTyped
      DEF Fields, SelectSensor, SetActive, ClearActive, ClearFirstStart, SetNormal,
          SetCalibration, Assign, Moves
  <1>4. CASE SensorSteps(t)
    BY <1>4, DoesGoes
      DEF SensorSteps, EnableActive, DisableActive, AllNormal, AllCalibration, CalibrateVoltage,
          VoltageNormal, SetLevel, Adjust, ShuntMinGain, ClampMinGain, MinGain, TurnAgcOff, Moves
  <1>5. CASE CalibrationSteps(t)
    BY <1>5, DoesGoes, NextLevelMoves
      DEF CalibrationSteps, Ask, TakeAnswer, StableData, StoreVoltage, StoreReading, Store,
          FirstLevel, SuspendCalibration, ResumeCalibration, Moves
  <1>6. CASE GainKeySteps(t)
    <2>1. CASE ChooseHigher(t) \/ ChooseLower(t)
      BY <2>1, ChooseLevelGoes DEF ChooseHigher, ChooseLower, Moves
    <2>2. CASE ProgramPreamp(t) \/ ProgramAdc(t) \/ StoreLevel(t)
      BY <2>2, DoesGoes DEF ProgramPreamp, StoreLevel, TakeNewGain, ProgramAdc, Moves
    <2> QED BY <1>6, <2>1, <2>2 DEF GainKeySteps
  <1> QED BY <1>1, <1>2, <1>3, <1>4, <1>5, <1>6 DEF Step

LEMMA MovesKeepStack ==
  ASSUME StackInv, NEW t \in Tasks, Moves(t)
  PROVE  /\ StackInv' /\ \A u \in Tasks \ {t} : stack'[u] = stack[u]
         /\ stack'[t] # <<>> => stack'[t][Len(stack'[t])].function = Bottom(t)
  <1> DEFINE calls == stack[t]
             new == stack'[t]
  <1>1. /\ WellFormed(calls) /\ calls # <<>> /\ stack \in [Tasks -> Seq(Frames)]
        /\ calls \in Seq(Frames)
    BY DEF Moves, StackInv
  <1>2. /\ Running(t) = Head(calls) /\ Running(t) \in Frames /\ Running(t).function \in Functions
        /\ Running(t).pc \in 1 .. Len(Body[Running(t).function])
        /\ Statement(t) = Body[Running(t).function][Running(t).pc]
    BY <1>1, TopOfTask DEF Running
  <1>3. /\ WellFormed(new) /\ stack' = [stack EXCEPT ![t] = new]
        /\ new # <<>> => new[Len(new)].function = Bottom(t)
        /\ Bottom(t) = "CalibrationTask" => new # <<>>
    <2>1. CASE Goes(t)
      <3>1. PICK f \in Frames :
              /\ f.function = Running(t).function /\ f.pc <= Len(Body[f.function])
              /\ stack' = [stack EXCEPT ![t] = GoneOn(@, f)]
        BY <2>1 DEF Goes, Onward
      <3>2. new = GoneOn(calls, f)
        BY <1>1, <3>1
      <3> HIDE DEF new
      <3>3. WellFormed(new) /\ new # <<>> /\ new[Len(new)].function = calls[Len(calls)].function
        BY <1>1, <1>2, <3>1, <3>2, TopReplaced
      <3> QED BY <3>1, <3>2, <3>3 DEF Bottom
    <2>2. CASE Calls(t)
      <3>1. PICK f \in Frames, g \in Frames :
              /\ f.function = Running(t).function /\ f.pc <= Len(Body[f.function])
              /\ g.pc = 1 /\ WaitsFor(f, g.function)
              /\ stack' = [stack EXCEPT ![t] = Called(@, g, f)]
        BY <2>2 DEF Calls, Onward, Frame
      <3>2. new = Called(calls, g, f)
        BY <1>1, <3>1
      <3> HIDE DEF new
      <3>3. WellFormed(new) /\ new # <<>> /\ new[Len(new)].function = calls[Len(calls)].function
        BY <1>1, <1>2, <3>1, <3>2, TopCalls
      <3> QED BY <3>1, <3>2, <3>3 DEF Bottom
    <2>3. CASE Returns(t)
      <3>1. stack' = [stack EXCEPT ![t] = Tail(@)] /\ Statement(t) = "Return"
        BY <2>3 DEF Returns
      <3>2. new = Tail(calls)
        BY <1>1, <3>1
      <3> HIDE DEF new
      <3>3. /\ WellFormed(new) /\ Len(new) = Len(calls) - 1
            /\ new # <<>> => new[Len(new)].function = calls[Len(calls)].function
        BY <1>1, <3>2, TopReturns
      <3>4. ASSUME new = <<>> PROVE Bottom(t) # "CalibrationTask"
        <4>1. Len(calls) = 1 /\ Head(calls) = calls[1]
          BY <1>1, <3>3, <3>4, TopOf
        <4>2. Bottom(t) = Running(t).function
          BY <1>2, <4>1 DEF Bottom
        <4>3. Body[Running(t).function][Running(t).pc] = "Return"
          BY <1>2, <3>1
        <4>4. Running(t).function # "CalibrationTask"
          BY <1>2, <4>3, BodyShape
        <4> QED BY <4>2, <4>4
      <3> QED BY <3>1, <3>2, <3>3, <3>4 DEF Bottom
    <2>4. CASE Loops(t)
      <3>1. /\ Running(t).function = "CalibrationTask"
            /\ stack' = [stack EXCEPT ![t] = <<Frame("CalibrationTask", "Voltage")>>]
        BY <2>4 DEF Loops
      <3>2. new = <<Frame("CalibrationTask", "Voltage")>>
        BY <1>1, <3>1
      <3>3. "CalibrationTask" \in Functions /\ "Voltage" \in Sensors
        BY FunctionsAre DEF Sensors
      <3> HIDE DEF new
      <3>4. WellFormed(new) /\ new # <<>> /\ new[Len(new)].function = "CalibrationTask"
        BY <3>2, <3>3, TopAlone
      <3>5. Bottom(t) = "CalibrationTask"
        <4>1. CASE Len(calls) = 1
          BY <1>1, <1>2, <3>1, <4>1, TopOf DEF Bottom
        <4>2. CASE Len(calls) # 1
          <5>1. calls[1].function = "CalibrationTask"
            BY <1>1, <1>2, <3>1, TopOf
          <5>2. 2 \in 2 .. Len(calls)
            <6>1. Len(calls) \in Nat \ {0}
              BY <1>1, TopOf
            <6> HIDE DEF calls
            <6> QED BY <4>2, <6>1
          <5>3. WaitsFor(calls[2], calls[2 - 1].function)
            BY <1>1, <5>2 DEF WellFormed
          <5> QED BY <5>1, <5>3, CalleesAre DEF WaitsFor
        <4> QED BY <4>1, <4>2
      <3> QED BY <3>1, <3>2, <3>4, <3>5
    <2>5. CASE GoesBack(t)
      <3>1. PICK f \in Frames :
              /\ f.function = Running(t).function /\ f.function = "CalibrationTask" /\ f.pc = 12
              /\ stack' = [stack EXCEPT ![t] = GoneOn(@, f)]
        BY <2>5 DEF GoesBack
      <3>2. new = GoneOn(calls, f)
        BY <1>1, <3>1
      <3>3. f.pc <= Len(Body[f.function])
        <4>1. Len(Body["CalibrationTask"]) = 20
          BY DEF Body, CalibrationTask
        <4>2. 12 <= 20
          OBVIOUS
        <4> QED BY <3>1, <4>1, <4>2, Zenon
      <3> HIDE DEF new
      <3>4. WellFormed(new) /\ new # <<>> /\ new[Len(new)].function = calls[Len(calls)].function
        BY <1>1, <1>2, <3>1, <3>2, <3>3, TopReplaced
      <3> QED BY <3>1, <3>2, <3>4 DEF Bottom
    <2> QED BY <2>1, <2>2, <2>3, <2>4, <2>5 DEF Moves
  <1> HIDE DEF new
  <1>4. new \in Seq(Frames)
    BY <1>3 DEF WellFormed
  <1>5. stack'[t] = new /\ \A u \in Tasks \ {t} : stack'[u] = stack[u]
    BY <1>1, <1>3 DEF new
  <1>6. stack' \in [Tasks -> Seq(Frames)]
    BY <1>1, <1>3, <1>4
  <1>7. \A u \in Tasks : WellFormed(stack'[u])
    BY <1>3, <1>5 DEF StackInv
  <1>8. /\ stack'["calibration"] # <<>>
        /\ stack'["calibration"][Len(stack'["calibration"])].function = "CalibrationTask"
    BY <1>3, <1>5 DEF StackInv, Tasks, Bottom
  <1>9. stack'["keyboard"] # <<>> =>
          stack'["keyboard"][Len(stack'["keyboard"])].function \in Operations
    BY <1>1, <1>3, <1>5 DEF StackInv, Tasks, Bottom
  <1>10. StackInv'
    BY <1>6, <1>7, <1>8, <1>9 DEF StackInv, Bottom, WellFormed, WaitsFor
  <1> QED BY <1>3, <1>5, <1>10

LEMMA ControlKeepsData ==
  ASSUME DriverTypes, NEW t \in Tasks, Control(t) \/ Wake(t)
  PROVE  DataOK'
  BY DEF Control, Call, Return, Loop, Delay, Wake, DriverTypes, DataOK

LEMMA HardwareKeepsData ==
  ASSUME DriverTypes, NEW t \in Tasks, Hardware(t)
  PROVE  DataOK'
  <1> USE DEF DriverTypes, DataOK
  <1>1. CASE PowerOn(t) \/ PowerOff(t) \/ RelayOn(t) \/ RelayOff(t) \/ GeneratorOff(t)
    BY <1>1 DEF PowerOn, PowerOff, RelayOn, RelayOff, GeneratorOff, Switch
  <1>2. CASE AdcAndGeneratorOn(t)
    BY <1>2 DEF AdcAndGeneratorOn, Ticks
  <1>3. CASE StartAdc(t) \/ StopAdc(t)
    BY <1>3 DEF StartAdc, StopAdc, SwitchAdc, Ticks
  <1> QED BY <1>1, <1>2, <1>3 DEF Hardware

LEMMA FieldsKeepData ==
  ASSUME DriverTypes, NEW t \in Tasks, Fields(t)
  PROVE  DataOK'
  <1> USE DEF DriverTypes, DataOK
  <1>1. CASE ReadActive(t)
    BY <1>1 DEF ReadActive
  <1>2. CASE SelectSensor(t)
    <2>1. Running(t).sensor \in Sensors
      BY <1>2, RunningTask, TopOfTask, FrameTyped DEF SelectSensor, Assign, Does
    <2> QED BY <1>2, <2>1 DEF SelectSensor, Assign
  <1>3. CASE SetActive(t) \/ ClearActive(t) \/ ClearFirstStart(t) \/ SetNormal(t) \/ SetCalibration(t)
    BY <1>3 DEF SetActive, ClearActive, ClearFirstStart, SetNormal, SetCalibration, Assign
  <1> QED BY <1>1, <1>2, <1>3 DEF Fields

Controllers ==
  [on : BOOLEAN, ran : BOOLEAN, mode : {"Normal", "Calibration"}, agc : BOOLEAN,
   gain : Levels, preamp : Levels]

LEMMA SensorStepTyped ==
  ASSUME DataOK, UNCHANGED <<status, output, state, dialog, level, data, stored>>,
         buzzing' \in BOOLEAN, iq' \in [tick : Ticks, start : Ticks],
         adc' \in [on : BOOLEAN, gain : 1 .. 2 \cup Levels, input : Sensors],
         sensor' \in [Sensors -> Controllers]
  PROVE  DataOK'
  BY DEF DataOK, Controllers

LEMMA SensorTyped ==
  ASSUME DataOK
  PROVE  /\ sensor \in [Sensors -> Controllers] /\ buzzing \in BOOLEAN
         /\ iq \in [tick : Ticks, start : Ticks]
         /\ adc \in [on : BOOLEAN, gain : 1 .. 2 \cup Levels, input : Sensors]
         /\ level \in Levels /\ Active \in Sensors
         /\ \A s \in Sensors : sensor[s] \in Controllers /\ sensor[s].agc \in BOOLEAN
                               /\ sensor[s].gain \in Levels /\ sensor[s].preamp \in Levels
  BY DEF DataOK, Controllers, Active

LEMMA AdjustKeepsData ==
  ASSUME DriverTypes, NEW t \in Tasks, NEW st, NEW s \in Sensors,
         NEW mode \in {"Normal", "Calibration"}, NEW l \in Levels, Adjust(t, st, s, mode, l)
  PROVE  DataOK'
  <1>1. DataOK /\ sensor[s] \in Controllers /\ sensor \in [Sensors -> Controllers]
        /\ adc \in [on : BOOLEAN, gain : 1 .. 2 \cup Levels, input : Sensors]
    BY SensorTyped DEF DriverTypes
  <1> DEFINE agc == mode = "Normal" /\ (sensor[s].agc \/ HasAGC(s))
             new == [sensor[s] EXCEPT !.mode = mode, !.gain = l, !.preamp = l, !.agc = agc]
  <1>2. agc \in BOOLEAN
    BY Zenon
  <1>3. sensor' = [sensor EXCEPT ![s] = new]
    BY DEF Adjust
  <1>4. new \in Controllers
    <2> HIDE DEF agc
    <2> QED BY <1>1, <1>2 DEF Controllers
  <1> HIDE DEF new
  <1>5. sensor' \in [Sensors -> Controllers]
    BY <1>1, <1>3, <1>4
  <1>6. adc' = [adc EXCEPT !.gain = AdcGain(s, l)]
        /\ UNCHANGED <<status, output, buzzing, iq, state, dialog, level, data, stored>>
    BY DEF Adjust
  <1>7. AdcGain(s, l) \in 1 .. 2 \cup Levels
    BY GainsAre
  <1>8. adc' \in [on : BOOLEAN, gain : 1 .. 2 \cup Levels, input : Sensors]
    BY <1>1, <1>6, <1>7
  <1> QED BY <1>1, <1>5, <1>6, <1>8, SensorStepTyped, SensorTyped

LEMMA SensorStepsKeepData ==
  ASSUME DriverTypes, NEW t \in Tasks, SensorSteps(t)
  PROVE  DataOK'
  <1>0. /\ Active \in Sensors /\ DataOK
        /\ sensor[Active] \in Controllers /\ sensor \in [Sensors -> Controllers]
        /\ adc \in [on : BOOLEAN, gain : 1 .. 2 \cup Levels, input : Sensors]
        /\ iq \in [tick : Ticks, start : Ticks] /\ buzzing \in BOOLEAN
    BY SensorTyped DEF DriverTypes
  \* How a sensor's level and the ADC's gain are typed.
  <1>a. ASSUME NEW s \in Sensors, NEW l \in Levels, NEW new \in Controllers,
               sensor' = [sensor EXCEPT ![s] = new],
               adc' = [adc EXCEPT !.gain = AdcGain(s, l)],
               UNCHANGED <<status, output, iq, state, dialog, level, data, stored>>,
               buzzing' \in BOOLEAN
        PROVE  DataOK'
    <2>1. AdcGain(s, l) \in 1 .. 2 \cup Levels
      BY GainsAre
    <2>2. adc' \in [on : BOOLEAN, gain : 1 .. 2 \cup Levels, input : Sensors]
      BY <1>0, <1>a, <2>1
    <2>3. sensor' \in [Sensors -> Controllers]
      BY <1>0, <1>a
    <2> QED BY <1>0, <1>a, <2>2, <2>3, SensorStepTyped
  <1>1. CASE EnableActive(t)
    <2> DEFINE normal == sensor[Active].mode = "Normal"
               agc == normal /\ HasAGC(Active)
               tick == CASE adc.on -> "moved"
                         [] ~adc.on /\ sensor[Active].ran -> "shifted"
                         [] OTHER -> "zero"
               gain == IF normal THEN 1 ELSE sensor[Active].gain
               preamp == IF normal THEN 1 ELSE sensor[Active].preamp
               adcGain == IF normal THEN AdcGain(Active, 1) ELSE adc.gain
               new == [sensor[Active] EXCEPT !.on = TRUE, !.ran = TRUE,
                                             !.agc = agc,
                                             !.gain = gain, !.preamp = preamp]
               newAdc == [adc EXCEPT !.input = Active,
                                     !.gain = IF normal THEN AdcGain(Active, 1) ELSE @]
    <2>1. agc \in BOOLEAN /\ (buzzing \/ (Active = "Clamp" /\ state.workMode = "Normal")) \in BOOLEAN
      BY Zenon
    <2>2. tick \in Ticks
      BY DEF Ticks
    <2>3. gain \in Levels /\ preamp \in Levels /\ adcGain \in 1 .. 2 \cup Levels
      BY <1>0, GainsAre, SensorTyped
    <2>4. /\ sensor' = [sensor EXCEPT ![Active] = new]
          /\ adc' = newAdc
          /\ iq' = [iq EXCEPT !.tick = tick]
          /\ buzzing' = (buzzing \/ (Active = "Clamp" /\ state.workMode = "Normal"))
          /\ UNCHANGED <<status, output, state, dialog, level, data, stored>>
      BY <1>1 DEF EnableActive
    <2>5. buzzing' \in BOOLEAN
      BY <2>1, <2>4, Zenon
    <2>n. /\ new = [sensor[Active] EXCEPT !.on = TRUE, !.ran = TRUE, !.agc = agc, !.gain = gain,
                                        !.preamp = preamp]
          /\ newAdc = [adc EXCEPT !.input = Active, !.gain = adcGain]
      BY <1>0 DEF Controllers
    <2> HIDE DEF agc, tick, gain, preamp, adcGain, new, newAdc
    <2>6. iq' \in [tick : Ticks, start : Ticks]
      BY <1>0, <2>2, <2>4
    <2>7. adc' \in [on : BOOLEAN, gain : 1 .. 2 \cup Levels, input : Sensors]
      BY <1>0, <2>3, <2>4, <2>n
    <2>8. new \in Controllers
      BY <1>0, <2>1, <2>3, <2>n DEF Controllers
    <2>9. sensor' \in [Sensors -> Controllers]
      BY <1>0, <2>4, <2>8
    <2> QED BY <1>0, <2>4, <2>5, <2>6, <2>7, <2>9, SensorStepTyped
  <1>2. CASE DisableActive(t)
    <2> DEFINE new == [sensor[Active] EXCEPT !.on = FALSE, !.gain = 1, !.preamp = 1]
    <2>1. (buzzing /\ Active # "Clamp") \in BOOLEAN
      BY Zenon
    <2>2. buzzing' \in BOOLEAN
      BY <1>2, <2>1, Zenon DEF DisableActive
    <2>3. sensor' = [sensor EXCEPT ![Active] = new]
      BY <1>0, <1>2 DEF DisableActive
    <2>4. new \in Controllers /\ 1 \in Levels
      BY <1>0, GainsAre DEF Controllers
    <2> HIDE DEF new
    <2> QED BY <1>0, <1>2, <1>a, <2>2, <2>3, <2>4 DEF DisableActive
  <1>3. CASE AllNormal(t)
    <2>1. \A s \in Sensors : [sensor[s] EXCEPT !.mode = "Normal", !.agc = HasAGC(s)] \in Controllers
      <3> SUFFICES ASSUME NEW s \in Sensors
                   PROVE  [sensor[s] EXCEPT !.mode = "Normal", !.agc = HasAGC(s)] \in Controllers
        OBVIOUS
      <3>1. HasAGC(s) \in BOOLEAN /\ sensor[s] \in Controllers
        BY <1>0 DEF HasAGC
      <3> HIDE DEF HasAGC
      <3> QED BY <3>1 DEF Controllers
    <2>2. sensor' \in [Sensors -> Controllers]
      BY <1>3, <2>1 DEF AllNormal
    <2> QED BY <1>0, <1>3, <2>2, SensorStepTyped DEF AllNormal
  <1>4. CASE AllCalibration(t)
    <2>1. AdcGain("Voltage", 1) \in 1 .. 2 \cup Levels /\ 1 \in Levels
      BY GainsAre DEF Sensors
    <2>2. \A s \in Sensors :
            [sensor[s] EXCEPT !.mode = "Calibration", !.agc = FALSE,
                              !.gain = 1, !.preamp = 1] \in Controllers
      BY <1>0, <2>1 DEF Controllers
    <2>3. sensor' \in [Sensors -> Controllers]
      BY <1>4, <2>2 DEF AllCalibration
    <2>4. adc' \in [on : BOOLEAN, gain : 1 .. 2 \cup Levels, input : Sensors]
      BY <1>0, <1>4, <2>1 DEF AllCalibration
    <2> QED BY <1>0, <1>4, <2>3, <2>4, SensorStepTyped DEF AllCalibration
  <1>5. CASE CalibrateVoltage(t) \/ VoltageNormal(t)
    BY <1>5, AdjustKeepsData, GainsAre DEF CalibrateVoltage, VoltageNormal, Sensors
  <1>6. CASE SetLevel(t)
    <2>1. Running(t).sensor \in Sensors
      BY <1>6, RunningTask, TopOfTask, FrameTyped DEF SetLevel, Adjust, Does, DriverTypes
    <2>2. level \in Levels
      BY <1>0, SensorTyped
    <2> QED BY <1>6, <2>1, <2>2, AdjustKeepsData DEF SetLevel
  <1>7. CASE ShuntMinGain(t) \/ ClampMinGain(t)
    <2>1. PICK s \in Sensors, st \in {"ShuntMinGain", "ClampMinGain"} : MinGain(t, st, s)
      BY <1>7 DEF ShuntMinGain, ClampMinGain, Sensors
    <2> DEFINE new == [sensor[s] EXCEPT !.gain = 1, !.preamp = 1]
    <2>2. sensor' = [sensor EXCEPT ![s] = new]
      BY <2>1 DEF MinGain
    <2>3. new \in Controllers /\ 1 \in Levels
      BY <1>0, GainsAre DEF Controllers
    <2> HIDE DEF new
    <2> QED BY <1>0, <1>a, <2>1, <2>2, <2>3 DEF MinGain
  <1>8. CASE TurnAgcOff(t)
    <2> DEFINE new == [sensor[Active] EXCEPT !.agc = FALSE]
    <2>1. sensor' = [sensor EXCEPT ![Active] = new]
      BY <1>8 DEF TurnAgcOff
    <2>2. new \in Controllers
      BY <1>0 DEF Controllers
    <2> HIDE DEF new
    <2>3. sensor' \in [Sensors -> Controllers]
      BY <1>0, <2>1, <2>2
    <2> QED BY <1>0, <1>8, <2>3, SensorStepTyped DEF TurnAgcOff
  <1> QED BY <1>1, <1>2, <1>3, <1>4, <1>5, <1>6, <1>7, <1>8 DEF SensorSteps

\* The level a gain key sets was chosen when it was handled.
LEMMA NewGainTyped ==
  ASSUME DriverTypes, NEW t \in Tasks, Runs(t)
  PROVE  Running(t).newGain # 0 => Running(t).newGain \in Levels
  <1>1. Running(t).newGain \in 0 .. MaxLevel
    BY RunningTask, TopOfTask, FrameTyped DEF DriverTypes
  <1> QED BY <1>1, DriverAssumption DEF Levels

LEMMA TakesNewGain ==
  ASSUME DriverTypes, NEW t \in Tasks, NEW st, NEW field \in {"preamp", "gain"},
         TakeNewGain(t, st, field)
  PROVE  /\ sensor' \in [Sensors -> Controllers] /\ UNCHANGED adc
         /\ \A s \in Sensors : /\ sensor'[s].on = sensor[s].on /\ sensor'[s].agc = sensor[s].agc
                              /\ sensor'[s].ran = sensor[s].ran /\ sensor'[s].mode = sensor[s].mode
         /\ field = "preamp" => \A s \in Sensors : sensor'[s].gain = sensor[s].gain
         /\ field = "gain" => \A s \in Sensors : sensor'[s].preamp = sensor[s].preamp
         /\ \A s \in Sensors \ {Active} : sensor'[s] = sensor[s]
         /\ Running(t).newGain = 0 => sensor' = sensor
         /\ Running(t).newGain # 0 => sensor'[Active][field] = Running(t).newGain
  <1>0. /\ Active \in Sensors /\ sensor[Active] \in Controllers
        /\ sensor \in [Sensors -> Controllers]
    BY SensorTyped DEF DriverTypes
  <1>1. UNCHANGED adc
    BY DEF TakeNewGain
  <1>2. CASE Running(t).newGain = 0
    BY <1>0, <1>1, <1>2 DEF TakeNewGain
  <1>3. CASE Running(t).newGain # 0
    <2> DEFINE n == Running(t).newGain
               new == [sensor[Active] EXCEPT ![field] = n]
    <2>1. sensor' = [sensor EXCEPT ![Active] = new]
      BY <1>0, <1>3 DEF TakeNewGain
    <2>2. n \in Levels
      BY <1>3, NewGainTyped DEF TakeNewGain, Does
    <2> HIDE DEF n
    <2>3. /\ new \in Controllers /\ new[field] = n
          /\ new.on = sensor[Active].on /\ new.agc = sensor[Active].agc
          /\ new.ran = sensor[Active].ran /\ new.mode = sensor[Active].mode
          /\ field = "preamp" => new.gain = sensor[Active].gain
          /\ field = "gain" => new.preamp = sensor[Active].preamp
      <3>1. CASE field = "preamp"
        BY <1>0, <2>2, <3>1 DEF Controllers
      <3>2. CASE field = "gain"
        BY <1>0, <2>2, <3>2 DEF Controllers
      <3> QED BY <3>1, <3>2
    <2> HIDE DEF new
    <2>4. /\ sensor' \in [Sensors -> Controllers] /\ sensor'[Active] = new
          /\ \A s \in Sensors \ {Active} : sensor'[s] = sensor[s]
      BY <1>0, <2>1, <2>3
    <2> QED BY <1>0, <1>1, <1>3, <2>3, <2>4 DEF n
  <1> QED BY <1>2, <1>3

LEMMA GainKeyStepsKeepData ==
  ASSUME DriverTypes, NEW t \in Tasks, GainKeySteps(t)
  PROVE  DataOK'
  <1>0. DataOK
    BY DEF DriverTypes
  <1>1. CASE ChooseHigher(t) \/ ChooseLower(t)
    BY <1>0, <1>1 DEF ChooseHigher, ChooseLower, ChooseLevel, DataOK
  <1>2. CASE ProgramPreamp(t) \/ StoreLevel(t)
    <2>1. PICK st \in {"ProgramPreamp", "StoreLevel"}, field \in {"preamp", "gain"} :
            TakeNewGain(t, st, field)
      BY <1>2 DEF ProgramPreamp, StoreLevel
    <2>2. sensor' \in [Sensors -> Controllers] /\ UNCHANGED adc
      BY <2>1, TakesNewGain
    <2>3. UNCHANGED <<status, output, buzzing, iq, state, dialog, level, data, stored>>
      BY <2>1 DEF TakeNewGain
    <2> QED BY <1>0, <2>2, <2>3, SensorStepTyped, SensorTyped
  <1>3. CASE ProgramAdc(t)
    <2>1. /\ Active \in Sensors
          /\ adc \in [on : BOOLEAN, gain : 1 .. 2 \cup Levels, input : Sensors]
      BY <1>0, SensorTyped
    <2>2. Running(t).newGain # 0 => AdcGain(Active, Running(t).newGain) \in 1 .. 2 \cup Levels
      BY <1>3, <2>1, NewGainTyped, GainsAre DEF ProgramAdc, Does
    <2>3. adc' \in [on : BOOLEAN, gain : 1 .. 2 \cup Levels, input : Sensors]
      BY <1>3, <2>1, <2>2 DEF ProgramAdc
    <2>4. UNCHANGED <<status, output, sensor, buzzing, iq, state, dialog, level, data, stored>>
      BY <1>3 DEF ProgramAdc
    <2> QED BY <1>0, <2>3, <2>4, SensorStepTyped, SensorTyped
  <1> QED BY <1>1, <1>2, <1>3 DEF GainKeySteps

LEMMA CalibrationStepsKeepData ==
  ASSUME DriverTypes, NEW t \in Tasks, CalibrationSteps(t)
  PROVE  DataOK'
  <1> USE DEF DriverTypes
  <1>0. /\ Active \in Sensors /\ DataOK /\ level \in Levels /\ data \in [Sensors -> Readings]
        /\ stored \in [Sensors -> [Levels -> Readings \cup {NotStored}]]
    BY SensorTyped DEF DataOK
  <1>1. CASE Ask(t) \/ TakeAnswer(t)
    <2>1. dialog' \in [asking : BOOLEAN, answered : BOOLEAN]
      <3>1. dialog \in [asking : BOOLEAN, answered : BOOLEAN]
        BY <1>0 DEF DataOK
      <3>2. CASE Ask(t)
        <4>1. dialog' = [dialog EXCEPT !.asking = TRUE]
          BY <3>2 DEF Ask
        <4> QED BY <3>1, <4>1
      <3>3. CASE TakeAnswer(t)
        <4>1. dialog' = [asking |-> FALSE, answered |-> FALSE]
          BY <3>3 DEF TakeAnswer
        <4> QED BY <4>1
      <3> QED BY <1>1, <3>2, <3>3
    <2>2. UNCHANGED <<status, output, adc, sensor, buzzing, iq, state, level, data, stored>>
      BY <1>1 DEF Ask, TakeAnswer
    <2> QED BY <1>0, <2>1, <2>2 DEF DataOK
  <1>2. CASE StableData(t)
    <2>1. adc.input \in Sensors /\ sensor[adc.input].gain \in Levels
      BY <1>0, SensorTyped
    <2>2. [sensor |-> adc.input, gain |-> sensor[adc.input].gain] \in Readings
      BY <2>1 DEF Readings
    <2>3. data' \in [Sensors -> Readings]
      BY <1>0, <1>2, <2>2 DEF StableData
    <2> QED BY <1>0, <1>2, <2>3 DEF StableData, DataOK
  <1>3. CASE StoreVoltage(t) \/ StoreReading(t)
    <2>1. PICK s \in Sensors, l \in Levels, st \in {"StoreVoltage", "StoreReading"} : Store(t, st, s, l)
      <3>1. CASE StoreVoltage(t)
        BY <3>1, GainsAre DEF StoreVoltage, Sensors
      <3>2. CASE StoreReading(t)
        <4>1. Running(t).sensor \in Sensors
          BY <3>2, RunningTask, TopOfTask, FrameTyped DEF StoreReading, Store, Does
        <4> QED BY <1>0, <3>2, <4>1 DEF StoreReading
      <3> QED BY <1>3, <3>1, <3>2
    <2>2. stored' \in [Sensors -> [Levels -> Readings \cup {NotStored}]]
      <3>1. stored' = [stored EXCEPT ![s][l] = data[s]]
        BY <2>1 DEF Store
      <3>2. data[s] \in Readings \cup {NotStored}
        BY <1>0
      <3> QED BY <1>0, <3>1, <3>2
    <2> QED BY <1>0, <2>1, <2>2 DEF Store, DataOK
  <1>4. CASE FirstLevel(t)
    <2>1. 1 \in Levels
      BY GainsAre DEF Sensors
    <2>2. level' = 1 /\ UNCHANGED <<status, output, adc, sensor, buzzing, iq, state, dialog, data, stored>>
      BY <1>4 DEF FirstLevel
    <2> QED BY <1>0, <2>1, <2>2 DEF DataOK
  <1>5. CASE NextLevel(t)
    <2>1. level' \in Levels
      BY <1>0, <1>5, DriverAssumption DEF NextLevel, Levels
    <2> QED BY <1>0, <1>5, <2>1 DEF NextLevel, DataOK
  <1>6. CASE SuspendCalibration(t) \/ ResumeCalibration(t)
    BY <1>0, <1>6 DEF SuspendCalibration, ResumeCalibration, DataOK, Tasks
  <1> QED BY <1>1, <1>2, <1>3, <1>4, <1>5, <1>6 DEF CalibrationSteps

LEMMA OthersKeepData ==
  ASSUME DriverTypes, (\E by \in {-1, 1} : AgcMovesGain(by)) \/ AnswerDialog
                      \/ \E operation \in Keys : PressKey(operation)
  PROVE  DataOK'
  <1>0. /\ DataOK /\ sensor \in [Sensors -> Controllers]
        /\ adc \in [on : BOOLEAN, gain : 1 .. 2 \cup Levels, input : Sensors]
    BY SensorTyped DEF DriverTypes
  <1>1. ASSUME NEW by \in {-1, 1}, AgcMovesGain(by) PROVE DataOK'
    <2> DEFINE s == adc.input
               l == sensor[s].gain + by
               new == [sensor[s] EXCEPT !.gain = l, !.preamp = l]
    <2>1. s \in Sensors /\ l \in 1 .. MaxGain(s)
      BY <1>0, <1>1 DEF AgcMovesGain
    <2>2. l \in Levels /\ AdcGain(s, l) \in 1 .. 2 \cup Levels
      BY <2>1, GainsAre
    <2>3. /\ sensor' = [sensor EXCEPT ![s] = new]
          /\ adc' = [adc EXCEPT !.gain = AdcGain(s, l)]
          /\ UNCHANGED <<stack, status, output, buzzing, iq, state, dialog, level, data, stored>>
      BY <1>1 DEF AgcMovesGain
    <2>n. sensor[s] \in Controllers
      BY <1>0, <2>1
    <2> HIDE DEF l, s
    <2>4. new \in Controllers
      BY <2>2, <2>n DEF Controllers
    <2> HIDE DEF new
    <2>5. sensor' \in [Sensors -> Controllers]
      BY <1>0, <2>1, <2>3, <2>4
    <2>6. adc' \in [on : BOOLEAN, gain : 1 .. 2 \cup Levels, input : Sensors]
      BY <1>0, <2>2, <2>3
    <2> QED BY <1>0, <2>3, <2>5, <2>6, SensorStepTyped, SensorTyped
  <1>2. CASE AnswerDialog
    <2>1. dialog \in [asking : BOOLEAN, answered : BOOLEAN]
      BY <1>0 DEF DataOK
    <2>2. dialog' = [dialog EXCEPT !.answered = TRUE]
      BY <1>2 DEF AnswerDialog
    <2>3. dialog' \in [asking : BOOLEAN, answered : BOOLEAN]
      BY <2>1, <2>2
    <2>4. UNCHANGED <<status, output, adc, sensor, buzzing, iq, state, level, data, stored>>
      BY <1>2 DEF AnswerDialog
    <2> QED BY <1>0, <2>3, <2>4 DEF DataOK
  <1>3. CASE \E operation \in Keys : PressKey(operation)
    BY <1>0, <1>3 DEF PressKey, DataOK
  <1> QED BY <1>1, <1>2, <1>3

LEMMA PressKeyKeepsStack ==
  ASSUME StackInv, NEW operation \in Keys, PressKey(operation)
  PROVE  /\ StackInv' /\ stack'["calibration"] = stack["calibration"]
         /\ stack'["keyboard"] = <<Frame(operation, "Voltage")>> /\ stack["keyboard"] = <<>>
  <1> DEFINE new == <<Frame(operation, "Voltage")>>
  <1>1. operation \in Operations /\ operation \in Functions /\ "Voltage" \in Sensors
    BY DriverAssumption, FunctionsAre DEF Operations, Sensors
  <1>2. WellFormed(new) /\ new # <<>> /\ Len(new) = 1 /\ new[Len(new)].function = operation
    BY <1>1, TopAlone
  <1>3. stack' = [stack EXCEPT !["keyboard"] = new] /\ stack["keyboard"] = <<>>
    BY DEF PressKey
  <1>4. new \in Seq(Frames)
    BY <1>2 DEF WellFormed
  <1> HIDE DEF new
  <1>5. /\ stack' \in [Tasks -> Seq(Frames)] /\ stack'["keyboard"] = new
        /\ stack'["calibration"] = stack["calibration"]
    BY <1>3, <1>4 DEF StackInv, Tasks
  <1>6. \A t \in Tasks : WellFormed(stack'[t])
    BY <1>2, <1>5 DEF StackInv, Tasks
  <1>7. StackInv'
    BY <1>1, <1>2, <1>5, <1>6 DEF StackInv, Bottom, WellFormed, WaitsFor
  <1> QED BY <1>3, <1>5, <1>7 DEF new

LEMMA OthersKeepStack ==
  ASSUME StackInv, UNCHANGED stack
  PROVE  StackInv'
  BY DEF StackInv, Bottom, WellFormed, WaitsFor

LEMMA InitTyped == Init => DriverTypes
  <1> SUFFICES ASSUME Init PROVE DriverTypes
    OBVIOUS
  <1>1. "CalibrationTask" \in Functions /\ "Voltage" \in Sensors /\ 1 \in Levels
    BY FunctionsAre, GainsAre DEF Sensors
  <1> DEFINE new == <<Frame("CalibrationTask", "Voltage")>>
  <1>2. WellFormed(new) /\ new # <<>> /\ Len(new) = 1 /\ new[Len(new)].function = "CalibrationTask"
    BY <1>1, TopAlone
  <1>3. new \in Seq(Frames)
    BY <1>2 DEF WellFormed
  <1>4. stack = [keyboard |-> <<>>, calibration |-> new]
    BY DEF Init
  <1> HIDE DEF new
  <1>5. /\ stack \in [Tasks -> Seq(Frames)] /\ stack["keyboard"] = <<>>
        /\ stack["calibration"] = new
    <2>0. stack["keyboard"] = <<>> /\ stack["calibration"] = new /\ <<>> \in Seq(Frames)
      BY <1>4
    <2>1. \A t \in {"keyboard", "calibration"} : stack[t] \in Seq(Frames)
      BY <1>3, <2>0
    <2>2. DOMAIN stack = {"keyboard", "calibration"}
      BY <1>4
    <2>3. stack = [t \in {"keyboard", "calibration"} |-> stack[t]]
      BY <1>4
    <2> QED BY <1>4, <2>1, <2>2, <2>3 DEF Tasks
  <1>6. WellFormed(<<>>)
    BY DEF WellFormed
  <1>7. \A t \in Tasks : WellFormed(stack[t])
    BY <1>2, <1>5, <1>6 DEF Tasks
  <1>8. StackInv
    BY <1>2, <1>5, <1>7 DEF StackInv, Bottom
  <1>9. sensor \in [Sensors -> [on : BOOLEAN, ran : BOOLEAN, mode : {"Normal", "Calibration"},
                                agc : BOOLEAN, gain : Levels, preamp : Levels]]
    <2>1. \A s \in Sensors : HasAGC(s) \in BOOLEAN
      BY DEF HasAGC
    <2> QED BY <1>1, <2>1 DEF Init
  <1>10. DataOK
    <2>1. NoReading \in Readings /\ NotStored \in Readings \cup {NotStored}
      BY DEF Readings
    <2>2. /\ status \in [Tasks -> {"ready", "delayed", "suspended"}]
          /\ output \in [power : BOOLEAN, generator : BOOLEAN, relay : BOOLEAN]
          /\ adc \in [on : BOOLEAN, gain : 1 .. 2 \cup Levels, input : Sensors]
          /\ buzzing \in BOOLEAN
          /\ iq \in [tick : Ticks, start : Ticks]
      <3>1. status = [keyboard |-> "ready", calibration |-> "suspended"]
        BY DEF Init
      <3>2. status = [t \in {"keyboard", "calibration"} |-> status[t]]
        BY <3>1
      <3>3. status \in [Tasks -> {"ready", "delayed", "suspended"}]
        BY <3>1, <3>2 DEF Tasks
      <3>4. output \in [power : BOOLEAN, generator : BOOLEAN, relay : BOOLEAN]
        BY DEF Init
      <3>5. adc \in [on : BOOLEAN, gain : 1 .. 2 \cup Levels, input : Sensors]
        BY <1>1 DEF Init
      <3>6. buzzing \in BOOLEAN /\ iq \in [tick : Ticks, start : Ticks]
        BY DEF Init, Ticks
      <3> QED BY <3>3, <3>4, <3>5, <3>6
    <2>3. /\ state \in [isActive : BOOLEAN, firstStart : BOOLEAN,
                        workMode : {"Normal", "Calibration"}, activeSensor : Sensors]
          /\ dialog \in [asking : BOOLEAN, answered : BOOLEAN]
          /\ level \in Levels
          /\ data \in [Sensors -> Readings]
          /\ stored \in [Sensors -> [Levels -> Readings \cup {NotStored}]]
      BY <1>1, <2>1 DEF Init, Sensors
    <2> QED BY <1>9, <2>2, <2>3 DEF DataOK
  <1> QED BY <1>8, <1>10 DEF DriverTypes

LEMMA NextKeepsTypes == DriverTypes /\ [Next]_vars => DriverTypes'
  <1> SUFFICES ASSUME DriverTypes, [Next]_vars PROVE DriverTypes'
    OBVIOUS
  <1>1. ASSUME NEW t \in Tasks, Step(t) PROVE DriverTypes'
    <2>1. StackInv'
      BY <1>1, StepMoves, MovesKeepStack DEF DriverTypes
    <2>2. DataOK'
      BY <1>1, ControlKeepsData, HardwareKeepsData, FieldsKeepData, SensorStepsKeepData,
         GainKeyStepsKeepData, CalibrationStepsKeepData DEF Step
    <2> QED BY <2>1, <2>2 DEF DriverTypes
  <1>2. ASSUME NEW t \in Tasks, Wake(t) PROVE DriverTypes'
    BY <1>2, ControlKeepsData, OthersKeepStack DEF Wake, DriverTypes
  <1>3. CASE \E by \in {-1, 1} : AgcMovesGain(by)
    BY <1>3, OthersKeepData, OthersKeepStack DEF AgcMovesGain, DriverTypes
  <1>4. CASE \E operation \in Keys : PressKey(operation)
    BY <1>4, OthersKeepData, PressKeyKeepsStack DEF DriverTypes
  <1>5. CASE AnswerDialog
    BY <1>5, OthersKeepData, OthersKeepStack DEF AnswerDialog, DriverTypes
  <1>6. CASE UNCHANGED vars
    BY <1>6, OthersKeepStack DEF vars, DriverTypes, DataOK
  <1> QED BY <1>1, <1>2, <1>3, <1>4, <1>5, <1>6 DEF Next

LEMMA AlwaysTyped == Spec => []DriverTypes
  <1> QED BY InitTyped, NextKeepsTypes, PTL DEF Spec

\* Every variable keeps its type; above all, a statement that returns finds the call
\* it returns to, and no level leaves Levels.
THEOREM DriverTyped == Spec => []TypeOK
  <1> QED BY AlwaysTyped, TypesGiveTypeOK, PTL


-----------------------------------------------------------------------------
\* The buzzer.

InputsKept == (\A s \in Sensors : sensor'[s].on = sensor[s].on) /\ buzzing' = buzzing

LEMMA StepsKeepInputs ==
  ASSUME DriverTypes, NEW t \in Tasks, Step(t) \/ Wake(t)
  PROVE  EnableActive(t) \/ DisableActive(t) \/ InputsKept
  <1>0. sensor \in [Sensors -> Controllers] /\ \A s \in Sensors : sensor[s] \in Controllers
    BY SensorTyped DEF DriverTypes
  <1>1. CASE Control(t) \/ Wake(t)
    BY <1>1 DEF Control, Call, Return, Loop, Delay, Wake, InputsKept
  <1>2. CASE Hardware(t)
    BY <1>2 DEF Hardware, PowerOn, PowerOff, RelayOn, RelayOff, GeneratorOff, Switch,
                AdcAndGeneratorOn, StartAdc, StopAdc, SwitchAdc, InputsKept
  <1>3. CASE Fields(t)
    BY <1>3 DEF Fields, ReadActive, SelectSensor, SetActive, ClearActive, ClearFirstStart,
                SetNormal, SetCalibration, Assign, InputsKept
  <1>4. CASE CalibrationSteps(t)
    BY <1>4 DEF CalibrationSteps, Ask, TakeAnswer, StableData, StoreVoltage, StoreReading, Store,
                FirstLevel, NextLevel, SuspendCalibration, ResumeCalibration, InputsKept
  <1>5. CASE AllNormal(t) \/ AllCalibration(t)
    <2>1. \A s \in Sensors :
            /\ [sensor[s] EXCEPT !.mode = "Normal", !.agc = HasAGC(s)].on = sensor[s].on
            /\ [sensor[s] EXCEPT !.mode = "Calibration", !.agc = FALSE,
                              !.gain = 1, !.preamp = 1].on = sensor[s].on
      BY <1>0 DEF Controllers
    <2>2. AllNormal(t) => InputsKept
      BY <2>1 DEF AllNormal, InputsKept
    <2>3. AllCalibration(t) => InputsKept
      BY <2>1 DEF AllCalibration, InputsKept
    <2> QED BY <1>5, <2>2, <2>3
  <1>6. CASE CalibrateVoltage(t) \/ VoltageNormal(t) \/ SetLevel(t)
    <2>0. PICK s \in Sensors : \E st, mode, l : Adjust(t, st, s, mode, l)
      <3>1. SetLevel(t) => Running(t).sensor \in Sensors
        BY RunningTask, TopOfTask, FrameTyped DEF SetLevel, Adjust, Does, DriverTypes
      <3> QED BY <1>6, <3>1 DEF CalibrateVoltage, VoltageNormal, SetLevel, Sensors
    <2>1. PICK st, mode, l : Adjust(t, st, s, mode, l)
      BY <2>0
    <2> DEFINE new == [sensor[s] EXCEPT !.mode = mode, !.gain = l, !.preamp = l,
                                        !.agc = mode = "Normal" /\ (sensor[s].agc \/ HasAGC(s))]
    <2>2. sensor' = [sensor EXCEPT ![s] = new] /\ buzzing' = buzzing
      BY <2>1 DEF Adjust
    <2>3. new.on = sensor[s].on
      BY <1>0 DEF Controllers
    <2> HIDE DEF new
    <2> QED BY <1>0, <2>2, <2>3 DEF InputsKept
  <1>7. CASE ShuntMinGain(t) \/ ClampMinGain(t)
    <2>1. PICK s \in {"Shunt", "Clamp"} : \E st : MinGain(t, st, s)
      BY <1>7 DEF ShuntMinGain, ClampMinGain
    <2> DEFINE new == [sensor[s] EXCEPT !.gain = 1, !.preamp = 1]
    <2>2. sensor' = [sensor EXCEPT ![s] = new] /\ buzzing' = buzzing /\ s \in Sensors
      BY <2>1 DEF MinGain, Sensors
    <2>3. new.on = sensor[s].on
      BY <1>0, <2>2 DEF Controllers
    <2> HIDE DEF new
    <2> QED BY <1>0, <2>2, <2>3 DEF InputsKept
  <1>8. CASE TurnAgcOff(t)
    <2> DEFINE new == [sensor[Active] EXCEPT !.agc = FALSE]
    <2>1. sensor' = [sensor EXCEPT ![Active] = new] /\ buzzing' = buzzing /\ Active \in Sensors
      BY <1>8, SensorTyped DEF TurnAgcOff, DriverTypes
    <2>2. new.on = sensor[Active].on
      BY <1>0, <2>1 DEF Controllers
    <2> HIDE DEF new
    <2> QED BY <1>0, <2>1, <2>2 DEF InputsKept
  <1>9. CASE GainKeySteps(t)
    <2>1. CASE ChooseHigher(t) \/ ChooseLower(t) \/ ProgramAdc(t)
      BY <2>1 DEF ChooseHigher, ChooseLower, ChooseLevel, ProgramAdc, InputsKept
    <2>2. CASE ProgramPreamp(t) \/ StoreLevel(t)
      <3>1. PICK st \in {"ProgramPreamp", "StoreLevel"}, field \in {"preamp", "gain"} :
            TakeNewGain(t, st, field)
        BY <2>2 DEF ProgramPreamp, StoreLevel
      <3>2. buzzing' = buzzing
        BY <3>1 DEF TakeNewGain
      <3> QED BY <3>1, <3>2, TakesNewGain DEF InputsKept
    <2> QED BY <1>9, <2>1, <2>2 DEF GainKeySteps
  <1> QED BY <1>1, <1>2, <1>3, <1>4, <1>5, <1>6, <1>7, <1>8, <1>9 DEF Step, SensorSteps

LEMMA OthersKeepInputs ==
  ASSUME DriverTypes, (\E by \in {-1, 1} : AgcMovesGain(by)) \/ AnswerDialog
                      \/ (\E operation \in Keys : PressKey(operation)) \/ UNCHANGED vars
  PROVE  InputsKept
  <1>0. sensor \in [Sensors -> Controllers] /\ \A s \in Sensors : sensor[s] \in Controllers
    BY SensorTyped DEF DriverTypes
  <1>1. ASSUME NEW by \in {-1, 1}, AgcMovesGain(by) PROVE InputsKept
    BY <1>0, <1>1 DEF AgcMovesGain, InputsKept, Controllers
  <1>2. CASE AnswerDialog \/ (\E operation \in Keys : PressKey(operation)) \/ UNCHANGED vars
    BY <1>2 DEF AnswerDialog, PressKey, vars, InputsKept
  <1> QED BY <1>1, <1>2

LEMMA EnableTurnsOn ==
  ASSUME DriverTypes, NEW t \in Tasks, EnableActive(t)
  PROVE  /\ sensor'[Active].on
         /\ \A s \in Sensors \ {Active} : sensor'[s].on = sensor[s].on
  BY SensorTyped DEF DriverTypes, EnableActive, Controllers

LEMMA DisableTurnsOff ==
  ASSUME DriverTypes, NEW t \in Tasks, DisableActive(t)
  PROVE  /\ ~sensor'[Active].on
         /\ \A s \in Sensors \ {Active} : sensor'[s].on = sensor[s].on
  BY SensorTyped DEF DriverTypes, DisableActive, Controllers

\* The buzzer never sounds after the clamp sensor was disabled: each of the ways out
\* of the clamp (Stop, a switch, a calibration) stops it, also when two tasks interfere.
THEOREM BuzzerStops == Spec => []BuzzerNeedsClamp
  <1>1. Init => BuzzerNeedsClamp
    BY DEF Init, BuzzerNeedsClamp
  <1>2. DriverTypes /\ BuzzerNeedsClamp /\ [Next]_vars => BuzzerNeedsClamp'
    <2> SUFFICES ASSUME DriverTypes, BuzzerNeedsClamp, [Next]_vars PROVE BuzzerNeedsClamp'
      OBVIOUS
    <2>0. "Clamp" \in Sensors
      BY DEF Sensors
    <2>1. CASE InputsKept
      BY <2>0, <2>1 DEF InputsKept, BuzzerNeedsClamp
    <2>2. ASSUME NEW t \in Tasks, EnableActive(t) PROVE BuzzerNeedsClamp'
      <3>1. buzzing' = (buzzing \/ (Active = "Clamp" /\ state.workMode = "Normal"))
        BY <2>2 DEF EnableActive
      <3>2. /\ sensor'[Active].on
            /\ \A s \in Sensors \ {Active} : sensor'[s].on = sensor[s].on
        BY <2>2, EnableTurnsOn
      <3>3. CASE Active = "Clamp"
        BY <3>2, <3>3 DEF BuzzerNeedsClamp
      <3>4. CASE Active # "Clamp"
        <4>1. sensor'["Clamp"].on = sensor["Clamp"].on
          BY <2>0, <3>2, <3>4
        <4>2. buzzing' => buzzing
          BY <3>1, <3>4
        <4> QED BY <4>1, <4>2, Zenon DEF BuzzerNeedsClamp
      <3> QED BY <3>3, <3>4
    <2>3. ASSUME NEW t \in Tasks, DisableActive(t) PROVE BuzzerNeedsClamp'
      <3>1. buzzing' => buzzing /\ Active # "Clamp"
        BY <2>3 DEF DisableActive
      <3>2. Active # "Clamp" => sensor'["Clamp"].on = sensor["Clamp"].on
        BY <2>0, <2>3, DisableTurnsOff
      <3> QED BY <3>1, <3>2, Zenon DEF BuzzerNeedsClamp
    <2> QED BY <2>1, <2>2, <2>3, StepsKeepInputs, OthersKeepInputs DEF Next
  <1> QED BY <1>1, <1>2, AlwaysTyped, PTL DEF Spec
=============================================================================
