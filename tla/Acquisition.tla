------------------------------ MODULE Acquisition ------------------------------
(***************************************************************************)
(* The way of a sample: the ADC's interrupt reads it and sends it to the   *)
(* stream buffer of the selected sensor; that sensor's input task receives *)
(* blocks, runs the detector over them and queues one reading per block;   *)
(* the measurements' task files readings under the active sensor. Around   *)
(* them the driver selects, starts and stops.                              *)
(*                                                                         *)
(* The input task has the highest priority, so every other task's step     *)
(* waits for it (InputsIdle); interrupts come between any two steps. The   *)
(* driver's task may share the priority of the measurements' task.         *)
(*                                                                         *)
(* Samples are numbered, modulo Cycle, as the stream buffer takes them     *)
(* after a start. A conversion that is lost before (overwritten in the     *)
(* ADC, cleared with its interrupt, or refused by a full buffer) has no    *)
(* number. A stream buffer is the queue StreamBuffer shows it to be, here  *)
(* of whole samples: it has room for a whole number of them.               *)
(***************************************************************************)
EXTENDS Integers, Sequences

CONSTANTS
  Sensors, First,   \* the sensors, and the one that is active at start-up
  Capacity,         \* samples a stream buffer holds (200)
  Block,            \* samples of a block, and the trigger level (100)
  QueueLength,      \* readings the queue holds (10)
  TickLimit,        \* samples of a period of the sine (22)
  Cycle,            \* bound: sample numbers are modulo Cycle
  None              \* no sensor

ASSUME AcquisitionAssumption ==
  /\ First \in Sensors /\ None \notin Sensors
  /\ {Block, QueueLength, TickLimit, Cycle} \subseteq Nat \ {0}
  /\ Capacity \in Nat /\ Capacity >= Block
  /\ Cycle % TickLimit = 0

VARIABLES
  pc,       \* where the driver is in selecting, starting and stopping
  active,   \* activeSensor
  adc,      \* its clock, its interrupt pending, its outputSB
  sb,       \* the stream buffer of each sensor
  input,    \* the input task of each sensor
  tick,     \* the detector's tickCounter
  queue,    \* fromSensorDataQueue
  dacFirst, \* the generator's itsFirstTimeInterrupt
  firstStart, \* no measurement was started yet
  \* history, read by properties only:
  number,   \* samples stored since the start, modulo Cycle
  base,     \* tickCounter at the start
  dropped,  \* a reading was dropped since the last one that was queued
  lastFiled \* the last sample of the last reading filed since the start

observed == <<number, base, dropped, lastFiled>>
vars == <<pc, active, adc, sb, input, tick, queue, dacFirst, firstStart, observed>>

Samples == 0 .. Cycle - 1

Buffers == [items : Seq(Samples), waiting : BOOLEAN]

Empty == [items |-> <<>>, waiting |-> FALSE]

Inputs == [at : {"receive", "wait"}, woken : BOOLEAN, suspended : BOOLEAN]

Readings ==
  [real : BOOLEAN, from : Sensors, first : Samples, last : Samples, whole : BOOLEAN, gap : BOOLEAN]

TypeOK ==
  /\ pc \in {"off", "reset", "resume", "callback", "ready", "running", "stopping", "drain", "warm"}
  /\ active \in Sensors
  /\ adc \in [on : BOOLEAN, pending : BOOLEAN, out : Sensors \cup {None}]
  /\ number \in Samples /\ lastFiled \in Samples
  /\ sb \in [Sensors -> Buffers] /\ \A s \in Sensors : Len(sb[s].items) <= Capacity
  /\ input \in [Sensors -> Inputs]
  /\ tick \in 0 .. TickLimit - 1 /\ base \in 0 .. TickLimit - 1
  /\ queue \in Seq(Readings) /\ Len(queue) <= QueueLength
  /\ {dacFirst, firstStart, dropped} \subseteq BOOLEAN

Runnable(s) == ~input[s].suspended /\ (input[s].at = "wait" => input[s].woken)

InputsIdle == \A s \in Sensors : ~Runnable(s)

Init ==
  /\ pc = "off" /\ active = First
  /\ adc = [on |-> FALSE, pending |-> FALSE, out |-> None]
  /\ number = 0 /\ tick = 0 /\ base = 0 /\ lastFiled = 0
  /\ sb = [s \in Sensors |-> Empty]
  /\ input = [s \in Sensors |-> [at |-> "receive", woken |-> FALSE, suspended |-> TRUE]]
  /\ queue = <<>>
  /\ dacFirst = FALSE /\ firstStart = TRUE /\ dropped = FALSE

-----------------------------------------------------------------------------
\* Interrupts.

Next1(n) == (n + 1) % Cycle

\* The ADC ends a conversion. One that nobody has read is overwritten.
Convert ==
  /\ adc.on
  /\ adc' = [adc EXCEPT !.pending = TRUE]
  /\ UNCHANGED <<pc, active, sb, input, tick, queue, dacFirst, firstStart, observed>>

\* Mutant: any sample wakes the waiting task, as in the original stream buffer.
WakesReaderAtOnce(b) == b.waiting

\* xStreamBufferSendFromISR notifies the waiting task at the trigger level.
WakesReader(b) == b.waiting /\ Len(b.items) >= Block

\* mcp3462_interrupt_handler: read and send; what does not fit is lost.
AdcInterrupt ==
  /\ adc.pending
  /\ adc' = [adc EXCEPT !.pending = FALSE]
  /\ LET out == adc.out
         fits == Len(sb[out].items) < Capacity
         after == IF fits THEN [sb[out] EXCEPT !.items = Append(@, number)] ELSE sb[out]
         wakes == fits /\ WakesReader(after)
     IN  /\ sb' = [sb EXCEPT ![out] = [after EXCEPT !.waiting = @ /\ ~wakes]]
         /\ input' = [input EXCEPT ![out].woken = @ \/ wakes]
         /\ number' = IF fits THEN Next1(number) ELSE number
  /\ UNCHANGED <<pc, active, tick, queue, dacFirst, firstStart, base, dropped, lastFiled>>

\* The generator's first interrupt calls SynchronizationCallback, which clears
\* a pending interrupt of the ADC.
DacFirstInterrupt ==
  /\ dacFirst /\ dacFirst' = FALSE
  /\ adc' = [adc EXCEPT !.pending = FALSE]
  /\ UNCHANGED <<pc, active, sb, input, tick, queue, firstStart, observed>>

-----------------------------------------------------------------------------
\* The input task: SensorController::InputTask over xStreamBufferReceive.

\* The reading made of a block, and whether it has no hole.
ReadingOf(s, block) ==
  [real |-> TRUE, from |-> s, first |-> block[1], last |-> block[Len(block)], gap |-> dropped,
   whole |-> \A i \in 2 .. Len(block) : block[i] = Next1(block[i - 1])]

\* The array of a Receive that received nothing, processed all the same.
Unwritten(s) ==
  [real |-> FALSE, from |-> s, first |-> 0, last |-> 0, gap |-> FALSE, whole |-> FALSE]

\* Mutant: the queue is taken to have room.
ProcessUnchecked(reading) ==
  /\ tick' = (tick + Block) % TickLimit
  /\ queue' = Append(queue, reading) /\ dropped' = FALSE

\* Mutant: the detector moves with the readings that are queued.
ProcessIfQueued(reading) ==
  IF Len(queue) < QueueLength
  THEN /\ queue' = Append(queue, reading) /\ dropped' = FALSE
       /\ tick' = (tick + Block) % TickLimit
  ELSE queue' = queue /\ tick' = tick /\ dropped' = (dropped \/ reading.real)

\* The detector runs over a block and the reading goes to the queue, or is
\* dropped by SendImmediate when that is full.
Process(reading) ==
  /\ tick' = (tick + Block) % TickLimit
  /\ IF Len(queue) < QueueLength
     THEN queue' = Append(queue, reading) /\ dropped' = FALSE
     ELSE queue' = queue /\ dropped' = (dropped \/ reading.real)

HasBlock(b) == Len(b.items) >= Block

Taken(b) == SubSeq(b.items, 1, Block)

AfterTaking(b) == [b EXCEPT !.items = SubSeq(@, Block + 1, Len(@))]

\* Receive finds a block, or makes its task the waiting one.
InputReceives(s) ==
  /\ Runnable(s) /\ input[s].at = "receive"
  /\ IF HasBlock(sb[s])
     THEN /\ sb' = [sb EXCEPT ![s] = AfterTaking(@)]
          /\ Process(ReadingOf(s, Taken(sb[s])))
          /\ UNCHANGED input
     ELSE /\ sb' = [sb EXCEPT ![s].waiting = TRUE]
          /\ input' = [input EXCEPT ![s].at = "wait", ![s].woken = FALSE]
          /\ UNCHANGED <<tick, queue, dropped>>
  /\ UNCHANGED <<pc, active, adc, dacFirst, firstStart, number, base, lastFiled>>

\* The wait ends with a notification, or because the task was resumed: then
\* there may be no block and the array is processed as it is.
InputWakes(s) ==
  /\ Runnable(s) /\ input[s].at = "wait"
  /\ input' = [input EXCEPT ![s].at = "receive", ![s].woken = FALSE]
  /\ sb' = [sb EXCEPT
              ![s] = [(IF HasBlock(@) THEN AfterTaking(@) ELSE @)
                        EXCEPT !.waiting = FALSE]]
  /\ Process(IF HasBlock(sb[s]) THEN ReadingOf(s, Taken(sb[s])) ELSE Unwritten(s))
  /\ UNCHANGED <<pc, active, adc, dacFirst, firstStart, number, base, lastFiled>>

-----------------------------------------------------------------------------
\* MeasurementsTask files the oldest reading under the active sensor.
FileReading ==
  /\ InputsIdle
  /\ queue # <<>>
  /\ queue' = Tail(queue)
  /\ lastFiled' = IF Head(queue).real THEN Head(queue).last ELSE lastFiled
  /\ UNCHANGED <<pc, active, adc, sb, input, tick, dacFirst, firstStart, number, base, dropped>>

-----------------------------------------------------------------------------
\* The driver: SetAndActivateSensor, StartMeasurements, StopMeasurements with
\* SensorController's Disable and Enable.

DriverGoes(from, to) == InputsIdle /\ pc = from /\ pc' = to

\* vTaskSuspend ends a wait for a notification without one.
SuspendInput(s) == input' = [input EXCEPT ![s].suspended = TRUE, ![s].woken = FALSE]

\* The active sensor is disabled, another one or the same becomes active.
Select(s) ==
  /\ \E from \in {"off", "ready", "warm"} : DriverGoes(from, "reset")
  /\ SuspendInput(active) /\ active' = s
  /\ UNCHANGED <<adc, sb, tick, queue, dacFirst, firstStart, observed>>

\* Mutant: what an earlier measurement left stays in the buffer.
EnableKeepsSamples ==
  /\ DriverGoes("reset", "resume")
  /\ tick' = 0 /\ sb' = [sb EXCEPT ![active].waiting = FALSE]
  /\ UNCHANGED <<active, adc, input, queue, dacFirst, firstStart, observed>>

\* Enable begins with the tick counter and the buffer.
EnableResets ==
  /\ DriverGoes("reset", "resume")
  /\ tick' = 0 /\ sb' = [sb EXCEPT ![active] = Empty]
  /\ UNCHANGED <<active, adc, input, queue, dacFirst, firstStart, observed>>

EnableResumes ==
  /\ DriverGoes("resume", "callback")
  /\ input' = [input EXCEPT ![active].suspended = FALSE, ![active].woken = (@ \/ input[active].at = "wait")]
  /\ UNCHANGED <<active, adc, sb, tick, queue, dacFirst, firstStart, observed>>

\* Mutant: the buffer is reset when its task runs already.
EnableCallsAndResets ==
  /\ DriverGoes("callback", "ready")
  /\ adc' = [adc EXCEPT !.out = active]
  /\ sb' = [sb EXCEPT ![active] = Empty]
  /\ UNCHANGED <<active, input, tick, queue, dacFirst, firstStart, observed>>

\* StandardSensorOnEnableCallback points the ADC at the sensor's buffer.
EnableCalls ==
  /\ DriverGoes("callback", "ready")
  /\ adc' = [adc EXCEPT !.out = active]
  /\ UNCHANGED <<active, sb, input, tick, queue, dacFirst, firstStart, observed>>

\* StartSynchronousMeasurements and StartGenerating, under SuspendAll. Before
\* the first measurement the ADC runs a while for the voltage alone.
Start ==
  /\ DriverGoes("ready", "running")
  /\ adc' = [adc EXCEPT !.on = TRUE, !.pending = FALSE]
  /\ (firstStart => active = First) /\ dacFirst' = ~firstStart
  /\ number' = 0 /\ lastFiled' = Cycle - 1 /\ base' = tick
  /\ dropped' = FALSE
  /\ UNCHANGED <<active, sb, input, tick, queue, firstStart>>

\* StopMeasurement: EnableInterrupt(false) only clears a pending interrupt...
StopClears ==
  /\ DriverGoes("running", "stopping")
  /\ adc' = [adc EXCEPT !.pending = FALSE]
  /\ UNCHANGED <<active, sb, input, tick, queue, dacFirst, firstStart, observed>>

\* ... so another conversion may still be delivered before the clock is off.
StopClock ==
  /\ DriverGoes("stopping", "drain")
  /\ adc' = [adc EXCEPT !.on = FALSE]
  /\ UNCHANGED <<active, sb, input, tick, queue, dacFirst, firstStart, observed>>

\* The run before the first measurement ends with a delay of 200 ms only.
WarmUpEnds ==
  /\ firstStart /\ DriverGoes("drain", "warm")
  /\ ~adc.pending /\ queue = <<>>
  /\ firstStart' = FALSE
  /\ UNCHANGED <<active, adc, sb, input, tick, queue, dacFirst, observed>>

\* Mutant: the sensor is disabled without the delay.
StopDisablesAtOnce ==
  /\ ~firstStart
  /\ DriverGoes("drain", "off")
  /\ SuspendInput(active) /\ dacFirst' = FALSE
  /\ UNCHANGED <<active, adc, sb, tick, queue, firstStart, observed>>

\* After the delay of 100 ms, in which interrupts, input task and measurements
\* have nothing left to do, the sensor is disabled and the generator stopped.
StopDisables ==
  /\ ~firstStart
  /\ DriverGoes("drain", "off")
  /\ ~adc.pending /\ queue = <<>>
  /\ SuspendInput(active) /\ dacFirst' = FALSE
  /\ UNCHANGED <<active, adc, sb, tick, queue, firstStart, observed>>

-----------------------------------------------------------------------------
InputStep == \E s \in Sensors : InputReceives(s) \/ InputWakes(s)

DriverStep ==
  \/ \E s \in Sensors : Select(s)
  \/ EnableResets \/ EnableResumes \/ EnableCalls
  \/ Start \/ StopClears \/ StopClock \/ StopDisables \/ WarmUpEnds

Next == Convert \/ AdcInterrupt \/ DacFirstInterrupt \/ InputStep \/ FileReading \/ DriverStep

Spec == Init /\ [][Next]_vars

\* The hardware converts and interrupts; the ready task of highest priority
\* runs, and when that is the measurements' task again and again, it files.
FairSpec ==
  /\ Spec
  /\ WF_vars(Convert) /\ WF_vars(AdcInterrupt) /\ WF_vars(InputStep)
  /\ SF_vars(FileReading)

-----------------------------------------------------------------------------
\* The detector's reference stays in step with the samples: its counter is
\* where the start left it, moved by exactly the stored samples it has seen.
TickFollowsSamples ==
  adc.on => tick = (base + number - Len(sb[active].items)) % TickLimit

\* Every reading is made of whole samples without a hole, and continues where
\* the last one filed since the start ended, except where the queue was full;
\* no sample is seen twice and none is left of an earlier start.
ReadingsAreContiguous ==
  [][FileReading /\ Head(queue).real =>
       /\ Head(queue).whole
       /\ Head(queue).gap \/ Head(queue).first = Next1(lastFiled)]_vars

\* A reading carries no sensor; MeasurementsTask files it under the active one.
\* That is the one that made it.
FiledUnderItsSensor == [][FileReading /\ Head(queue).real => Head(queue).from = active]_vars

\* While the ADC converts the input task processes received samples only; the
\* array nobody wrote is processed at most after a Resume, before a start.
MeasuresSamplesOnly == [][InputStep /\ adc.on => ~\E s \in Sensors : InputWakes(s) /\ ~HasBlock(sb[s])]_vars

\* A measurement that goes on brings readings for ever, on a processor that is
\* not so loaded that the input task never sleeps.
KeepsReading ==
  <>[](pc = "running") /\ []<>InputsIdle => []<><<FileReading>>_vars
=============================================================================
