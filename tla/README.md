# Verification of the Impedance Clamp Meter firmware

TLA+ models, TLC runs and TLAPS proofs for the firmware in `src/src`: an impedance
meter on an ATSAM4E under FreeRTOS. A generator drives a sine through a relay into the
circuit under test; one ADC samples one of three sensors (voltage, shunt, clamp) at a
time; a synchronous detector and filters turn the samples into a magnitude and a phase.

Paths below are relative to `src/src`. `PROJECT.json` maps every definition to its lines.

## 1. Inventory

| Component | State it keeps | Operations | Meets the others through |
|---|---|---|---|
| Gain controllers and AGC (`peripherals/gain_control`) | the controller's level, the AGC's own level, three counters, on/off | one sample, set/raise/lower a level, enable/disable the AGC | functors that program preamplifier pins and the ADC's gain; called by the input task, the keyboard's task and the calibration |
| Sensor controller (`analog/dsp/sensor.hpp`) | mode, input task, filters, tick counter (shared by all sensors) | Enable, Disable, SetMode, the input task's loop | stream buffer from the ADC's interrupt, queue to the measurements' task, callbacks to the driver |
| Driver (`clamp_meter_driver.hpp`) | isActive, firstStart, workMode, activeSensor, readings | the operations behind the keys, start/stop of measurements, the calibration's task, the measurements' task | calls into everything; suspends and resumes the calibration's task |
| Output stage (`OutputRelay`, `HVPowerSupply`, `OutputGenerator`) | on/off of relay, supply, generator | activate, deactivate | called by the driver |
| ADC driver (`analog/adc`) | clock, gain, multiplexer, output buffer | SPI commands, the interrupt per sample | interrupt to stream buffer; shared by all sensors |
| Dialog (`menu/menu_model_dialog.hpp`) | message, isWaitingForUserInput, a binary semaphore | show, wait for the user, the user's answer | keyboard's task gives, calibration's task takes |
| Menu (`menu/`) | current page, cursors, redraw flags, what has been drawn | key events, passes of drawing every 200 ms | keyboard's and driver's tasks change what the display's task draws, without a lock |
| Keyboard (`keyboard_fast/`) | pin image, a packet buffer, buttons, debounce | interrupt, read of the expander, events | interrupt to the MCP23016 task, tick count |
| TWI transfers (`drivers/twi_pdc.c`, ASF's `twi.c`) | a FIFO of packets | blocking read; put, next, interrupt | keyboard's handler; five packets at start-up |
| Calibration store (`nvm_controller`, ASF's flash service) | a flash page with a marker | Store, Recall | survives a reset; calibration's task stores, start-up recalls |
| Stream buffer (`freertos_cpp_wrappers/queue`, FreeRTOS's `stream_buffer.c` as modified) | ring of bytes, waiting task | send from an interrupt, blocking receive, reset | ADC's interrupt to input task, keyboard's interrupt to its task |
| Preamplifiers (`analog/sensor`, `peripherals/{shunt,clamp,analog_switch}`) | switch pins | SetGain | functors of the gain controllers |
| Filters and deviation (`analog/dsp`) | ring of samples, floating-point state | one block | input task, measurements' task |
| Buzzer, display, timers, start-up, vendored FreeRTOS/ASF/CMSIS | - | output, wrappers | - |

What is hard here. Five application tasks (display 1, keyboard 2, buzzer 2, measurements
and calibration 3, sensor input 4) and three interrupts share the hardware and most
objects without locks, relying on priorities and on suspending each other. The
calibration is suspended by another task wherever it happens to be. Starting a
measurement and selecting a sensor call each other. The AGC shadows the level of the
controller it drives. Nothing says that a level, a reading or a sample belongs to the
sensor it is used for.

What makes each component correct: the AGC raises a level on a steadily low signal, always
and only then; hardware, level and calibration value belong together; the output is
switched in a safe order and never left half way; at rest `isActive` is true to the
hardware; Stop stops; one sensor at a time; a calibration ends and stores what it says it
stores; the detector's reference is in phase with the sine; a key is never lost for good.
The hazards, each at its line, are in `PROJECT.json`.

## 2. Plan

In order of importance. All of it is built but what the last point names.

1. `GainControl`, `GainResponse`, `GainTest`, proofs in `GainControlProofs`.
2. `OutputStage` (abstract) and `ClampMeterDriver` (implements it), proofs in
   `ClampMeterDriverProofs`, `InterlockProofs` and `ServingProofs`.
3. `SafeStore` (abstract) and `CalibrationStore` (implements it), proofs in
   `CalibrationStoreProofs`.
4. `ByteFifo` (abstract) and `StreamBuffer` (implements it), proofs in `StreamBufferProofs`.
5. `Acquisition`, over the queue that 4 shows a stream buffer to be, proofs in
   `AcquisitionProofs`.
6. `Keyboard`, likewise over 4, proofs in `KeyboardProofs`.
7. Left out after reading the code: menu and drawing, SPI words, the preamplifiers' tables of
   pins (section 7).

No module that is proved about uses RECURSIVE; each has one action per operation.

## 3. Modules

`GainControl`. One sensor's gain path: `GainController` (`gain`), the AGC (`agcGain`,
`lowCnt`, `highCnt`, `sampleCnt`), `AmplifierController` (`agcEnabled`), the parts of
`SensorController` that touch them (`mode`, `phase`) and a gain key in progress (`key`).
A sample's magnitude is `low`, `inRange` or `high`, relative to the AGC's two limits. The
input task has the highest priority, so `Sample` is one step: `InspectSignalAmplitude`
with all its early returns, the AGC's own step and the controller's. A gain key runs in
the keyboard's task and can be preempted, so it is two steps: read the level
(`IncreaseGain`, `DecreaseGain`) and store the new one (`KeyStoresLevel`). What it programs
in between belongs to hardware the sensors share, and is in `ClampMeterDriver`.
`ResumeTasks` stands for what the modified `stream_buffer.c` makes of a resumed task:
Receive returns without data, `queue.hpp` returns an array nobody wrote, and the input task
processes it; so samples of any amplitude may arrive in phase `flushing`.

`GainResponse` adds observers (no code of their own): the length of a series of low
samples that did not raise the level, and the low samples since the last two samples in
range. `GainTest` runs `tests/amplifier_controller_tests.hpp` on the model.

`ClampMeterDriver`. The functions of the driver are sequences of statement names
(`StartMeasurements`, `StopMeasurements`, `SetAndActivateSensor`, ...), in the order of the
source; each task has a stack of calls (`[function, pc, sensor, wasActive, newGain]`) and
each statement is an action. `Call` evaluates the condition under which the source makes the
call (`Made`) and its argument. Two tasks run them: the keyboard's handler of a key and the
calibration's task, which has the higher priority, so the keyboard's runs only while the
calibration's is delayed, suspended or waiting for the user (`Runs`). A delay ends at any
time. `output`, `adc`, `sensor`, `buzzing` are the hardware and the sensors, `state` the
driver's fields, `dialog` the flag and the semaphore of the dialog, `data` and `stored` what
was read and what is kept as calibration, each value being which sensor and which level it
was read from. A level stands for two settings, of the preamplifier's pins and of the ADC's
gain: the pins are each sensor's own (`sensor[s].preamp`), the ADC's gain is one register that
every sensor's `Enable`, `Disable` and `SetGain` programs (`adc.gain`). A gain key is four
statements, as `GainController::SetGain` and its functor have it (`gain_controller.hpp:32-33`,
`clamp_meter_driver.hpp:250-259,449-487`): choose the level (`ChooseHigher`, `ChooseLower`),
`ProgramPreamp`, `ProgramAdc`, `StoreLevel`. The AGC, in the input task of priority 4, can
move the level between any two of them (`AgcMovesGain`). `iq` follows the tick counter of the
detector: zero, shifted by the block a resumed input task takes, or moved by samples; and its
value when the sine last started.

`OutputStage`. The abstract specification of the output: off, powered, driven, connected,
driven, draining, off, and never half way for ever. `ClampMeterDriver` implements it with
`stage <- Stage`, and an output in none of these states maps to `unsafe`, which the abstract
specification does not have.

`CalibrationStore`. The flash page (`flash`: the words of the set, the marker that says there
is one, the lock), the round of `CalibrationTask` that measures a set (`cal`, `slot`), and the
values in use. `Store` is one step per flash command; a command succeeds, is refused and
leaves everything, or does not verify and leaves anything between the old and the new page
(`Partly`). Power can be lost between two commands (`Reset`) or in the middle of one
(`BreakOff`); then everything but the page is gone and `Boot` recalls. A set's words carry the
number of the calibration that measured them, so a mixture shows. `SafeStore` is what the user
is promised. The marker proves only that it was written itself: a command broken off by
the hardware can leave the marker beside words that are garbage, and nothing, no checksum,
tells; the history variables `damaged` and `trusted` name that case and the properties exclude it.

`StreamBuffer`. FreeRTOS's ring buffer with the repository's two modifications (the trigger level
also holds for the receiver; a reset is allowed while a task waits), used by one interrupt
and one task. `xStreamBufferReceive` is as many steps as the interrupt can come between:
look and announce (a critical section), wait, clear the announcement, recheck, copy byte by
byte, move the tail. Notification, suspend and resume are those of `tasks.c`; a resume ends a
wait without a notification. `ByteFifo` is a queue of bytes in which a message that does not
fit is cut and nothing is received below the trigger level. `IsFifo` maps the ring to the queue.

`Acquisition`. The stream buffers as queues of whole samples, the input tasks (receiving or
waiting, notified, suspended), the detector's `tick`, the queue of readings, the ADC (its clock,
a pending interrupt, the buffer it serves), and the driver's way through selecting (`Select`,
`EnableResets`, `EnableResumes`, `EnableCalls`), starting and stopping. The input task has
the highest priority, so every other task's step waits for it (`InputsIdle`); interrupts do not.
A reading carries what the code's does not: the sensor it came from and its samples'
numbers. All input tasks are created suspended before the scheduler starts, so none has run
before its first `Enable`; a later `Enable` resumes a task that waited, which then processes an
array nobody wrote (`Unwritten`).

`Keyboard`. The keys, the expander's last read and so its INT level (`Asserted`), the port's
latched edge, the interrupt's handler in four steps (enter, look at the pin, read or fail
to, send), the packets and the task, which handles one pin per step between interrupts.
`Receive` takes everything in the buffer into an array of one packet; with more than one the
array is overrun, which is undefined, and the task is not modelled beyond it (`overrun`).

The modules ending in `Proofs`: section 6.

## 4. Runs

| Run | Specification | Checks | States |
|---|---|---|---|
| `GainInMeter` | `GainResponse!InMeterSpec` | `TypeOK`, `CountersBelowTriggers`, `KnownLevelRises`, `RiseNeedsSteadyLow` | about 43 000 |
| `GainStuck` | same | `LowSignalRaisesGain`, violated | - |
| `GainTest` | `TestSpec`, the real constants | `TestNeverFails`, violated | - |
| `DriverCalibrate` | `FairSpec`, all seven key operations | eight invariants, the action property `OnlyKeysPartThem`, the refinement `OutputIsStaged`, `KeyHandlersEnd`, `CalibrationEnds` | about 14 000 |
| `DriverAbort` | `Spec`, Stop at any moment | `StopAlwaysStops`, `OneSensorOn` | about 570 000 |
| `DriverLevels` | as `DriverCalibrate` | `StoredAtItsLevel`, violated | - |
| `DriverEnter` | `FairSpec`, Stop at any moment | `EnterIsHeard`, violated | - |
| `DriverPhase` | as `DriverCalibrate` | `PhaseLocked`, violated | - |
| `CalibrationStore` | `Spec` | `TypeOK`, `CalibratedIsMeasured`, `AnnouncedIsUsed`, the refinement `StoreIsSafe` | about 7 000 |
| `StreamBuffer` | `FairSpec` | `TypeOK`, `NoLostWakeup`, `DataIsReceived`, the refinement `IsFifo` | about 10 000 |
| `Acquisition` | `FairSpec` | `TypeOK`, `TickFollowsSamples`, `ReadingsAreContiguous`, `FiledUnderItsSensor`, `MeasuresSamplesOnly`, `KeepsReading` | about 300 000 |
| `Keyboard` | `FairSpec` | `TypeOK`, `AssertedIsServed`, `KnownIsLastRead`, `KnownFollowsKeys` | about 630 000 |

What they show. In `GainInMeter` every early return of the AGC, every interleaving with a
gain key and every switch of sensor, mode and AGC keeps the counters in their window; a
rise needs a steadily low signal; and the AGC answers a low signal in time as long as it
knows the level. In `DriverCalibrate` the relay never closes on a dead or silent output
whatever the nesting of starts and stops; everything is on or everything off at rest; no
call nests deeper than five; every handler and every calibration ends. The ADC's inputs are
always those of the active sensor while the output is sampled (`AdcServesActive`).

Level and amplification do come apart in this code. A gain key programs the preamplifier,
then the ADC, then stores the level, and an AGC that moves the level in between leaves the
sensor with the settings of one level and the number of another; what is measured is then
divided by the wrong gain. `OnlyKeysPartThem` says how far this goes: nothing but a gain key
parts them, a key that has been handled leaves them apart only if the AGC was on, and they
are together again when the AGC moves the level or a measurement starts. `AdcServesActive`
adds that a calibration, in which every sensor's level goes through the one ADC, measures the
active sensor at its level, though a gain key may have left the two apart just before.

In `DriverAbort` the calibration's task and the handler of Stop interfere
without a lock: while they do, the interlock of the output can be broken, and the run shows
what still holds, that Stop stops and that no two sensors are ever enabled.

In `CalibrationStore` no failed command and no loss of power between commands mixes two sets or
loses one that was announced. Beside the properties, reading the code for it showed: the page
stays unlocked when Store fails; a refused lock makes Store return false although
the set is kept; `isCalibrated` stays false after a calibration until the next start; an
interrupted calibration leaves new values in use for the sensors it reached; and
`flash_erase_page(address, 1)` (`flash_controller.hpp:41`) passes a code for a number of pages,
so it erases more than the page.
In `StreamBuffer` every interleaving of interrupt and task keeps the order of bytes, and a task
that sleeps is known to the next interrupt or is woken, although a reset forgets a waiting
task: what saves it is that the firmware suspends the task before it resets and resumes it after.
In `Acquisition` the detector's tick is, while the ADC runs, exactly that of the samples it has
seen; a full queue costs readings but never their order; the late interrupt that
`EnableInterrupt(false)` lets through (`mcp3462_driver.cpp:337`) still goes to the right sensor,
because the 100 ms delay follows it; and readings never stop. A conversion whose interrupt
`SynchronizationCallback` clears is not a sample, and shifts the phase by one; the models
number stored samples and say nothing of it.
In `Keyboard` no order of key changes, edges and reads leaves INT low with nobody to read it, as
long as reads succeed: after a failed one the keyboard is deaf until the keys are back where they
were. A debounced release is not handed on but is not forgotten.

The violated properties state what the repository says of itself and the code does not do:

- `GainStuck`: the AGC's own level is not reset with the controller's (`sensor.hpp:142,157`),
  so after a sensor was at its maximum level once, its gain no longer rises.
- `GainTest`: the repository's own test reports a failure in its second round, because
  `sampleCounter` is left at 450 by the first one and a window ends in the middle of the series.
- `DriverLevels`: `CalibrateSensor` sets a level (738), `StartMeasurements` (755) sets it back
  to the first: all ten levels are calibrated at level one.
- `DriverEnter`: a calibration suspended with its question open leaves a dialog that keeps
  every key and that nobody reads.
- `DriverPhase`: F1 during a measurement starts the sine a second time under a detector that
  is already counting.

## 5. Bounds, fairness and deadlock

- Gain: levels 1..3, `LowTrigger` 4, `HighTrigger` 2 instead of 1..10, 500 and 50. Three
  levels have both limits and a level that is neither; the window (five samples) is longer
  than either trigger, so it ends inside and outside a series; no counter is capped (each
  is bounded by the code, as `CountersBelowTriggers` says); the observers are capped at
  `StarvationLimit` + 1 and at `LowTrigger`, above anything a property compares them with.
  The theorems hold for all values.
- Driver: `MaxLevel` 2 has a first and a last level, and `NewResistorAt` {1} a level with and
  a level without a change of resistor; one level suffices for interrupted calibrations.
  `MaxDepth` 9 bounds the stack above `DeepestNesting`, 5, so a deeper recursion would be seen
  by `RecursionBounded`; `RecursionEnds` proves the same for every `MaxDepth`. `Keys`,
  `KeysWhileActive`, `KeysWhileCalibrating` say when the user presses what. In `DriverCalibrate` the user presses no key during a calibration but the
  dialog's.
- Store: three slots have a first, a middle and a last one; three calibrations let a set be
  stored over one that was stored over another.
- Stream buffer: length 4 (so 3 usable bytes), messages and trigger of 2, at most 3 received at
  once: a message can be cut, head and tail wrap at every offset, data stays behind.
- Acquisition: two sensors, the one that is left and the one that comes; blocks of 2 in a
  buffer of 3, a queue of 2, so both overflow; `TickLimit` 3 is, as in the firmware
  (22 and 100), no divisor of the block; sample numbers are modulo `Cycle` 6, larger than any
  distance between two samples on their way.
  A start is modelled only when no measurement is on; the second start under a running ADC is
  in `ClampMeterDriver`, where `DriverPhase` shows what it does.
- Keyboard: two pins, two packets, a debounce of one tick; one packet too many is then
  both lost by the sender and too many for the receiver's array. The properties are claimed
  while no read has failed (`AssertedIsServed`, `KnownFollowsKeys`) and until the array is
  overrun (all): what a failed read and an overrun do to the keyboard is documented here and in
  the hazards, not checked.
- Abstracted data: amplitudes to three classes; a reading to the sensor and the level it was
  made with; ADC gains to as many as are needed to tell the levels of a sensor apart; the
  deviation below its target to the end of a wait, of at least five seconds (`StableData`),
  which ends at any time. The loop of `WaitForStableData` (`clamp_meter_driver.hpp:664`) is
  therefore taken to end: `CalibrationEnds` speaks of the rest of the calibration, and would not
  notice a deviation that stays above its target.
- Fairness (`DriverCalibrate`, `DriverEnter`): weak fairness of each task's steps, justified
  by a preemptive scheduler whose higher-priority tasks block (both tasks spend their time in
  delays), of the end of each delay, and of the user's answer to an open dialog. No key press
  and no move of the AGC is assumed to happen.
- Fairness of the other runs. `StreamBuffer`: weak, of the receiver when it can run; `DataIsReceived`
  says nothing of a task that is suspended for good. `Acquisition`: weak, of the hardware's
  conversions, the interrupt and the input tasks, and strong of `FileReading`, because the
  measurements' task is ready again and again but pre-empted by every sample that
  wakes the input task; that it gets the processor again and again is the premise
  `[]<>InputsIdle` of `KeepsReading`, and a fixed-priority scheduler then runs it. `Keyboard`: weak, of
  interrupts and task. No key, no failure and no start is assumed to happen.
- Every run checks for deadlock.

## 6. Proofs

Each theorem follows `Init => Inv`, `Inv /\ [Next] => Inv'` with one step or lemma per action,
`Inv => property`; every constant is arbitrary up to the module's assumption.

`GainControlProofs`, for every range of levels and every pair of triggers with
`GainAssumption` (`HighTrigger <= LowTrigger`, both positive, as the constructors are called).

- `TypeCorrect`: `TypeOK` is inductive. It contains that neither level ever leaves
  its range although the AGC and the controller move theirs independently.
- `CountersStayBelow`: `CountersBelowTriggers` is inductive relative to `TypeOK`; the sum bound
  is what makes it so, because a window can end only when its samples exceed `LowTrigger`.
- `RiseIsSteady`: needs `WindowHoldsInRange`: a counter that is larger than the low samples since
  the last (last but one) sample in range shares its window with that sample (those two), so
  the window has no room left for the trigger.
- `KnownLevelRisesInTime`: needs `StarvedInv`: a series of low samples is either wholly
  counted in the present window, or began in one that ended, and then the present window
  has low samples only and cannot end before the trigger. It bounds the AGC's answer in
  samples, which is the content of a liveness property without fairness.

`CalibrationStoreProofs`, for any number of slots and calibrations: `StoreTyped`,
`MeasuredIfCalibrated`, `AnnouncedSetIsUsed` and the refinement `StoreImplementsPromise`. The invariant
says what each step of `Store` may rely on: from the erase to the write the page is blank unless a
command failed, when storing starts every slot was measured by the present calibration, and an
undamaged page with the marker holds one whole set.

`StreamBufferProofs`, for any length, trigger, message and receive size the assumption allows:
`StreamTyped`, `NoWakeupIsLost` and the refinement `StreamImplementsFifo`. The invariant
`StreamInv` adds that a waiting place announces its task, that a suspended task is between
two steps, and that what has been copied so far is a prefix of `Contents`: the interrupt
only appends behind it, which is why copying first and moving the tail after is safe.

`AcquisitionProofs`, for any sensors and sizes: `AcquisitionTyped`, `ReadingsAreTheirSensors`
and `OnlySamplesAreMeasured`. The invariant `AcquisitionInv` says that the ADC's clock,
pending interrupt and target buffer follow the driver (`AdcFollowsDriver`); that only the active
sensor's task runs; that a sleeping task is announced and its buffer has no block; that there
is no block at rest and after a start a woken task has one; and that queued readings of samples
are the active sensor's, and only during a measurement (`QueueIsActives`).

Its second part, over the same invariant: `DetectorKeepsStep` and
`ReadingsFollowEachOther`. `OrderInv` says that a start finds the active sensor's buffer empty, that
the buffer holds the newest samples one after the other, that the queued readings form a chain
from the last one filed to the buffer's first sample unless one was dropped, and that the tick is
the number of that first sample. Sample numbers wrap, so lemmas on remainders (`ModShift`,
`CycleShift`) come first; they need that the period of the sine divides the cycle.

`KeyboardProofs`, for any number of pins, packets and debounce: `KeyboardTyped`, `IntIsServed`
and `NoChangeIsForgotten`. The last needs that the last read is always somewhere on its way
(`LastReadIsOnItsWay`): the handler's sample, the newest packet, or the task's news with the
pins handled so far equal to it (`HandledIsKnown`).

`ClampMeterDriverProofs`, for any levels, keys and depth, without further hypothesis: `DriverTyped`
and `BuzzerStops`. A step moves its task's stack in one of five ways (`Moves`: a statement goes
on, calls, returns, begins the loop again or goes back in it). `StackInv` says that every call but
the innermost waits behind the statement that called the next one, which is what a return relies
on; what the bodies look like is one lemma, by cases over the functions.

`InterlockProofs` follows the driver through its bodies. `CameFrom` says where a task at statement
`p` of a function has come from: the statement before, a call, or the return of the function
called there. On that rest two invariants.

- `InterferenceInv`, if no key but Stop acts during a calibration (as in `DriverAbort`): the
  keyboard's task is then at most at the first statement of Stop or the last of StartCalibration
  (`KeyboardAlone`); only the active sensor is on, and none is while the sensor is changed
  (`Selecting`, where it matters that the calibration cannot be pre-empted there); and each
  statement of a stop has left what the ones before it switched off (`Stopping`). It gives
  `OneSensorAtATime` and `StopStops`.
- `OutputInv`, if no key acts during a calibration (as in `DriverCalibrate`): `Reached` tells for
  each statement of the four functions that switch the output what output, clock, `isActive` and
  sensor are, and that the other functions find the output settled, all on or all off. The recursion
  of StartMeasurements and SetAndActivateSensor is why a start must be described both from off and
  from on. A called function's last statement must give what its caller relies on
  (`ReturnReaches`); the first start, which happens inside a start and inside an activation, needs that
  no call noted an active measurement before it (`NotStarted`) and that it is never nested deeper
  (`InsideFirstStart`). It gives `InterlockHolds`, `RestIsConsistent` and
  `OutputSwitchedInOrder`, the safety half of the refinement.

The second hypothesis is needed by the argument and by the code: a calibration that Stop suspends
in the middle of a start goes on from there when it is resumed, with the output no longer as it
left it.

`ServingProofs` takes the calls as a whole, under that second hypothesis, for any levels, keys and
depth. `FramesOfStep` says what a step does to every frame of a stack, `FrameAfter` where each frame
after it comes from. Five invariants build on `OutputInv` and on each other.

- `NestingInv`, about who is inside whom: what the calibration calls comes after the first start
  (`FirstDone`), between its stops and its starts no measurement is on (`Resting`), and a start from
  nothing nests no deeper than the change of sensor in it, which finds nothing to stop and so
  nothing to start again (`NestedStarts`). Counting the frames gives `RecursionEnds`: no stack is
  deeper than five calls. Five is reached by a key that starts a measurement while one is on: the
  operation, its start, the change of sensor in it, the start of what that one stopped, and
  the change of sensor in that. Six is reached if Stop can act during a calibration: suspended
  with a measurement on and resumed, it makes such a start one call further in.
- `ArgumentInv`, about the sensor each call is for: only two functions have one (`AboutVoltage`),
  the caller and the change of sensor it waits for mean the same one (`PassedOn`), and from that
  change to the last statement that needs it, it is the active one (`Focused`).
- `ServingInv`: the ADC's inputs and gain and the preamplifier's pins are those of the active
  sensor's level wherever a task is going to connect the output, and at the end of
  StartCalibration, before it lets the calibration go (`Serving`), although the calibration
  sets the gains of sensors that are not active in between. It gives `AdcAlwaysServes`.
- `KeyProgrammed`: with the AGC off, a gain key finds in preamplifier and ADC what it has
  programmed there so far, because nothing else acts while it runs: no key does, and no
  calibration (`KeyboardAlone`). Every other statement programs both and stores the level, or
  touches none of the three, or acts while the output is not sampled. It gives
  `OnlyKeysPart`, the theorem on `OnlyKeysPartThem`.
- `ReadBefore`: a call past its reading finds under its sensor a reading of that sensor, which no
  later one, of either sensor, replaces by another's. It gives `StoredWhatItRead`.

Model-checked only: liveness, which is out of the prover's reach (`CalibrationEnds`,
`KeyHandlersEnd`, `DataIsReceived`, `KeepsReading`, `KnownFollowsKeys`, and the fairness half of
`OutputIsStaged`).

## 7. Not modelled

- Floating-point signal processing (filters, impedances, angles, the deviation's ring), and the
  buzzer's tones, whose period divides by a measured value.
- Menu and display. Two tasks share their state without a lock, and what they decide is what is on
  the screen; the one thing they decide for the rest of the firmware, that every key goes to a
  waiting dialog (behind which Back and Up move the menu too), is in `ClampMeterDriver`. Reading `menu_model_handler.hpp` for it showed what
  a model would have to be about:
  - Enter opens an item if the current page has children, whether or not the item has any (430).
    The cursor's range then wraps (`childCount - 1`, 474), and the next pass, which finds the
    cursor's state changed, asks the new page for its first child: `*(end() - 1)` of an
    empty vector (`menu_model_item.hpp:64`).
  - A pass makes room for the children of one page (325) and walks those of the page that is current
    by then (338): after a key that opens a longer page, `at` (339) ends the program.
  - If the cursor's position and its state change between two passes, only its new row is
    drawn (329) and the old one stays lit; if the page changes with the position, the old
    row is drawn on the new page (333), below its items.
  - `prevCursor = cursor` (335), `fullRedraw = false` (209) and `messageBoxShouldBeRedrawn = false`
    (379) lose a change that came while drawing; a change of page is not lost, as each
    pass compares pages (197).
  - A message is moved into the dialog (`menu_model_dialog.hpp:68`) while the display's task may be
    copying it, and the lock of a value is a temporary, released at once
    (`universal_type.hpp:43`), which floats of one word survive.
- The words on the SPI bus and the time-outs around them (`mcp3462_driver.cpp:364,373`): timing
  within microseconds of a shift register. The test at 364 skips the write when the last
  poll allowed succeeds and makes it when the polls ran out; the models take the ADC to have
  what it was sent.
- The FIFO of `twi_pdc.c`: five packets at start-up, before the tasks run. `twiPdc_disable` in
  `GetPinsState` would drop packets still queued, which then are configuration words equal
  to the expander's defaults or its polarity.
- `GetPinsState` asks for three bytes into a buffer of two (`mcp23016_driver_fast.cpp:157-161`):
  the transfer writes the third beside the buffer, on the stack. `Keyboard` has the two bytes
  that are handed on; what lies beside them is the compiler's choice, and the models have no
  memory layout.
- The tables of the preamplifiers' pins: a functor's writes to several pins are one statement
  (`ProgramPreamp`), so a sample taken between two of them is not in the models. The level
  that a gain key compares with the limit and the one it adds to are one read, as the
  compiler makes it.
- Start-up code and exception handlers;
  third-party code but what section 3 names.
