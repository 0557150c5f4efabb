---------------------------- MODULE AcquisitionProofs ----------------------------
(***************************************************************************)
(* That a reading is filed under the sensor that made it, that while the   *)
(* ADC converts only received samples are measured, that the detector      *)
(* stays in step with the samples and that readings are whole and follow   *)
(* each other, for any sensors, sizes of buffer, block, queue and period,  *)
(* and any cycle of sample numbers that the period divides.                *)
(***************************************************************************)
EXTENDS Acquisition, SequenceTheorems, TLAPS

Measuring == {"running", "stopping", "drain"}

\* The ADC converts, and has a sample to deliver, only in a measurement, and
\* delivers it to the active sensor.
AdcFollowsDriver ==
  /\ adc.on => pc \in {"running", "stopping"}
  /\ adc.pending => pc \in Measuring
  /\ pc \in Measuring \cup {"ready"} => adc.out = active

OnlyActiveRuns ==
  /\ \A s \in Sensors : s # active => input[s].suspended
  /\ input[active].suspended <=> pc \in {"off", "reset", "resume"}

\* A task that sleeps and is not to be woken is known to its buffer, which
\* then holds no block.
SleeperIsKnown ==
  \A s \in Sensors :
    ~input[s].suspended /\ input[s].at = "wait" /\ ~input[s].woken =>
      sb[s].waiting /\ ~HasBlock(sb[s])

\* Before a start the active sensor has no block ...
NoBlockAtRest == pc \in {"resume", "callback", "ready", "warm"} => ~HasBlock(sb[active])

\* ... and after it, it is woken for a block only.
WokenHasBlock ==
  pc \in Measuring /\ input[active].at = "wait" /\ input[active].woken =>
    HasBlock(sb[active])

\* Readings of samples are queued in a measurement only, by the active sensor.
QueueIsActives ==
  \A i \in 1 .. Len(queue) : queue[i].real => pc \in Measuring /\ queue[i].from = active

AcquisitionInv ==
  /\ TypeOK /\ AdcFollowsDriver /\ OnlyActiveRuns /\ SleeperIsKnown
  /\ NoBlockAtRest /\ WokenHasBlock /\ QueueIsActives

-----------------------------------------------------------------------------
\* Blocks, readings and the queue.

LEMMA ModRange ==
  ASSUME NEW a \in Int, NEW b \in Nat \ {0}
  PROVE  a % b \in 0 .. b - 1
  OBVIOUS

LEMMA BufferTyped ==
  ASSUME TypeOK, NEW s \in Sensors
  PROVE  /\ sb[s] \in Buffers /\ sb[s].items \in Seq(Samples)
         /\ Len(sb[s].items) \in Nat /\ Len(sb[s].items) <= Capacity
         /\ sb[s].waiting \in BOOLEAN
  <1>1. sb[s] \in Buffers /\ Len(sb[s].items) <= Capacity
    BY DEF TypeOK
  <1>2. sb[s].items \in Seq(Samples) /\ sb[s].waiting \in BOOLEAN
    BY <1>1 DEF Buffers
  <1> QED BY <1>1, <1>2, LenProperties

\* A block is made into a reading of its sensor, and leaves the buffer.
LEMMA BlockIsTaken ==
  ASSUME TypeOK, NEW s \in Sensors, HasBlock(sb[s])
  PROVE  /\ ReadingOf(s, Taken(sb[s])) \in Readings
         /\ ReadingOf(s, Taken(sb[s])).from = s
         /\ AfterTaking(sb[s]) \in Buffers
         /\ AfterTaking(sb[s]).waiting = sb[s].waiting
         /\ Len(AfterTaking(sb[s]).items) <= Capacity
  <1> DEFINE items == sb[s].items
             block == SubSeq(items, 1, Block)
             rest == SubSeq(items, Block + 1, Len(items))
  <1>1. /\ sb[s] \in Buffers /\ items \in Seq(Samples) /\ Len(items) \in Nat
        /\ Len(items) <= Capacity /\ Block \in Nat \ {0} /\ Block <= Len(items)
    BY BufferTyped, AcquisitionAssumption DEF HasBlock
  <1>2. \A i \in 1 .. Len(items) : items[i] \in Samples
    BY <1>1, ElementOfSeq
  <1> HIDE DEF items
  <1>3. block \in Seq(Samples) /\ Len(block) = Block
    <2>1. \A i \in 1 .. Block : items[i] \in Samples
      BY <1>1, <1>2
    <2>2. block \in Seq(Samples) /\ Len(block) = IF 1 <= Block THEN Block - 1 + 1 ELSE 0
      BY <1>1, <2>1, SubSeqProperties
    <2> QED BY <1>1, <2>2
  <1>4. rest \in Seq(Samples) /\ Len(rest) <= Capacity
    <2>1. \A i \in Block + 1 .. Len(items) : items[i] \in Samples
      BY <1>1, <1>2
    <2>2. /\ rest \in Seq(Samples)
          /\ Len(rest) = IF Block + 1 <= Len(items)
                         THEN Len(items) - (Block + 1) + 1 ELSE 0
      BY <1>1, <2>1, SubSeqProperties
    <2> QED BY <1>1, <2>2, AcquisitionAssumption
  <1> HIDE DEF block, rest
  <1>5. block[1] \in Samples /\ block[Len(block)] \in Samples
    BY <1>1, <1>3, ElementOfSeq
  <1>6. Taken(sb[s]) = block /\ AfterTaking(sb[s]) = [sb[s] EXCEPT !.items = rest]
    BY DEF Taken, AfterTaking, block, rest, items
  <1>7. /\ ReadingOf(s, block) \in Readings /\ ReadingOf(s, block).from = s
    <2>1. (\A i \in 2 .. Len(block) : block[i] = Next1(block[i - 1])) \in BOOLEAN
      BY Zenon
    <2>2. dropped \in BOOLEAN
      BY DEF TypeOK
    <2> QED BY <1>5, <2>1, <2>2 DEF ReadingOf, Readings
  <1>8. [sb[s] EXCEPT !.items = rest] \in Buffers
        /\ [sb[s] EXCEPT !.items = rest].waiting = sb[s].waiting
        /\ [sb[s] EXCEPT !.items = rest].items = rest
    BY <1>1, <1>4 DEF Buffers
  <1> QED BY <1>4, <1>6, <1>7, <1>8

LEMMA UnwrittenIsReading ==
  ASSUME NEW s \in Sensors
  PROVE  Unwritten(s) \in Readings /\ Unwritten(s).real = FALSE
  <1>1. 0 \in Samples
    BY AcquisitionAssumption DEF Samples
  <1> QED BY <1>1 DEF Unwritten, Readings

\* What is in the queue afterwards was there or is the new reading.
LEMMA QueueGrows ==
  ASSUME TypeOK, NEW r \in Readings, Process(r)
  PROVE  /\ tick' \in 0 .. TickLimit - 1 /\ dropped' \in BOOLEAN
         /\ queue' \in Seq(Readings) /\ Len(queue') <= QueueLength
         /\ \A i \in 1 .. Len(queue') :
              \/ i \in 1 .. Len(queue) /\ queue'[i] = queue[i]
              \/ queue'[i] = r
  <1>1. /\ tick \in Int /\ Block \in Int /\ TickLimit \in Nat \ {0}
        /\ queue \in Seq(Readings) /\ Len(queue) <= QueueLength /\ QueueLength \in Nat
        /\ dropped \in BOOLEAN /\ r.real \in BOOLEAN
    BY AcquisitionAssumption DEF TypeOK, Readings
  <1>2. tick' \in 0 .. TickLimit - 1
    BY <1>1, ModRange DEF Process
  <1>3. Len(queue) \in Nat
    BY <1>1, LenProperties
  <1>4. CASE Len(queue) < QueueLength
    <2>1. queue' = Append(queue, r) /\ dropped' = FALSE
      BY <1>4 DEF Process
    <2>2. /\ queue' \in Seq(Readings) /\ Len(queue') = Len(queue) + 1
          /\ \A i \in 1 .. Len(queue) : queue'[i] = queue[i]
          /\ queue'[Len(queue) + 1] = r
      BY <1>1, <2>1, AppendProperties
    <2>3. Len(queue') <= QueueLength
      BY <1>1, <1>3, <1>4, <2>2
    <2>4. ASSUME NEW i \in 1 .. Len(queue')
          PROVE  (i \in 1 .. Len(queue) /\ queue'[i] = queue[i]) \/ queue'[i] = r
      <3>1. i \in 1 .. Len(queue) \/ i = Len(queue) + 1
        BY <1>3, <2>2
      <3> QED BY <2>2, <3>1
    <2> QED BY <1>2, <2>1, <2>2, <2>3, <2>4
  <1>5. CASE ~(Len(queue) < QueueLength)
    <2>1. queue' = queue /\ dropped' = (dropped \/ r.real)
      BY <1>5 DEF Process
    <2>2. dropped' \in BOOLEAN
      BY <1>1, <2>1, Zenon
    <2> QED BY <1>1, <1>2, <2>1, <2>2
  <1> QED BY <1>4, <1>5

-----------------------------------------------------------------------------
\* The invariant.

LEMMA InvParts ==
  AcquisitionInv =>
    /\ TypeOK /\ AdcFollowsDriver /\ OnlyActiveRuns /\ SleeperIsKnown
    /\ NoBlockAtRest /\ WokenHasBlock /\ QueueIsActives
  BY DEF AcquisitionInv

LEMMA InitEstablishes == Init => AcquisitionInv
  <1> SUFFICES ASSUME Init PROVE AcquisitionInv
    OBVIOUS
  <1>1. <<>> \in Seq(Samples) /\ <<>> \in Seq(Readings) /\ Len(<<>>) = 0
    BY EmptySeq
  <1>2. 0 \in Samples /\ 0 \in 0 .. TickLimit - 1 /\ 0 <= QueueLength /\ 0 <= Capacity
    BY AcquisitionAssumption DEF Samples
  <1>3. Empty \in Buffers
    BY <1>1 DEF Empty, Buffers
  <1>4. [at |-> "receive", woken |-> FALSE, suspended |-> TRUE] \in Inputs
    BY DEF Inputs
  <1>5. TypeOK
    <2>1. sb \in [Sensors -> Buffers] /\ input \in [Sensors -> Inputs]
      BY <1>3, <1>4 DEF Init
    <2>2. \A s \in Sensors : Len(sb[s].items) <= Capacity
      BY <1>1, <1>2 DEF Init, Empty
    <2> QED BY <1>1, <1>2, <2>1, <2>2, AcquisitionAssumption DEF Init, TypeOK
  <1>6. \A s \in Sensors : input[s].suspended = TRUE
    BY DEF Init
  <1> QED BY <1>1, <1>5, <1>6, AcquisitionAssumption
    DEF Init, AcquisitionInv, AdcFollowsDriver, OnlyActiveRuns, SleeperIsKnown,
        NoBlockAtRest, WokenHasBlock, QueueIsActives, Measuring

\* A running input task, that of the active sensor.
LEMMA RunnableIsActive ==
  ASSUME AcquisitionInv, NEW s \in Sensors, Runnable(s)
  PROVE  s = active /\ pc \notin {"off", "reset", "resume"}
  BY InvParts DEF Runnable, OnlyActiveRuns

\* It processes a block in a measurement only.
LEMMA BlockMeansMeasuring ==
  ASSUME AcquisitionInv, NEW s \in Sensors, Runnable(s), HasBlock(sb[s])
  PROVE  pc \in Measuring
  <1>1. s = active /\ pc \notin {"off", "reset", "resume"}
    BY RunnableIsActive
  <1>2. pc \notin {"callback", "ready", "warm"}
    BY <1>1, InvParts DEF NoBlockAtRest
  <1> QED BY <1>1, <1>2, InvParts DEF TypeOK, Measuring

LEMMA ConvertPreserves ==
  ASSUME AcquisitionInv, Convert \/ DacFirstInterrupt
  PROVE  AcquisitionInv'
  <1>1. /\ UNCHANGED <<pc, active, sb, input, tick, queue, firstStart,
                       number, base, dropped, lastFiled>>
        /\ dacFirst' \in BOOLEAN
    BY InvParts DEF Convert, DacFirstInterrupt, observed, TypeOK
  <1>2. /\ adc' \in [on : BOOLEAN, pending : BOOLEAN, out : Sensors \cup {None}]
        /\ adc'.on = adc.on /\ adc'.out = adc.out
        /\ adc'.pending => adc.on
    BY InvParts DEF Convert, DacFirstInterrupt, TypeOK
  <1>3. TypeOK'
    BY <1>1, <1>2, InvParts DEF TypeOK
  <1>4. AdcFollowsDriver'
    BY <1>1, <1>2, InvParts DEF AdcFollowsDriver, Measuring
  <1> QED BY <1>1, <1>3, <1>4, InvParts
    DEF AcquisitionInv, OnlyActiveRuns, SleeperIsKnown, NoBlockAtRest,
        WokenHasBlock, QueueIsActives, HasBlock

LEMMA FileReadingPreserves ==
  ASSUME AcquisitionInv, FileReading
  PROVE  AcquisitionInv'
  <1>1. /\ UNCHANGED <<pc, active, adc, sb, input, tick, dacFirst, firstStart,
                       number, base, dropped>>
        /\ queue # <<>> /\ queue' = Tail(queue)
        /\ lastFiled' = IF Head(queue).real THEN Head(queue).last ELSE lastFiled
    BY DEF FileReading
  <1>2. queue \in Seq(Readings) /\ Len(queue) <= QueueLength /\ QueueLength \in Nat
    BY InvParts, AcquisitionAssumption DEF TypeOK
  <1>3. /\ Head(queue) \in Readings /\ Tail(queue) \in Seq(Readings)
        /\ Len(queue) \in Nat /\ Len(Tail(queue)) = Len(queue) - 1
        /\ \A i \in 1 .. Len(Tail(queue)) : Tail(queue)[i] = queue[i + 1]
    BY <1>1, <1>2, HeadTailProperties, LenProperties
  <1>4. lastFiled' \in Samples
    BY <1>1, <1>3, InvParts DEF Readings, TypeOK
  <1>5. TypeOK'
    BY <1>1, <1>2, <1>3, <1>4, InvParts DEF TypeOK
  <1>6. QueueIsActives'
    <2> SUFFICES ASSUME NEW i \in 1 .. Len(queue'), queue'[i].real
                 PROVE  pc' \in Measuring /\ queue'[i].from = active'
      BY DEF QueueIsActives
    <2>1. i + 1 \in 1 .. Len(queue) /\ queue'[i] = queue[i + 1]
      BY <1>1, <1>3
    <2> QED BY <1>1, <2>1, InvParts DEF QueueIsActives
  <1> QED BY <1>1, <1>5, <1>6, InvParts
    DEF AcquisitionInv, AdcFollowsDriver, OnlyActiveRuns, SleeperIsKnown,
        NoBlockAtRest, WokenHasBlock, HasBlock

LEMMA AdcInterruptPreserves ==
  ASSUME AcquisitionInv, AdcInterrupt
  PROVE  AcquisitionInv'
  <1> DEFINE fits == Len(sb[active].items) < Capacity
             after == IF fits THEN [sb[active] EXCEPT !.items = Append(@, number)]
                      ELSE sb[active]
             wakes == fits /\ WakesReader(after)
  <1>1. /\ TypeOK /\ pc \in Measuring /\ adc.out = active /\ active \in Sensors
        /\ ~input[active].suspended /\ adc.pending
    BY InvParts DEF AdcInterrupt, AdcFollowsDriver, OnlyActiveRuns, TypeOK, Measuring
  <1>2. /\ UNCHANGED <<pc, active, tick, queue, dacFirst, firstStart, base, dropped, lastFiled>>
        /\ adc' = [adc EXCEPT !.pending = FALSE]
        /\ sb' = [sb EXCEPT ![active] = [after EXCEPT !.waiting = @ /\ ~wakes]]
        /\ input' = [input EXCEPT ![active].woken = @ \/ wakes]
        /\ number' = IF fits THEN Next1(number) ELSE number
    BY <1>1 DEF AdcInterrupt
  <1>3. /\ sb[active] \in Buffers /\ sb[active].items \in Seq(Samples)
        /\ Len(sb[active].items) \in Nat /\ Len(sb[active].items) <= Capacity
        /\ number \in Samples /\ Capacity \in Nat /\ sb[active].waiting \in BOOLEAN
    BY <1>1, BufferTyped, AcquisitionAssumption DEF TypeOK
  <1>4. /\ after \in Buffers /\ after.waiting = sb[active].waiting
        /\ Len(after.items) <= Capacity /\ Len(after.items) \in Nat
        /\ Len(after.items) >= Len(sb[active].items)
        /\ ~fits => after = sb[active]
    <2>1. /\ Append(sb[active].items, number) \in Seq(Samples)
          /\ Len(Append(sb[active].items, number)) = Len(sb[active].items) + 1
      BY <1>3, AppendProperties
    <2>2. CASE fits
      <3>1. /\ after \in Buffers /\ after.waiting = sb[active].waiting
            /\ after.items = Append(sb[active].items, number)
        BY <1>3, <2>1, <2>2 DEF Buffers
      <3> QED BY <1>3, <2>1, <2>2, <3>1
    <2>3. CASE ~fits
      BY <1>3, <2>3
    <2> QED BY <2>2, <2>3
  <1>5. wakes \in BOOLEAN /\ (wakes <=> fits /\ after.waiting /\ HasBlock(after))
    BY DEF WakesReader, HasBlock
  <1>6. number' \in Samples
    <2>1. Next1(number) \in Samples
      <3>1. number + 1 \in Int /\ Cycle \in Nat \ {0}
        BY <1>3, AcquisitionAssumption DEF Samples
      <3> QED BY <3>1, ModRange DEF Next1, Samples
    <2> QED BY <1>2, <1>3, <2>1
  <1> HIDE DEF after, wakes, fits
  <1>7. /\ sb'[active] \in Buffers /\ sb'[active].items = after.items
        /\ sb'[active].waiting = (after.waiting /\ ~wakes)
        /\ \A s \in Sensors : s # active => sb'[s] = sb[s]
        /\ sb' \in [Sensors -> Buffers]
    <2>1. [after EXCEPT !.waiting = @ /\ ~wakes] \in Buffers
      <3>1. (after.waiting /\ ~wakes) \in BOOLEAN
        BY Zenon
      <3> QED BY <1>4, <3>1 DEF Buffers
    <2> QED BY <1>1, <1>2, <1>4, <2>1 DEF TypeOK, Buffers
  <1>8. /\ input'[active].woken = (input[active].woken \/ wakes)
        /\ input'[active].at = input[active].at
        /\ input'[active].suspended = input[active].suspended
        /\ \A s \in Sensors : s # active => input'[s] = input[s]
        /\ input' \in [Sensors -> Inputs]
    <2>1. input[active] \in Inputs
      BY <1>1 DEF TypeOK
    <2>2. [input[active] EXCEPT !.woken = @ \/ wakes] \in Inputs
      <3>1. (input[active].woken \/ wakes) \in BOOLEAN
        BY Zenon
      <3> QED BY <2>1, <3>1 DEF Inputs
    <2> QED BY <1>1, <1>2, <2>1, <2>2 DEF TypeOK, Inputs
  <1>9. TypeOK'
    <2>1. adc' \in [on : BOOLEAN, pending : BOOLEAN, out : Sensors \cup {None}]
      BY <1>1, <1>2 DEF TypeOK
    <2>2. \A s \in Sensors : Len(sb'[s].items) <= Capacity
      BY <1>1, <1>4, <1>7 DEF TypeOK
    <2> QED BY <1>1, <1>2, <1>6, <1>7, <1>8, <2>1, <2>2 DEF TypeOK
  <1>10. AdcFollowsDriver'
    <2>1. adc'.on = adc.on /\ adc'.pending = FALSE /\ adc'.out = adc.out
      BY <1>1, <1>2 DEF TypeOK
    <2> QED BY <1>2, <2>1, InvParts DEF AdcFollowsDriver
  <1>11. OnlyActiveRuns'
    BY <1>1, <1>2, <1>8, InvParts DEF OnlyActiveRuns
  <1>12. SleeperIsKnown'
    <2> SUFFICES ASSUME NEW s \in Sensors, ~input'[s].suspended,
                        input'[s].at = "wait", ~input'[s].woken
                 PROVE  sb'[s].waiting /\ ~HasBlock(sb'[s])
      BY DEF SleeperIsKnown
    <2>1. CASE s # active
      BY <1>7, <1>8, <2>1, InvParts DEF SleeperIsKnown
    <2>2. CASE s = active
      <3>1. ~wakes /\ sb[active].waiting /\ ~HasBlock(sb[active])
        BY <1>1, <1>8, <2>2, InvParts DEF SleeperIsKnown
      <3>2. ~HasBlock(after)
        <4>1. CASE fits
          BY <1>4, <1>5, <3>1, <4>1
        <4>2. CASE ~fits
          BY <1>4, <3>1, <4>2
        <4> QED BY <4>1, <4>2
      <3> QED BY <1>4, <1>7, <2>2, <3>1, <3>2 DEF HasBlock
    <2> QED BY <2>1, <2>2
  <1>13. WokenHasBlock'
    <2> SUFFICES ASSUME input'[active].at = "wait", input'[active].woken
                 PROVE  HasBlock(sb'[active])
      BY <1>2 DEF WokenHasBlock
    <2>1. CASE wakes
      BY <1>5, <1>7, <2>1 DEF HasBlock
    <2>2. CASE ~wakes
      <3>1. HasBlock(sb[active])
        BY <1>1, <1>8, <2>2, InvParts DEF WokenHasBlock
      <3> QED BY <1>3, <1>4, <1>7, <3>1, AcquisitionAssumption DEF HasBlock
    <2> QED BY <2>1, <2>2
  <1>14. NoBlockAtRest' /\ QueueIsActives'
    BY <1>1, <1>2, InvParts DEF NoBlockAtRest, QueueIsActives, Measuring
  <1> QED BY <1>9, <1>10, <1>11, <1>12, <1>13, <1>14 DEF AcquisitionInv

\* A reading processed by the active sensor keeps the queue's property.
LEMMA ReadingIsActives ==
  ASSUME AcquisitionInv, NEW s \in Sensors, Runnable(s), NEW r \in Readings, Process(r),
         r.real => r.from = s /\ HasBlock(sb[s]),
         UNCHANGED <<pc, active>>
  PROVE  QueueIsActives'
  <1> SUFFICES ASSUME NEW i \in 1 .. Len(queue'), queue'[i].real
               PROVE  pc \in Measuring /\ queue'[i].from = active
    BY DEF QueueIsActives
  <1>1. CASE i \in 1 .. Len(queue) /\ queue'[i] = queue[i]
    BY <1>1, InvParts DEF QueueIsActives
  <1>2. CASE queue'[i] = r
    BY <1>2, BlockMeansMeasuring, RunnableIsActive
  <1> QED BY <1>1, <1>2, QueueGrows, InvParts

LEMMA InputReceivesPreserves ==
  ASSUME AcquisitionInv, NEW s \in Sensors, InputReceives(s)
  PROVE  AcquisitionInv'
  <1>1. /\ TypeOK /\ Runnable(s) /\ s = active /\ pc \notin {"off", "reset", "resume"}
        /\ ~input[s].suspended /\ input[s].at = "receive"
    BY InvParts, RunnableIsActive DEF InputReceives, Runnable
  <1>2. UNCHANGED <<pc, active, adc, dacFirst, firstStart, number, base, lastFiled>>
    BY DEF InputReceives
  <1>3. CASE HasBlock(sb[s])
    <2> DEFINE r == ReadingOf(s, Taken(sb[s]))
               rest == AfterTaking(sb[s])
    <2>1. sb' = [sb EXCEPT ![s] = rest] /\ Process(r) /\ UNCHANGED input
      BY <1>3 DEF InputReceives
    <2>2. /\ r \in Readings /\ r.from = s /\ rest \in Buffers
          /\ rest.waiting = sb[s].waiting /\ Len(rest.items) <= Capacity
      BY <1>1, <1>3, BlockIsTaken
    <2> HIDE DEF r, rest
    <2>3. /\ tick' \in 0 .. TickLimit - 1 /\ dropped' \in BOOLEAN
          /\ queue' \in Seq(Readings) /\ Len(queue') <= QueueLength
      BY <1>1, <2>1, <2>2, QueueGrows
    <2>4. /\ sb' \in [Sensors -> Buffers] /\ sb'[s] = rest
          /\ \A q \in Sensors : q # s => sb'[q] = sb[q]
      BY <1>1, <2>1, <2>2 DEF TypeOK
    <2>5. TypeOK'
      <3>1. \A q \in Sensors : Len(sb'[q].items) <= Capacity
        BY <1>1, <2>2, <2>4 DEF TypeOK
      <3> QED BY <1>1, <1>2, <2>1, <2>3, <2>4, <3>1 DEF TypeOK
    <2>6. pc \in Measuring
      BY <1>1, <1>3, BlockMeansMeasuring
    <2>7. QueueIsActives'
      BY <1>1, <1>2, <1>3, <2>1, <2>2, ReadingIsActives
    <2>8. SleeperIsKnown'
      BY <1>1, <2>1, <2>4, InvParts DEF SleeperIsKnown
    <2>9. NoBlockAtRest' /\ WokenHasBlock'
      BY <1>1, <1>2, <2>1, <2>6 DEF NoBlockAtRest, WokenHasBlock, Measuring
    <2> QED BY <1>2, <2>1, <2>5, <2>7, <2>8, <2>9, InvParts
      DEF AcquisitionInv, AdcFollowsDriver, OnlyActiveRuns
  <1>4. CASE ~HasBlock(sb[s])
    <2>1. /\ sb' = [sb EXCEPT ![s].waiting = TRUE]
          /\ input' = [input EXCEPT ![s].at = "wait", ![s].woken = FALSE]
          /\ UNCHANGED <<tick, queue, dropped>>
      BY <1>4 DEF InputReceives
    <2>2. /\ sb' \in [Sensors -> Buffers] /\ sb'[s].items = sb[s].items
          /\ sb'[s].waiting = TRUE
          /\ \A q \in Sensors : q # s => sb'[q] = sb[q]
      BY <1>1, <2>1 DEF TypeOK, Buffers
    <2>3. /\ input' \in [Sensors -> Inputs]
          /\ input'[s].at = "wait" /\ input'[s].woken = FALSE
          /\ input'[s].suspended = input[s].suspended
          /\ \A q \in Sensors : q # s => input'[q] = input[q]
      BY <1>1, <2>1 DEF TypeOK, Inputs
    <2>4. TypeOK'
      <3>1. \A q \in Sensors : Len(sb'[q].items) <= Capacity
        BY <1>1, <2>2 DEF TypeOK
      <3> QED BY <1>1, <1>2, <2>1, <2>2, <2>3, <3>1 DEF TypeOK
    <2>5. ~HasBlock(sb'[s])
      BY <1>4, <2>2 DEF HasBlock
    <2>6. SleeperIsKnown'
      BY <1>1, <2>2, <2>3, <2>5, InvParts DEF SleeperIsKnown
    <2>7. NoBlockAtRest' /\ WokenHasBlock'
      BY <1>1, <1>2, <2>3, <2>5 DEF NoBlockAtRest, WokenHasBlock
    <2>8. OnlyActiveRuns'
      BY <1>1, <1>2, <2>3, InvParts DEF OnlyActiveRuns
    <2> QED BY <1>2, <2>1, <2>4, <2>6, <2>7, <2>8, InvParts
      DEF AcquisitionInv, AdcFollowsDriver, QueueIsActives
  <1> QED BY <1>3, <1>4

LEMMA InputWakesPreserves ==
  ASSUME AcquisitionInv, NEW s \in Sensors, InputWakes(s)
  PROVE  AcquisitionInv'
  <1> DEFINE r == IF HasBlock(sb[s]) THEN ReadingOf(s, Taken(sb[s])) ELSE Unwritten(s)
             left == IF HasBlock(sb[s]) THEN AfterTaking(sb[s]) ELSE sb[s]
  <1>1. /\ TypeOK /\ Runnable(s) /\ s = active /\ pc \notin {"off", "reset", "resume"}
        /\ ~input[s].suspended /\ input[s].at = "wait"
    BY InvParts, RunnableIsActive DEF InputWakes, Runnable
  <1>2. /\ UNCHANGED <<pc, active, adc, dacFirst, firstStart, number, base, lastFiled>>
        /\ input' = [input EXCEPT ![s].at = "receive", ![s].woken = FALSE]
        /\ sb' = [sb EXCEPT ![s] = [left EXCEPT !.waiting = FALSE]]
        /\ Process(r)
    BY DEF InputWakes
  <1>3. /\ r \in Readings /\ (r.real => r.from = s /\ HasBlock(sb[s]))
        /\ left \in Buffers /\ Len(left.items) <= Capacity
        /\ ~HasBlock(sb[s]) => left = sb[s]
    <2>1. CASE HasBlock(sb[s])
      BY <1>1, <2>1, BlockIsTaken
    <2>2. CASE ~HasBlock(sb[s])
      BY <1>1, <2>2, BufferTyped, UnwrittenIsReading
    <2> QED BY <2>1, <2>2
  <1> HIDE DEF r, left
  <1>4. /\ tick' \in 0 .. TickLimit - 1 /\ dropped' \in BOOLEAN
        /\ queue' \in Seq(Readings) /\ Len(queue') <= QueueLength
    BY <1>1, <1>2, <1>3, QueueGrows
  <1>5. /\ sb' \in [Sensors -> Buffers] /\ sb'[s].items = left.items
        /\ \A q \in Sensors : q # s => sb'[q] = sb[q]
    BY <1>1, <1>2, <1>3 DEF TypeOK, Buffers
  <1>6. /\ input' \in [Sensors -> Inputs] /\ input'[s].at = "receive"
        /\ input'[s].suspended = input[s].suspended
        /\ \A q \in Sensors : q # s => input'[q] = input[q]
    BY <1>1, <1>2 DEF TypeOK, Inputs
  <1>7. TypeOK'
    <2>1. \A q \in Sensors : Len(sb'[q].items) <= Capacity
      BY <1>1, <1>3, <1>5 DEF TypeOK
    <2> QED BY <1>1, <1>2, <1>4, <1>5, <1>6, <2>1 DEF TypeOK
  <1>8. QueueIsActives'
    BY <1>1, <1>2, <1>3, ReadingIsActives
  <1>9. SleeperIsKnown'
    BY <1>1, <1>5, <1>6, InvParts DEF SleeperIsKnown
  <1>10. WokenHasBlock'
    BY <1>1, <1>2, <1>6 DEF WokenHasBlock
  <1>11. NoBlockAtRest'
    <2>1. pc \in {"callback", "ready", "warm"} => ~HasBlock(sb[s])
      BY <1>1, InvParts DEF NoBlockAtRest
    <2> QED BY <1>1, <1>2, <1>3, <1>5, <2>1 DEF NoBlockAtRest, HasBlock
  <1>12. OnlyActiveRuns'
    BY <1>1, <1>2, <1>6, InvParts DEF OnlyActiveRuns
  <1> QED BY <1>2, <1>7, <1>8, <1>9, <1>10, <1>11, <1>12, InvParts
    DEF AcquisitionInv, AdcFollowsDriver

-----------------------------------------------------------------------------
\* The driver's steps.

LEMMA SelectPreserves ==
  ASSUME AcquisitionInv, NEW s \in Sensors, Select(s)
  PROVE  AcquisitionInv'
  <1>1. /\ TypeOK /\ active \in Sensors
        /\ pc \in {"off", "ready", "warm"} /\ pc' = "reset" /\ active' = s
        /\ input' = [input EXCEPT ![active].suspended = TRUE, ![active].woken = FALSE]
        /\ UNCHANGED <<adc, sb, tick, queue, dacFirst, firstStart,
                       number, base, dropped, lastFiled>>
    BY InvParts DEF Select, DriverGoes, SuspendInput, observed, TypeOK
  <1>2. /\ input' \in [Sensors -> Inputs] /\ input'[active].suspended = TRUE
        /\ \A q \in Sensors : q # active => input'[q] = input[q]
    BY <1>1 DEF TypeOK, Inputs
  <1>3. \A q \in Sensors : input'[q].suspended
    BY <1>2, InvParts DEF OnlyActiveRuns
  <1>4. TypeOK'
    BY <1>1, <1>2 DEF TypeOK
  <1>5. AdcFollowsDriver'
    BY <1>1, InvParts DEF AdcFollowsDriver, Measuring
  <1>6. QueueIsActives'
    BY <1>1, InvParts DEF QueueIsActives, Measuring
  <1> QED BY <1>1, <1>3, <1>4, <1>5, <1>6
    DEF AcquisitionInv, OnlyActiveRuns, SleeperIsKnown, NoBlockAtRest, WokenHasBlock,
        Measuring

LEMMA EnablePreserves ==
  ASSUME AcquisitionInv, EnableResets \/ EnableResumes \/ EnableCalls
  PROVE  AcquisitionInv'
  <1>1. TypeOK /\ active \in Sensors
    BY InvParts DEF TypeOK
  <1>2. CASE EnableResets
    <2>1. /\ pc = "reset" /\ pc' = "resume" /\ tick' = 0
          /\ sb' = [sb EXCEPT ![active] = Empty]
          /\ UNCHANGED <<active, adc, input, queue, dacFirst, firstStart,
                         number, base, dropped, lastFiled>>
      BY <1>2 DEF EnableResets, DriverGoes, observed
    <2>2. Empty \in Buffers /\ Len(Empty.items) <= Capacity
      BY EmptySeq, AcquisitionAssumption DEF Empty, Buffers
    <2>3. sb' \in [Sensors -> Buffers] /\ \A q \in Sensors : Len(sb'[q].items) <= Capacity
      BY <1>1, <2>1, <2>2 DEF TypeOK
    <2>4. TypeOK'
      <3>1. tick' \in 0 .. TickLimit - 1
        BY <2>1, AcquisitionAssumption
      <3> QED BY <1>1, <2>1, <2>3, <3>1 DEF TypeOK
    <2>5. \A q \in Sensors : input[q].suspended
      BY <2>1, InvParts DEF OnlyActiveRuns
    <2>6. NoBlockAtRest'
      <3>1. sb'[active] = Empty
        BY <1>1, <2>1 DEF TypeOK
      <3>2. ~HasBlock(Empty)
        BY EmptySeq, AcquisitionAssumption DEF HasBlock, Empty
      <3> QED BY <2>1, <3>1, <3>2 DEF NoBlockAtRest, HasBlock
    <2> QED BY <1>1, <2>1, <2>4, <2>5, <2>6, InvParts
      DEF AcquisitionInv, AdcFollowsDriver, OnlyActiveRuns, SleeperIsKnown,
          WokenHasBlock, QueueIsActives, Measuring
  <1>3. CASE EnableResumes
    <2>1. /\ pc = "resume" /\ pc' = "callback"
          /\ input' = [input EXCEPT ![active].suspended = FALSE,
                                    ![active].woken = (@ \/ input[active].at = "wait")]
          /\ UNCHANGED <<active, adc, sb, tick, queue, dacFirst, firstStart,
                         number, base, dropped, lastFiled>>
      BY <1>3 DEF EnableResumes, DriverGoes, observed
    <2>2. /\ input' \in [Sensors -> Inputs] /\ input'[active].suspended = FALSE
          /\ input'[active].at = input[active].at
          /\ input'[active].woken = (input[active].woken \/ input[active].at = "wait")
          /\ \A q \in Sensors : q # active => input'[q] = input[q]
      <3>1. (input[active].woken \/ input[active].at = "wait") \in BOOLEAN
        BY Zenon
      <3> QED BY <1>1, <2>1, <3>1 DEF TypeOK, Inputs
    <2>3. TypeOK'
      BY <1>1, <2>1, <2>2 DEF TypeOK
    <2>4. OnlyActiveRuns' /\ SleeperIsKnown'
      BY <1>1, <2>1, <2>2, InvParts DEF OnlyActiveRuns, SleeperIsKnown
    <2>5. NoBlockAtRest'
      BY <2>1, InvParts DEF NoBlockAtRest, HasBlock
    <2> QED BY <2>1, <2>3, <2>4, <2>5, InvParts
      DEF AcquisitionInv, AdcFollowsDriver, WokenHasBlock, QueueIsActives, Measuring
  <1>4. CASE EnableCalls
    <2>1. /\ pc = "callback" /\ pc' = "ready" /\ adc' = [adc EXCEPT !.out = active]
          /\ UNCHANGED <<active, sb, input, tick, queue, dacFirst, firstStart,
                         number, base, dropped, lastFiled>>
      BY <1>4 DEF EnableCalls, DriverGoes, observed
    <2>2. /\ adc' \in [on : BOOLEAN, pending : BOOLEAN, out : Sensors \cup {None}]
          /\ adc'.out = active /\ adc'.on = adc.on /\ adc'.pending = adc.pending
      BY <1>1, <2>1 DEF TypeOK
    <2>3. TypeOK'
      BY <1>1, <2>1, <2>2 DEF TypeOK
    <2>4. AdcFollowsDriver'
      BY <2>1, <2>2, InvParts DEF AdcFollowsDriver, Measuring
    <2> QED BY <2>1, <2>3, <2>4, InvParts
      DEF AcquisitionInv, OnlyActiveRuns, SleeperIsKnown, NoBlockAtRest, WokenHasBlock,
          QueueIsActives, Measuring
  <1> QED BY <1>2, <1>3, <1>4

\* When the input tasks sleep the active one waits, not woken.
LEMMA IdleMeansWaiting ==
  ASSUME AcquisitionInv, InputsIdle, pc \notin {"off", "reset", "resume"}
  PROVE  /\ ~input[active].suspended /\ input[active].at = "wait" /\ ~input[active].woken
         /\ ~HasBlock(sb[active])
  <1>1. active \in Sensors /\ ~input[active].suspended /\ ~Runnable(active)
    BY InvParts DEF TypeOK, OnlyActiveRuns, InputsIdle
  <1>2. input[active].at = "wait" /\ ~input[active].woken
    BY <1>1 DEF Runnable
  <1> QED BY <1>1, <1>2, InvParts DEF SleeperIsKnown

LEMMA StartPreserves ==
  ASSUME AcquisitionInv, Start
  PROVE  AcquisitionInv'
  <1>1. /\ TypeOK /\ InputsIdle /\ pc = "ready" /\ pc' = "running"
        /\ adc' = [adc EXCEPT !.on = TRUE, !.pending = FALSE]
        /\ dacFirst' = ~firstStart /\ number' = 0 /\ lastFiled' = Cycle - 1
        /\ base' = tick /\ dropped' = FALSE
        /\ UNCHANGED <<active, sb, input, tick, queue, firstStart>>
    BY InvParts DEF Start, DriverGoes
  <1>2. /\ adc' \in [on : BOOLEAN, pending : BOOLEAN, out : Sensors \cup {None}]
        /\ adc'.out = adc.out /\ adc'.pending = FALSE
    BY <1>1 DEF TypeOK
  <1>3. TypeOK'
    <2>1. number' \in Samples /\ lastFiled' \in Samples
      BY <1>1, AcquisitionAssumption DEF Samples
    <2>2. dacFirst' \in BOOLEAN
      BY <1>1 DEF TypeOK
    <2> QED BY <1>1, <1>2, <2>1, <2>2 DEF TypeOK
  <1>4. AdcFollowsDriver'
    BY <1>1, <1>2, InvParts DEF AdcFollowsDriver
  <1>5. ~input[active].woken
    BY <1>1, IdleMeansWaiting
  <1>6. QueueIsActives'
    BY <1>1, InvParts DEF QueueIsActives, Measuring
  <1> QED BY <1>1, <1>3, <1>4, <1>5, <1>6, InvParts
    DEF AcquisitionInv, OnlyActiveRuns, SleeperIsKnown, NoBlockAtRest, WokenHasBlock

LEMMA StopPreserves ==
  ASSUME AcquisitionInv, StopClears \/ StopClock \/ WarmUpEnds \/ StopDisables
  PROVE  AcquisitionInv'
  <1>1. TypeOK /\ active \in Sensors
    BY InvParts DEF TypeOK
  <1>2. CASE StopClears \/ StopClock
    <2>1. /\ pc \in {"running", "stopping"} /\ pc' \in {"stopping", "drain"}
          /\ UNCHANGED <<active, sb, input, tick, queue, dacFirst, firstStart,
                         number, base, dropped, lastFiled>>
      BY <1>2 DEF StopClears, StopClock, DriverGoes, observed
    <2>2. /\ adc' \in [on : BOOLEAN, pending : BOOLEAN, out : Sensors \cup {None}]
          /\ adc'.out = adc.out
          /\ adc'.on => pc' = "stopping"
      BY <1>1, <1>2, <2>1 DEF StopClears, StopClock, DriverGoes, TypeOK
    <2>3. TypeOK'
      BY <1>1, <2>1, <2>2 DEF TypeOK
    <2>4. AdcFollowsDriver'
      BY <2>1, <2>2, InvParts DEF AdcFollowsDriver, Measuring
    <2>5. WokenHasBlock' /\ NoBlockAtRest' /\ QueueIsActives'
      BY <2>1, InvParts DEF WokenHasBlock, NoBlockAtRest, QueueIsActives, Measuring
    <2> QED BY <2>1, <2>3, <2>4, <2>5, InvParts
      DEF AcquisitionInv, OnlyActiveRuns, SleeperIsKnown
  <1>3. CASE WarmUpEnds
    <2>1. /\ InputsIdle /\ pc = "drain" /\ pc' = "warm" /\ ~adc.pending /\ queue = <<>>
          /\ firstStart' = FALSE
          /\ UNCHANGED <<active, adc, sb, input, tick, queue, dacFirst,
                         number, base, dropped, lastFiled>>
      BY <1>3 DEF WarmUpEnds, DriverGoes, observed
    <2>2. ~HasBlock(sb[active])
      BY <2>1, IdleMeansWaiting
    <2>3. Len(queue') = 0
      BY <2>1, EmptySeq
    <2>4. TypeOK'
      BY <1>1, <2>1 DEF TypeOK
    <2> QED BY <2>1, <2>2, <2>3, <2>4, InvParts
      DEF AcquisitionInv, AdcFollowsDriver, OnlyActiveRuns, SleeperIsKnown,
          NoBlockAtRest, WokenHasBlock, QueueIsActives, Measuring
  <1>4. CASE StopDisables
    <2>1. /\ pc = "drain" /\ pc' = "off" /\ ~adc.pending /\ queue = <<>>
          /\ input' = [input EXCEPT ![active].suspended = TRUE, ![active].woken = FALSE]
          /\ dacFirst' = FALSE
          /\ UNCHANGED <<active, adc, sb, tick, queue, firstStart,
                         number, base, dropped, lastFiled>>
      BY <1>4 DEF StopDisables, DriverGoes, SuspendInput, observed
    <2>2. /\ input' \in [Sensors -> Inputs] /\ input'[active].suspended = TRUE
          /\ \A q \in Sensors : q # active => input'[q] = input[q]
      BY <1>1, <2>1 DEF TypeOK, Inputs
    <2>3. \A q \in Sensors : input'[q].suspended
      BY <2>2, InvParts DEF OnlyActiveRuns
    <2>4. Len(queue') = 0
      BY <2>1, EmptySeq
    <2>5. TypeOK'
      BY <1>1, <2>1, <2>2 DEF TypeOK
    <2>6. OnlyActiveRuns'
      BY <1>1, <2>1, <2>3 DEF OnlyActiveRuns
    <2>7. SleeperIsKnown'
      BY <2>3 DEF SleeperIsKnown
    <2>8. AdcFollowsDriver'
      BY <2>1, InvParts DEF AdcFollowsDriver, Measuring
    <2>9. QueueIsActives' /\ NoBlockAtRest' /\ WokenHasBlock'
      BY <2>1, <2>4 DEF QueueIsActives, NoBlockAtRest, WokenHasBlock, Measuring
    <2> QED BY <2>5, <2>6, <2>7, <2>8, <2>9 DEF AcquisitionInv
  <1> QED BY <1>2, <1>3, <1>4

LEMMA NextPreserves == AcquisitionInv /\ [Next]_vars => AcquisitionInv'
  <1> SUFFICES ASSUME AcquisitionInv, [Next]_vars PROVE AcquisitionInv'
    OBVIOUS
  <1>1. CASE Convert \/ DacFirstInterrupt
    BY <1>1, ConvertPreserves
  <1>2. CASE AdcInterrupt
    BY <1>2, AdcInterruptPreserves
  <1>3. CASE InputStep
    BY <1>3, InputReceivesPreserves, InputWakesPreserves DEF InputStep
  <1>4. CASE FileReading
    BY <1>4, FileReadingPreserves
  <1>5. CASE DriverStep
    BY <1>5, SelectPreserves, EnablePreserves, StartPreserves, StopPreserves DEF DriverStep
  <1>6. CASE UNCHANGED vars
    <2>1. UNCHANGED <<pc, active, adc, sb, input, tick, queue, dacFirst, firstStart,
                      number, base, dropped, lastFiled>>
      BY <1>6 DEF vars, observed
    <2>2. TypeOK'
      BY <2>1, InvParts DEF TypeOK
    <2> QED BY <2>1, <2>2, InvParts
      DEF AcquisitionInv, AdcFollowsDriver, OnlyActiveRuns, SleeperIsKnown,
          NoBlockAtRest, WokenHasBlock, QueueIsActives, HasBlock
  <1> QED BY <1>1, <1>2, <1>3, <1>4, <1>5, <1>6 DEF Next

-----------------------------------------------------------------------------
\* The theorems.

\* The invariant holds.
THEOREM AcquisitionInvariant == Spec => []AcquisitionInv
  BY InitEstablishes, NextPreserves, PTL DEF Spec

\* Buffers and queue keep their bounds, the tick counter its period.
THEOREM AcquisitionTyped == Spec => []TypeOK
  BY AcquisitionInvariant, InvParts, PTL

\* A reading of samples is filed under the sensor that made it, although it
\* does not say which that was: however samples, blocks, readings, selections,
\* starts and stops follow each other.
THEOREM ReadingsAreTheirSensors == Spec => FiledUnderItsSensor
  <1>1. AcquisitionInv /\ [Next]_vars =>
          [FileReading /\ Head(queue).real => Head(queue).from = active]_vars
    <2> SUFFICES ASSUME AcquisitionInv, FileReading, Head(queue).real
                 PROVE  Head(queue).from = active
      OBVIOUS
    <2>1. queue \in Seq(Readings) /\ queue # <<>>
      BY InvParts DEF FileReading, TypeOK
    <2>2. 1 \in 1 .. Len(queue) /\ Head(queue) = queue[1]
      BY <2>1, EmptySeq, HeadTailProperties
    <2> QED BY <2>2, InvParts DEF QueueIsActives
  <1> QED BY <1>1, AcquisitionInvariant, PTL DEF Spec, FiledUnderItsSensor

\* The array that nobody wrote is not measured while the ADC converts.
THEOREM OnlySamplesAreMeasured == Spec => MeasuresSamplesOnly
  <1>1. AcquisitionInv /\ [Next]_vars =>
          [InputStep /\ adc.on =>
             ~\E s \in Sensors : InputWakes(s) /\ ~HasBlock(sb[s])]_vars
    <2> SUFFICES ASSUME AcquisitionInv, adc.on, NEW s \in Sensors, InputWakes(s)
                 PROVE  HasBlock(sb[s])
      OBVIOUS
    <2>1. Runnable(s) /\ input[s].at = "wait" /\ s = active /\ pc \in Measuring
      BY InvParts, RunnableIsActive DEF InputWakes, AdcFollowsDriver, Measuring
    <2>2. input[s].woken
      BY <2>1 DEF Runnable
    <2> QED BY <2>1, <2>2, InvParts DEF WokenHasBlock
  <1> QED BY <1>1, AcquisitionInvariant, PTL DEF Spec, MeasuresSamplesOnly

-----------------------------------------------------------------------------
\* The numbers of the samples.

\* A start finds the active sensor's buffer empty.
EmptyAtRest == pc \in {"resume", "callback", "ready"} => sb[active].items = <<>>

\* The buffer holds the newest samples, one after the other.
ItemsAreConsecutive ==
  pc \in Measuring =>
    \A i \in 1 .. Len(sb[active].items) :
      sb[active].items[i] = (number - Len(sb[active].items) - 1 + i) % Cycle

\* The last sample of the reading before the i-th of the queue.
Before(i) == IF i > 1 /\ queue[i - 1].real THEN queue[i - 1].last ELSE lastFiled

\* Readings of samples follow each other, behind those made of nothing.
QueueIsChain ==
  pc \in Measuring =>
    \A i \in 1 .. Len(queue) : queue[i].real =>
      /\ queue[i].whole /\ (queue[i].gap \/ queue[i].first = Next1(Before(i)))
      /\ \A j \in i .. Len(queue) : queue[j].real

\* The buffer continues where the queue ends, unless a reading was dropped.
NextFollows ==
  pc \in Measuring /\ ~dropped =>
    (number - Len(sb[active].items)) % Cycle = Next1(Before(Len(queue) + 1))

OrderInv ==
  /\ EmptyAtRest /\ ItemsAreConsecutive /\ QueueIsChain /\ NextFollows
  /\ TickFollowsSamples

-----------------------------------------------------------------------------
\* Remainders.

LEMMA DivMod ==
  ASSUME NEW a \in Int, NEW n \in Nat \ {0}
  PROVE  a = n * (a \div n) + (a % n) /\ a % n \in 0 .. n - 1 /\ a \div n \in Int
  OBVIOUS

\* No multiple but zero lies between -n and n.
LEMMA SmallMultiple ==
  ASSUME NEW n \in Nat \ {0}, NEW k \in Int, NEW d \in Int, d = n * k, d < n, -n < d
  PROVE  d = 0
  <1>1. k <= 0
    <2> SUFFICES ASSUME k >= 1 PROVE FALSE
      OBVIOUS
    <2>1. n * k >= n
      OBVIOUS
    <2> QED BY <2>1
  <1>2. k >= 0
    <2> SUFFICES ASSUME k <= -1 PROVE FALSE
      OBVIOUS
    <2>1. n * k <= -n
      OBVIOUS
    <2> QED BY <2>1
  <1> QED BY <1>1, <1>2

LEMMA ModUnique ==
  ASSUME NEW a \in Int, NEW n \in Nat \ {0}, NEW q \in Int, NEW r \in 0 .. n - 1,
         a = n * q + r
  PROVE  a % n = r
  <1> DEFINE p == a \div n
             m == a % n
  <1>1. a = n * p + m /\ m \in 0 .. n - 1 /\ p \in Int
    BY DivMod
  <1> HIDE DEF p, m
  <1>2. m - r = n * (q - p)
    BY <1>1
  <1>3. m - r < n /\ -n < m - r /\ m - r \in Int /\ q - p \in Int
    BY <1>1
  <1>4. m - r = 0
    BY <1>2, <1>3, SmallMultiple
  <1>5. m = r
    BY <1>1, <1>4
  <1> QED BY <1>5 DEF m

LEMMA ModMultiple ==
  ASSUME NEW a \in Int, NEW n \in Nat \ {0}, NEW k \in Int
  PROVE  (a + n * k) % n = a % n
  <1> DEFINE p == a \div n
             m == a % n
  <1>1. a = n * p + m /\ m \in 0 .. n - 1 /\ p \in Int
    BY DivMod
  <1> HIDE DEF p, m
  <1>2. a + n * k = n * (p + k) + m /\ p + k \in Int /\ a + n * k \in Int
    BY <1>1
  <1>3. (a + n * k) % n = m
    BY <1>1, <1>2, ModUnique
  <1> QED BY <1>3 DEF m

\* A remainder may be taken before adding, ...
LEMMA ModShift ==
  ASSUME NEW a \in Int, NEW n \in Nat \ {0}, NEW b \in Int
  PROVE  ((a % n) + b) % n = (a + b) % n
  <1> DEFINE p == a \div n
             m == a % n
  <1>1. a = n * p + m /\ m \in Int /\ p \in Int
    BY DivMod
  <1> HIDE DEF p, m
  <1>2. a + b = (m + b) + n * p /\ m + b \in Int
    BY <1>1
  <1>3. ((m + b) + n * p) % n = (m + b) % n
    BY <1>1, <1>2, ModMultiple
  <1>4. (a + b) % n = (m + b) % n
    BY <1>2, <1>3
  <1> QED BY <1>4 DEF m

\* ... also that of a multiple.
LEMMA CycleShift ==
  ASSUME NEW a \in Int, NEW b \in Int
  PROVE  ((a % Cycle) + b) % TickLimit = (a + b) % TickLimit
  <1> DEFINE p == a \div Cycle
             m == a % Cycle
             k == Cycle \div TickLimit
             t == k * p
  <1>1. Cycle \in Nat \ {0} /\ TickLimit \in Nat \ {0} /\ Cycle % TickLimit = 0
    BY AcquisitionAssumption
  <1>2. a = Cycle * p + m /\ m \in Int /\ p \in Int
    BY <1>1, DivMod
  <1>3. Cycle = TickLimit * k /\ k \in Int
    <2>1. Cycle = TickLimit * k + (Cycle % TickLimit) /\ k \in Int
      BY <1>1, DivMod
    <2> HIDE DEF k
    <2> QED BY <1>1, <2>1
  <1> HIDE DEF p, m, k
  <1>4. Cycle * p = TickLimit * t /\ t \in Int
    BY <1>1, <1>2, <1>3
  <1> HIDE DEF t
  <1>5. a = TickLimit * t + m
    BY <1>2, <1>4
  <1>6. TickLimit * t \in Int
    BY <1>1, <1>4
  <1>7. a + b = (m + b) + TickLimit * t /\ m + b \in Int
    BY <1>2, <1>5, <1>6
  <1>8. ((m + b) + TickLimit * t) % TickLimit = (m + b) % TickLimit
    BY <1>1, <1>4, <1>7, ModMultiple
  <1>9. (a + b) % TickLimit = (m + b) % TickLimit
    BY <1>7, <1>8
  <1> QED BY <1>9 DEF m

LEMMA SmallMod ==
  ASSUME NEW n \in Nat \ {0}, NEW a \in 0 .. n - 1
  PROVE  a % n = a
  <1>1. a = n * 0 + a /\ 0 \in Int
    OBVIOUS
  <1> QED BY <1>1, ModUnique

-----------------------------------------------------------------------------
\* A block that is taken, and the reading made of it.

LEMMA OrderParts ==
  OrderInv =>
    EmptyAtRest /\ ItemsAreConsecutive /\ QueueIsChain /\ NextFollows /\ TickFollowsSamples
  BY DEF OrderInv

LEMMA TakenIsNext ==
  ASSUME AcquisitionInv, ItemsAreConsecutive, pc \in Measuring, HasBlock(sb[active]),
         NEW L, L = Len(sb[active].items),
         NEW r, r = ReadingOf(active, Taken(sb[active])),
         NEW left, left = AfterTaking(sb[active]).items
  PROVE  /\ r \in Readings /\ r.real /\ r.whole /\ r.gap = dropped
         /\ r.first = (number - L) % Cycle /\ r.last = (number - L - 1 + Block) % Cycle
         /\ L \in Nat /\ Len(left) = L - Block
         /\ \A i \in 1 .. Len(left) : left[i] = (number - Len(left) - 1 + i) % Cycle
  <1> DEFINE items == sb[active].items
             block == SubSeq(items, 1, Block)
             rest == SubSeq(items, Block + 1, Len(items))
  <1>1. TypeOK /\ active \in Sensors
    BY InvParts DEF TypeOK
  <1>2. /\ items \in Seq(Samples) /\ L \in Nat /\ Block \in Nat \ {0} /\ Block <= L
        /\ L = Len(items) /\ number \in Int /\ Cycle \in Nat \ {0}
    BY <1>1, BufferTyped, AcquisitionAssumption DEF HasBlock, TypeOK, Samples
  <1>3. \A i \in 1 .. L : items[i] = (number - L - 1 + i) % Cycle /\ items[i] \in Samples
    BY <1>2, ElementOfSeq DEF ItemsAreConsecutive
  <1>4. r \in Readings /\ left = rest
    <2>1. r \in Readings
      BY <1>1, BlockIsTaken
    <2>2. sb[active] \in Buffers
      BY <1>1, BufferTyped
    <2>3. AfterTaking(sb[active]).items = rest
      BY <2>2 DEF AfterTaking, Buffers
    <2> QED BY <2>1, <2>3
  <1> HIDE DEF items
  <1>5. Len(block) = Block /\ \A i \in 1 .. Block : block[i] = items[i]
    <2>1. \A i \in 1 .. Block : items[i] \in Samples
      BY <1>2, <1>3
    <2>2. /\ Len(block) = IF 1 <= Block THEN Block - 1 + 1 ELSE 0
          /\ \A i \in 1 .. Block - 1 + 1 : block[i] = items[1 + i - 1]
      BY <1>2, <2>1, SubSeqProperties
    <2> QED BY <1>2, <2>2
  <1>6. Len(rest) = L - Block /\ \A i \in 1 .. L - Block : rest[i] = items[Block + i]
    <2>1. \A i \in Block + 1 .. L : items[i] \in Samples
      BY <1>2, <1>3
    <2>2. /\ Len(rest) = IF Block + 1 <= L THEN L - (Block + 1) + 1 ELSE 0
          /\ \A i \in 1 .. L - (Block + 1) + 1 : rest[i] = items[(Block + 1) + i - 1]
      BY <1>2, <2>1, SubSeqProperties
    <2> QED BY <1>2, <2>2
  <1> HIDE DEF block, rest
  <1>7. ReadingOf(active, Taken(sb[active])) = ReadingOf(active, block)
    BY DEF Taken, block, items
  <1>8. /\ r.real = TRUE /\ r.gap = dropped /\ r.first = block[1] /\ r.last = block[Len(block)]
        /\ r.whole = (\A i \in 2 .. Len(block) : block[i] = Next1(block[i - 1]))
    BY <1>7 DEF ReadingOf
  <1>9. r.first = (number - L) % Cycle /\ r.last = (number - L - 1 + Block) % Cycle
    <2>1. block[1] = (number - L - 1 + 1) % Cycle /\ number - L - 1 + 1 = number - L
      BY <1>2, <1>3, <1>5
    <2>2. block[Block] = (number - L - 1 + Block) % Cycle
      BY <1>2, <1>3, <1>5
    <2> QED BY <1>5, <1>8, <2>1, <2>2
  <1>10. r.whole
    <2> SUFFICES ASSUME NEW i \in 2 .. Block PROVE block[i] = Next1(block[i - 1])
      BY <1>5, <1>8
    <2> DEFINE x == number - L - 1 + (i - 1)
    <2>1. /\ i \in 1 .. Block /\ i \in 1 .. L /\ i - 1 \in 1 .. Block /\ i - 1 \in 1 .. L
          /\ x \in Int /\ number - L - 1 + i = x + 1
      BY <1>2
    <2>2. block[i] = (number - L - 1 + i) % Cycle /\ block[i - 1] = x % Cycle
      BY <1>3, <1>5, <2>1
    <2> HIDE DEF x
    <2>3. ((x % Cycle) + 1) % Cycle = (x + 1) % Cycle
      BY <1>2, <2>1, ModShift
    <2> QED BY <2>1, <2>2, <2>3 DEF Next1
  <1>11. \A i \in 1 .. Len(left) : left[i] = (number - Len(left) - 1 + i) % Cycle
    <2> SUFFICES ASSUME NEW i \in 1 .. L - Block
                 PROVE  rest[i] = (number - (L - Block) - 1 + i) % Cycle
      BY <1>4, <1>6
    <2>1. Block + i \in 1 .. L /\ number - L - 1 + (Block + i) = number - (L - Block) - 1 + i
      BY <1>2
    <2> QED BY <1>3, <1>6, <2>1
  <1> QED BY <1>2, <1>4, <1>6, <1>8, <1>9, <1>10, <1>11

\* The reading is queued behind the others, or dropped.
LEMMA ChainGrows ==
  ASSUME AcquisitionInv, QueueIsChain, pc \in Measuring, UNCHANGED <<pc, lastFiled>>,
         NEW r \in Readings, Process(r), r.real, r.whole,
         r.gap \/ r.first = Next1(Before(Len(queue) + 1))
  PROVE  QueueIsChain' /\ (~dropped' => Before(Len(queue) + 1)' = r.last)
  <1>1. queue \in Seq(Readings) /\ Len(queue) \in Nat
    BY InvParts, LenProperties DEF TypeOK
  <1>2. CASE Len(queue) < QueueLength
    <2>1. queue' = Append(queue, r)
      BY <1>2 DEF Process
    <2>2. /\ Len(queue') = Len(queue) + 1 /\ queue'[Len(queue) + 1] = r
          /\ \A i \in 1 .. Len(queue) : queue'[i] = queue[i]
      BY <1>1, <2>1, AppendProperties
    <2>3. \A i \in 1 .. Len(queue) + 1 : Before(i)' = Before(i)
      <3> SUFFICES ASSUME NEW i \in 1 .. Len(queue) + 1 PROVE Before(i)' = Before(i)
        OBVIOUS
      <3>1. i > 1 => i - 1 \in 1 .. Len(queue)
        BY <1>1
      <3> QED BY <2>2, <3>1 DEF Before
    <2>4. QueueIsChain'
      <3> SUFFICES ASSUME NEW i \in 1 .. Len(queue'), queue'[i].real
                   PROVE  /\ queue'[i].whole
                          /\ queue'[i].gap \/ queue'[i].first = Next1(Before(i)')
                          /\ \A j \in i .. Len(queue') : queue'[j].real
        BY DEF QueueIsChain, Next1
      <3>1. CASE i = Len(queue) + 1
        BY <1>1, <2>2, <2>3, <3>1
      <3>2. CASE i # Len(queue) + 1
        <4>1. i \in 1 .. Len(queue) /\ queue'[i] = queue[i] /\ Before(i)' = Before(i)
          BY <1>1, <2>2, <2>3, <3>2
        <4>2. queue[i].whole /\ (queue[i].gap \/ queue[i].first = Next1(Before(i)))
          BY <4>1 DEF QueueIsChain
        <4>3. ASSUME NEW j \in i .. Len(queue') PROVE queue'[j].real
          <5>1. CASE j = Len(queue) + 1
            BY <2>2, <5>1
          <5>2. CASE j # Len(queue) + 1
            <6>1. j \in i .. Len(queue) /\ j \in 1 .. Len(queue)
              BY <1>1, <2>2, <4>1, <5>2
            <6> QED BY <2>2, <4>1, <6>1 DEF QueueIsChain
          <5> QED BY <5>1, <5>2
        <4> QED BY <4>1, <4>2, <4>3
      <3> QED BY <3>1, <3>2
    <2>5. Before(Len(queue) + 1)' = r.last
      <3>1. Len(queue') + 1 > 1 /\ (Len(queue') + 1) - 1 = Len(queue) + 1
        BY <1>1, <2>2
      <3> QED BY <2>2, <3>1 DEF Before
    <2> QED BY <2>4, <2>5
  <1>3. CASE ~(Len(queue) < QueueLength)
    <2>1. queue' = queue /\ dropped' = (dropped \/ r.real)
      BY <1>3 DEF Process
    <2>2. dropped'
      BY <2>1, Zenon
    <2>3. QueueIsChain'
      BY <2>1 DEF QueueIsChain, Before, Next1
    <2> QED BY <2>2, <2>3
  <1> QED BY <1>2, <1>3

LEMMA TakingKeepsOrder ==
  ASSUME AcquisitionInv, OrderInv, pc \in Measuring, HasBlock(sb[active]),
         Process(ReadingOf(active, Taken(sb[active]))),
         sb'[active].items = AfterTaking(sb[active]).items,
         UNCHANGED <<pc, active, adc, number, base, lastFiled>>
  PROVE  OrderInv'
  <1> DEFINE L == Len(sb[active].items)
             r == ReadingOf(active, Taken(sb[active]))
             left == AfterTaking(sb[active]).items
  <1>1. /\ r \in Readings /\ r.real /\ r.whole /\ r.gap = dropped
        /\ r.first = (number - L) % Cycle /\ r.last = (number - L - 1 + Block) % Cycle
        /\ L \in Nat /\ Len(left) = L - Block
        /\ \A i \in 1 .. Len(left) : left[i] = (number - Len(left) - 1 + i) % Cycle
    BY OrderParts, TakenIsNext
  <1>2. r.gap \/ r.first = Next1(Before(Len(queue) + 1))
    BY <1>1, OrderParts DEF NextFollows
  <1>3. Process(r) /\ sb'[active'].items = left
    OBVIOUS
  <1> HIDE DEF r, left
  <1>4. QueueIsChain' /\ (~dropped' => Before(Len(queue) + 1)' = r.last)
    BY <1>1, <1>2, <1>3, OrderParts, ChainGrows
  <1>5. /\ number \in Int /\ base \in Int /\ Block \in Int
        /\ Cycle \in Nat \ {0} /\ TickLimit \in Nat \ {0}
    BY InvParts, AcquisitionAssumption DEF TypeOK, Samples
  <1>6. ItemsAreConsecutive'
    BY <1>1, <1>3 DEF ItemsAreConsecutive
  <1>7. NextFollows'
    <2> SUFFICES ASSUME ~dropped'
                 PROVE  (number - Len(left)) % Cycle = Next1(Before(Len(queue) + 1)')
      BY <1>3 DEF NextFollows, Next1
    <2> DEFINE x == number - L - 1 + Block
    <2>0. L \in Nat /\ Len(left) = L - Block /\ number \in Int /\ Block \in Int
      BY <1>1, <1>5
    <2>1. number - Len(left) = x + 1 /\ r.last = x % Cycle
      <3>1. r.last = x % Cycle
        BY <1>1
      <3> HIDE DEF L
      <3>2. number - Len(left) = x + 1
        BY <2>0
      <3> QED BY <3>1, <3>2
    <2>2. x \in Int
      <3> HIDE DEF L
      <3> QED BY <2>0
    <2> HIDE DEF x
    <2>3. ((x % Cycle) + 1) % Cycle = (x + 1) % Cycle
      BY <1>5, <2>2, ModShift
    <2> QED BY <1>4, <2>1, <2>3 DEF Next1
  <1>8. TickFollowsSamples'
    <2> SUFFICES ASSUME adc.on
                 PROVE  tick' = (base + number - Len(left)) % TickLimit
      BY <1>3 DEF TickFollowsSamples
    <2> DEFINE x == base + number - L
    <2>1. tick = x % TickLimit /\ tick' = (tick + Block) % TickLimit
      BY <1>3, OrderParts DEF TickFollowsSamples, Process
    <2>2. x \in Int /\ base + number - Len(left) = x + Block
      BY <1>1, <1>5
    <2> HIDE DEF x
    <2>3. ((x % TickLimit) + Block) % TickLimit = (x + Block) % TickLimit
      BY <1>5, <2>2, ModShift
    <2> QED BY <2>1, <2>2, <2>3
  <1>9. EmptyAtRest'
    BY DEF EmptyAtRest, Measuring
  <1> QED BY <1>4, <1>6, <1>7, <1>8, <1>9 DEF OrderInv

-----------------------------------------------------------------------------
\* The steps.

\* Most steps leave the samples, the detector and the readings alone.
LEMMA FrameKeepsOrder ==
  ASSUME OrderInv, sb'[active'].items = sb[active].items,
         UNCHANGED <<active, tick, queue, number, base, dropped, lastFiled>>,
         adc'.on => adc.on, pc' \in Measuring => pc \in Measuring,
         pc' \in {"resume", "callback", "ready"} => pc \in {"resume", "callback", "ready"}
  PROVE  OrderInv'
  <1>1. EmptyAtRest'
    BY OrderParts DEF EmptyAtRest
  <1>2. ItemsAreConsecutive'
    BY OrderParts DEF ItemsAreConsecutive
  <1>3. QueueIsChain'
    BY OrderParts DEF QueueIsChain, Before, Next1
  <1>4. NextFollows'
    BY OrderParts DEF NextFollows, Before, Next1
  <1>5. TickFollowsSamples'
    BY OrderParts DEF TickFollowsSamples
  <1> QED BY <1>1, <1>2, <1>3, <1>4, <1>5 DEF OrderInv

LEMMA InitIsOrdered == Init => OrderInv
  <1> SUFFICES ASSUME Init PROVE OrderInv
    OBVIOUS
  <1> QED BY DEF Init, OrderInv, EmptyAtRest, ItemsAreConsecutive, QueueIsChain,
                 NextFollows, TickFollowsSamples, Measuring

LEMMA InterruptKeepsOrder ==
  ASSUME AcquisitionInv, OrderInv, AdcInterrupt
  PROVE  OrderInv'
  <1> DEFINE items == sb[active].items
             L == Len(items)
             fits == L < Capacity
  <1>1. /\ TypeOK /\ pc \in Measuring /\ adc.out = active /\ active \in Sensors
    BY InvParts DEF AdcInterrupt, AdcFollowsDriver, TypeOK, Measuring
  <1>2. /\ UNCHANGED <<pc, active, tick, queue, base, dropped, lastFiled>>
        /\ adc' = [adc EXCEPT !.pending = FALSE]
        /\ number' = IF fits THEN Next1(number) ELSE number
    BY <1>1 DEF AdcInterrupt
  <1>3. adc'.on = adc.on
    BY <1>1, <1>2 DEF TypeOK
  <1>4. /\ items \in Seq(Samples) /\ L \in Nat /\ sb[active] \in Buffers
        /\ number \in Samples /\ number \in Int /\ base \in Int
        /\ Cycle \in Nat \ {0} /\ TickLimit \in Nat \ {0}
    BY <1>1, BufferTyped, AcquisitionAssumption DEF TypeOK, Samples
  <1>5. sb'[active].items = IF fits THEN Append(items, number) ELSE items
    <2> DEFINE after == IF fits THEN [sb[active] EXCEPT !.items = Append(@, number)]
                        ELSE sb[active]
               wakes == fits /\ WakesReader(after)
    <2>1. sb' = [sb EXCEPT ![active] = [after EXCEPT !.waiting = @ /\ ~wakes]]
      BY <1>1 DEF AdcInterrupt
    <2>2. after.items = IF fits THEN Append(items, number) ELSE items
      BY <1>4 DEF Buffers
    <2>3. after \in [items : Seq(Samples) \cup {Append(items, number)}, waiting : BOOLEAN]
      BY <1>4 DEF Buffers
    <2>4. sb'[active] = [after EXCEPT !.waiting = @ /\ ~wakes]
      BY <1>1, <2>1 DEF TypeOK
    <2> HIDE DEF wakes, after
    <2> QED BY <2>2, <2>3, <2>4
  <1>6. CASE ~fits
    <2>1. sb'[active'].items = sb[active].items /\ number' = number
      BY <1>2, <1>5, <1>6
    <2> QED BY <1>2, <1>3, <2>1, FrameKeepsOrder
  <1>7. CASE fits
    <2>1. /\ Len(sb'[active].items) = L + 1 /\ sb'[active].items[L + 1] = number
          /\ \A i \in 1 .. L : sb'[active].items[i] = items[i]
      BY <1>4, <1>5, <1>7, AppendProperties
    <2>2. number' = (number + 1) % Cycle
      BY <1>2, <1>7 DEF Next1
    <2>3. \A i \in 1 .. L : items[i] = (number - L - 1 + i) % Cycle
      BY <1>1, OrderParts DEF ItemsAreConsecutive
    <2>4. number % Cycle = number
      BY <1>4, SmallMod DEF Samples
    <2> HIDE DEF items, L, fits
    \* A place in the buffer, seen from the new number.
    <2>5. \A x \in Int : (number' - x) % Cycle = (number + 1 - x) % Cycle
      <3> SUFFICES ASSUME NEW x \in Int
                   PROVE  (number' - x) % Cycle = (number + 1 - x) % Cycle
        OBVIOUS
      <3> DEFINE a == number + 1
                 b == -x
      <3>1. a \in Int /\ b \in Int
        BY <1>4
      <3>2. number' = a % Cycle /\ a % Cycle \in Int
        BY <1>4, <2>2, <3>1, ModRange
      <3> HIDE DEF a, b
      <3>3. ((a % Cycle) + b) % Cycle = (a + b) % Cycle
        BY <1>4, <3>1, ModShift
      <3>4. (a % Cycle) + b = number' - x /\ a + b = number + 1 - x
        BY <1>4, <3>2 DEF a, b
      <3> QED BY <3>3, <3>4
    <2>6. ItemsAreConsecutive'
      <3> SUFFICES ASSUME NEW i \in 1 .. L + 1
                   PROVE  sb'[active].items[i] = (number' - (L + 1) - 1 + i) % Cycle
        BY <1>2, <2>1 DEF ItemsAreConsecutive
      <3>1. number' \in Int
        BY <1>4, <2>2, ModRange
      <3>2. (number' - (L + 2 - i)) % Cycle = (number + 1 - (L + 2 - i)) % Cycle
        BY <1>4, <2>5
      <3>3. /\ number' - (L + 2 - i) = number' - (L + 1) - 1 + i
            /\ number + 1 - (L + 2 - i) = number - L - 1 + i
        BY <1>4, <3>1
      <3>4. sb'[active].items[i] = (number - L - 1 + i) % Cycle
        <4>1. CASE i \in 1 .. L
          BY <2>1, <2>3, <4>1
        <4>2. CASE i = L + 1
          <5>1. number - L - 1 + i = number
            BY <1>4, <4>2
          <5> QED BY <2>1, <2>4, <4>2, <5>1
        <4> QED BY <1>4, <4>1, <4>2
      <3> QED BY <3>2, <3>3, <3>4
    <2>7. NextFollows'
      <3> SUFFICES ASSUME ~dropped
                   PROVE  (number' - (L + 1)) % Cycle = Next1(Before(Len(queue) + 1))
        BY <1>2, <2>1 DEF NextFollows, Before, Next1
      <3>1. (number - L) % Cycle = Next1(Before(Len(queue) + 1))
        BY <1>1, OrderParts DEF NextFollows, L, items
      <3>2. (number' - (L + 1)) % Cycle = (number + 1 - (L + 1)) % Cycle
        BY <1>4, <2>5
      <3>3. number + 1 - (L + 1) = number - L
        BY <1>4
      <3> QED BY <3>1, <3>2, <3>3
    <2>8. TickFollowsSamples'
      <3> SUFFICES ASSUME adc.on
                   PROVE  tick = (base + number' - (L + 1)) % TickLimit
        BY <1>2, <1>3, <2>1 DEF TickFollowsSamples
      <3>1. tick = (base + number - L) % TickLimit
        BY OrderParts DEF TickFollowsSamples, L, items
      <3> DEFINE a == number + 1
                 b == base - (L + 1)
      <3>2. a \in Int /\ b \in Int
        BY <1>4
      <3>3. number' = a % Cycle /\ a % Cycle \in Int
        BY <1>4, <2>2, <3>2, ModRange
      <3> HIDE DEF a, b
      <3>4. ((a % Cycle) + b) % TickLimit = (a + b) % TickLimit
        BY <3>2, CycleShift
      <3>5. (a % Cycle) + b = base + number' - (L + 1) /\ a + b = base + number - L
        BY <1>4, <3>3 DEF a, b
      <3> QED BY <3>1, <3>4, <3>5
    <2>9. EmptyAtRest' /\ QueueIsChain'
      BY <1>1, <1>2, OrderParts DEF EmptyAtRest, QueueIsChain, Before, Next1, Measuring
    <2> QED BY <2>6, <2>7, <2>8, <2>9 DEF OrderInv
  <1> QED BY <1>6, <1>7

LEMMA InputKeepsOrder ==
  ASSUME AcquisitionInv, OrderInv, NEW s \in Sensors, InputReceives(s) \/ InputWakes(s)
  PROVE  OrderInv'
  <1>1. /\ TypeOK /\ Runnable(s) /\ s = active /\ pc \notin {"off", "reset", "resume"}
        /\ UNCHANGED <<pc, active, adc, number, base, lastFiled>>
        /\ sb \in [Sensors -> Buffers]
    BY InvParts, RunnableIsActive DEF InputReceives, InputWakes, TypeOK
  <1>2. CASE HasBlock(sb[s])
    <2>1. pc \in Measuring
      BY <1>1, <1>2, BlockMeansMeasuring
    <2>2. AfterTaking(sb[s]) \in Buffers
      BY <1>1, <1>2, BlockIsTaken
    <2>3. Process(ReadingOf(s, Taken(sb[s])))
      BY <1>2 DEF InputReceives, InputWakes
    <2>4. sb'[s].items = AfterTaking(sb[s]).items
      <3>1. CASE InputReceives(s)
        BY <1>1, <1>2, <3>1 DEF InputReceives
      <3>2. CASE InputWakes(s)
        <4>1. sb' = [sb EXCEPT ![s] = [AfterTaking(sb[s]) EXCEPT !.waiting = FALSE]]
          BY <1>2, <3>2 DEF InputWakes
        <4>2. sb'[s] = [AfterTaking(sb[s]) EXCEPT !.waiting = FALSE]
          BY <1>1, <4>1
        <4> QED BY <2>2, <4>2 DEF Buffers
      <3> QED BY <3>1, <3>2
    <2> QED BY <1>1, <1>2, <2>1, <2>3, <2>4, TakingKeepsOrder
  <1>3. CASE ~HasBlock(sb[s]) /\ InputReceives(s)
    <2>1. sb' = [sb EXCEPT ![s].waiting = TRUE] /\ UNCHANGED <<tick, queue, dropped>>
      BY <1>3 DEF InputReceives
    <2>2. sb[s] \in Buffers
      BY <1>1
    <2>3. sb'[active'].items = sb[active].items
      BY <1>1, <2>1, <2>2 DEF Buffers
    <2> QED BY <1>1, <2>1, <2>3, FrameKeepsOrder
  <1>4. CASE ~HasBlock(sb[s]) /\ InputWakes(s)
    <2>1. pc \notin Measuring
      BY <1>1, <1>4, InvParts DEF WokenHasBlock, InputWakes, Runnable
    <2>2. sb' = [sb EXCEPT ![s] = [sb[s] EXCEPT !.waiting = FALSE]]
      BY <1>4 DEF InputWakes
    <2>3. sb'[s] = [sb[s] EXCEPT !.waiting = FALSE] /\ sb[s] \in Buffers
      BY <1>1, <2>2
    <2>4. sb'[active'].items = sb[active].items
      BY <1>1, <2>3 DEF Buffers
    <2>5. ~adc.on
      BY <2>1, InvParts DEF AdcFollowsDriver, Measuring
    <2> QED BY <1>1, <2>1, <2>4, <2>5, OrderParts
        DEF OrderInv, EmptyAtRest, ItemsAreConsecutive, QueueIsChain, NextFollows,
            TickFollowsSamples
  <1> QED BY <1>2, <1>3, <1>4

\* The reading that is filed becomes the one before the next.
LEMMA FilingKeepsOrder ==
  ASSUME AcquisitionInv, OrderInv, FileReading
  PROVE  OrderInv'
  <1>1. /\ UNCHANGED <<pc, active, adc, sb, tick, number, base, dropped>>
        /\ queue # <<>> /\ queue' = Tail(queue)
        /\ lastFiled' = IF Head(queue).real THEN Head(queue).last ELSE lastFiled
    BY DEF FileReading
  <1>2. queue \in Seq(Readings)
    BY InvParts DEF TypeOK
  <1>3. /\ Len(queue) \in Nat /\ Len(queue) >= 1 /\ Head(queue) = queue[1]
        /\ Len(queue') = Len(queue) - 1
        /\ \A i \in 1 .. Len(queue') : queue'[i] = queue[i + 1]
    BY <1>1, <1>2, HeadTailProperties, LenProperties, EmptySeq
  <1>4. CASE pc \notin Measuring
    BY <1>1, <1>4, OrderParts
      DEF OrderInv, EmptyAtRest, ItemsAreConsecutive, QueueIsChain, NextFollows,
          TickFollowsSamples
  <1>5. CASE pc \in Measuring
    <2>1. \A i \in 1 .. Len(queue) : Before(i)' = Before(i + 1)
      <3> SUFFICES ASSUME NEW i \in 1 .. Len(queue) PROVE Before(i)' = Before(i + 1)
        OBVIOUS
      <3>1. CASE i = 1
        BY <1>1, <1>3, <3>1 DEF Before
      <3>2. CASE i # 1
        <4>1. /\ i > 1 /\ i - 1 \in 1 .. Len(queue') /\ (i - 1) + 1 = i
              /\ i + 1 > 1 /\ (i + 1) - 1 = i
          BY <1>3, <3>2
        <4>2. queue'[i - 1] = queue[i]
          BY <1>3, <4>1
        \* If the reading filed was real, so are all behind it.
        <4>3. ~queue[i].real => lastFiled' = lastFiled
          <5>1. 1 \in 1 .. Len(queue)
            BY <1>3
          <5> QED BY <1>1, <1>3, <1>5, <5>1, OrderParts DEF QueueIsChain
        <4> QED BY <4>1, <4>2, <4>3 DEF Before
      <3> QED BY <3>1, <3>2
    <2>2. QueueIsChain'
      <3> SUFFICES ASSUME NEW i \in 1 .. Len(queue'), queue'[i].real
                   PROVE  /\ queue'[i].whole
                          /\ queue'[i].gap \/ queue'[i].first = Next1(Before(i)')
                          /\ \A j \in i .. Len(queue') : queue'[j].real
        BY DEF QueueIsChain, Next1
      <3>1. /\ i \in 1 .. Len(queue) /\ i + 1 \in 1 .. Len(queue)
            /\ queue'[i] = queue[i + 1] /\ Before(i)' = Before(i + 1)
        BY <1>3, <2>1
      <3>2. /\ queue[i + 1].whole
            /\ queue[i + 1].gap \/ queue[i + 1].first = Next1(Before(i + 1))
            /\ \A j \in i + 1 .. Len(queue) : queue[j].real
        BY <1>5, <3>1, OrderParts DEF QueueIsChain
      <3>3. ASSUME NEW j \in i .. Len(queue') PROVE queue'[j].real
        <4>1. j \in 1 .. Len(queue') /\ j + 1 \in i + 1 .. Len(queue)
          BY <1>3
        <4> QED BY <1>3, <3>2, <4>1
      <3> QED BY <3>1, <3>2, <3>3
    <2>3. NextFollows'
      <3>1. Len(queue') + 1 = Len(queue) /\ Len(queue) \in 1 .. Len(queue)
        BY <1>3
      <3> QED BY <1>1, <1>5, <2>1, <3>1, OrderParts DEF NextFollows, Next1, Before
    <2> QED BY <1>1, <2>2, <2>3, OrderParts
        DEF OrderInv, EmptyAtRest, ItemsAreConsecutive, TickFollowsSamples
  <1> QED BY <1>4, <1>5

LEMMA StartKeepsOrder ==
  ASSUME AcquisitionInv, OrderInv, Start
  PROVE  OrderInv'
  <1>1. /\ pc = "ready" /\ pc' = "running" /\ number' = 0 /\ lastFiled' = Cycle - 1
        /\ base' = tick /\ UNCHANGED <<active, sb, tick, queue>>
    BY DEF Start, DriverGoes
  <1>2. sb[active].items = <<>>
    BY <1>1, OrderParts DEF EmptyAtRest
  <1>3. \A i \in 1 .. Len(queue) : ~queue[i].real
    BY <1>1, InvParts DEF QueueIsActives, Measuring
  <1>4. /\ queue \in Seq(Readings) /\ Len(queue) \in Nat
        /\ Cycle \in Nat \ {0} /\ TickLimit \in Nat \ {0} /\ tick \in 0 .. TickLimit - 1
    BY InvParts, LenProperties, AcquisitionAssumption DEF TypeOK
  <1>5. QueueIsChain'
    BY <1>1, <1>3 DEF QueueIsChain
  <1>6. NextFollows'
    <2>1. Before(Len(queue) + 1)' = Cycle - 1
      <3>1. Len(queue) + 1 > 1 => (Len(queue) + 1) - 1 \in 1 .. Len(queue)
        BY <1>4
      <3> QED BY <1>1, <1>3, <3>1 DEF Before
    <2>2. Next1(Cycle - 1) = 0
      <3>1. Cycle = Cycle * 1 + 0 /\ 0 \in 0 .. Cycle - 1 /\ (Cycle - 1) + 1 = Cycle
        BY <1>4
      <3>2. Cycle % Cycle = 0
        BY <1>4, <3>1, ModUnique
      <3> QED BY <3>1, <3>2 DEF Next1
    <2>3. 0 % Cycle = 0
      BY <1>4, SmallMod
    <2> QED BY <1>1, <1>2, <2>1, <2>2, <2>3 DEF NextFollows, Next1
  <1>7. TickFollowsSamples'
    <2>1. tick % TickLimit = tick
      BY <1>4, SmallMod
    <2>2. base' + number' - Len(sb'[active'].items) = tick
      BY <1>1, <1>2, <1>4
    <2> QED BY <1>1, <2>1, <2>2 DEF TickFollowsSamples
  <1> QED BY <1>1, <1>2, <1>5, <1>6, <1>7
      DEF OrderInv, EmptyAtRest, ItemsAreConsecutive

LEMMA DriverKeepsOrder ==
  ASSUME AcquisitionInv, OrderInv, DriverStep
  PROVE  OrderInv'
  <1>1. TypeOK /\ active \in Sensors /\ sb \in [Sensors -> Buffers]
    BY InvParts DEF TypeOK
  \* Outside of a measurement nothing is said but that the buffer is empty.
  <1>2. ASSUME pc' \notin Measuring, ~adc'.on, EmptyAtRest' PROVE OrderInv'
    BY <1>2 DEF OrderInv, ItemsAreConsecutive, QueueIsChain, NextFollows, TickFollowsSamples
  <1>3. pc \notin Measuring => ~adc.on
    BY InvParts DEF AdcFollowsDriver, Measuring
  <1>4. ASSUME NEW s \in Sensors, Select(s) PROVE OrderInv'
    BY <1>2, <1>3, <1>4 DEF Select, DriverGoes, Measuring, EmptyAtRest
  <1>5. CASE EnableResets
    <2>1. pc' = "resume" /\ pc = "reset" /\ sb' = [sb EXCEPT ![active] = Empty] /\ UNCHANGED <<active, adc>>
      BY <1>5 DEF EnableResets, DriverGoes
    <2>2. sb'[active'].items = <<>>
      BY <1>1, <2>1 DEF Empty
    <2> QED BY <1>2, <1>3, <2>1, <2>2 DEF Measuring, EmptyAtRest
  <1>6. CASE EnableResumes
    BY <1>6, FrameKeepsOrder DEF EnableResumes, DriverGoes, observed, Measuring
  <1>7. CASE EnableCalls
    <2>1. adc'.on = adc.on
      BY <1>1, <1>7 DEF EnableCalls, TypeOK
    <2> QED BY <1>7, <2>1, FrameKeepsOrder DEF EnableCalls, DriverGoes, observed, Measuring
  <1>8. CASE Start
    BY <1>8, StartKeepsOrder
  <1>9. CASE StopClears
    <2>1. adc'.on = adc.on
      BY <1>1, <1>9 DEF StopClears, TypeOK
    <2> QED BY <1>9, <2>1, FrameKeepsOrder DEF StopClears, DriverGoes, observed, Measuring
  <1>10. CASE StopClock
    <2>1. ~adc'.on
      BY <1>1, <1>10 DEF StopClock, TypeOK
    <2> QED BY <1>10, <2>1, FrameKeepsOrder DEF StopClock, DriverGoes, observed, Measuring
  <1>11. CASE StopDisables
    BY <1>11, FrameKeepsOrder DEF StopDisables, DriverGoes, observed, Measuring
  <1>12. CASE WarmUpEnds
    BY <1>12, FrameKeepsOrder DEF WarmUpEnds, DriverGoes, observed, Measuring
  <1> QED BY <1>4, <1>5, <1>6, <1>7, <1>8, <1>9, <1>10, <1>11, <1>12 DEF DriverStep

LEMMA StepKeepsOrder == AcquisitionInv /\ OrderInv /\ [Next]_vars => OrderInv'
  <1> SUFFICES ASSUME AcquisitionInv, OrderInv, [Next]_vars PROVE OrderInv'
    OBVIOUS
  <1>1. CASE Convert \/ DacFirstInterrupt
    <2>1. adc'.on = adc.on
      BY <1>1, InvParts DEF Convert, DacFirstInterrupt, TypeOK
    <2> QED BY <1>1, <2>1, FrameKeepsOrder DEF Convert, DacFirstInterrupt, observed
  <1>2. CASE AdcInterrupt
    BY <1>2, InterruptKeepsOrder
  <1>3. CASE InputStep
    BY <1>3, InputKeepsOrder DEF InputStep
  <1>4. CASE FileReading
    BY <1>4, FilingKeepsOrder
  <1>5. CASE DriverStep
    BY <1>5, DriverKeepsOrder
  <1>6. CASE UNCHANGED vars
    BY <1>6, FrameKeepsOrder DEF vars, observed
  <1> QED BY <1>1, <1>2, <1>3, <1>4, <1>5, <1>6 DEF Next

-----------------------------------------------------------------------------
LEMMA OrderInvariant == Spec => []OrderInv
  <1> QED BY AcquisitionInvariant, InitIsOrdered, StepKeepsOrder, PTL DEF Spec

\* The detector's tickCounter is where the start left it, moved by the stored
\* samples it has processed, also when readings are dropped, and at any lengths.
THEOREM DetectorKeepsStep == Spec => []TickFollowsSamples
  <1>1. OrderInv => TickFollowsSamples
    BY OrderParts
  <1> QED BY <1>1, OrderInvariant, PTL

\* The readings that MeasurementsTask files are made of whole runs of samples
\* that follow each other, except behind one that a full queue dropped.
THEOREM ReadingsFollowEachOther == Spec => ReadingsAreContiguous
  <1>1. AcquisitionInv /\ OrderInv /\ [Next]_vars =>
          [FileReading /\ Head(queue).real =>
             /\ Head(queue).whole
             /\ Head(queue).gap \/ Head(queue).first = Next1(lastFiled)]_vars
    <2> SUFFICES ASSUME AcquisitionInv, OrderInv, FileReading, Head(queue).real
                 PROVE  /\ Head(queue).whole
                        /\ Head(queue).gap \/ Head(queue).first = Next1(lastFiled)
      OBVIOUS
    <2>1. queue \in Seq(Readings) /\ queue # <<>>
      BY InvParts DEF FileReading, TypeOK
    <2>2. 1 \in 1 .. Len(queue) /\ Head(queue) = queue[1]
      BY <2>1, EmptySeq, HeadTailProperties
    <2>3. pc \in Measuring
      BY <2>2, InvParts DEF QueueIsActives
    <2> QED BY <2>2, <2>3, OrderParts DEF QueueIsChain, Before
  <1> QED BY <1>1, AcquisitionInvariant, OrderInvariant, PTL DEF Spec, ReadingsAreContiguous
=============================================================================
