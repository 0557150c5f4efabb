------------------------------ MODULE StreamBuffer ------------------------------
(***************************************************************************)
(* The repository's modified stream_buffer.c between an interrupt that     *)
(* sends and a task that receives, with the task notification the two use  *)
(* (tasks.c). The interrupt is one step; it comes between any two steps of *)
(* the task, also between two bytes of its copy.                           *)
(*                                                                         *)
(* Another task, of lower priority, suspends the receiver, resets the      *)
(* buffer and resumes the receiver (SensorController's Disable, Enable);   *)
(* it runs only while the receiver is blocked or suspended. The reset is   *)
(* one of the modifications: FreeRTOS refuses it while a task waits.       *)
(***************************************************************************)
EXTENDS Integers, Sequences

CONSTANTS
  Bytes,     \* what a byte can be
  Length,    \* xLength: the size asked for, and one byte never used
  ItemBytes, \* bytes of a message
  Trigger,   \* xTriggerLevelBytes
  Most       \* xBufferLengthBytes of the receiver

ASSUME StreamBufferAssumption ==
  /\ Length \in Nat /\ ItemBytes \in Nat \ {0}
  /\ Trigger \in Nat /\ Most \in Nat
  /\ 1 <= Trigger /\ Trigger <= Most /\ Trigger < Length

VARIABLES
  mem,       \* pucBuffer
  head,      \* xHead
  tail,      \* xTail
  waiting,   \* xTaskWaitingToReceive is set
  notified,  \* a notification of the receiver is pending
  suspended, \* the receiver is suspended
  at,        \* where the receiver is in xStreamBufferReceive
  rx,        \* bytes copied so far by the current receive
  count,     \* bytes it will copy
  received   \* what the last receive that got something returned

ring == <<mem, head, tail>>
receiver == <<at, rx, count, received>>
vars == <<ring, waiting, notified, suspended, receiver>>

Places == 0 .. Length - 1

TypeOK ==
  /\ mem \in [Places -> Bytes] /\ head \in Places /\ tail \in Places
  /\ waiting \in BOOLEAN /\ notified \in BOOLEAN /\ suspended \in BOOLEAN
  /\ at \in {"enter", "notify", "blocked", "woken", "recheck", "copy"}
  /\ rx \in Seq(Bytes) /\ count \in 0 .. Most
  /\ received \in Seq(Bytes)

-----------------------------------------------------------------------------
\* The indices.

\* Mutant: the comparison leaves the index that is just past the end.
WrapLate(i) == IF i > Length THEN i - Length ELSE i

Wrap(i) == IF i >= Length THEN i - Length ELSE i

BytesInBuffer == Wrap(Length + head - tail)

\* Mutant: the byte that keeps full and empty apart is used.
WholeLength == Length - BytesInBuffer

SpacesAvailable == Wrap(Length + tail - head - 1)

\* What the receiver will get, in order.
Contents == [i \in 1 .. BytesInBuffer |-> mem[Wrap(tail + i - 1)]]

\* The assertion of prvInitialiseNewStreamBuffer fills the memory.
Filled == {[p \in Places |-> b] : b \in Bytes}

Init ==
  /\ mem \in Filled /\ head = 0 /\ tail = 0
  /\ waiting = FALSE /\ notified = FALSE
  /\ suspended \in BOOLEAN
  /\ at = "enter" /\ rx = <<>> /\ count = 0 /\ received = <<>>

-----------------------------------------------------------------------------
\* The interrupt: xStreamBufferSendFromISR.

\* prvWriteMessageToBuffer: the bytes of a message that there is room for.
Fitting(data) ==
  SubSeq(data, 1, IF Len(data) <= SpacesAvailable THEN Len(data) ELSE SpacesAvailable)

\* prvWriteBytesToBuffer
WriteBytes(data) ==
  /\ mem' = [p \in Places |->
               LET i == Wrap(Length + p - head)
               IN  IF i < Len(data) THEN data[i + 1] ELSE mem[p]]
  /\ head' = Wrap(head + Len(data))

\* xTaskNotifyFromISR: only a receiver that waits for it becomes ready.
Notify ==
  /\ notified' = TRUE
  /\ at' = IF at = "blocked" /\ ~suspended THEN "woken" ELSE at

\* Mutant: the receiver is notified when the buffer is full.
CompleteWhenFull(held) ==
  IF waiting /\ held = Length - 1
  THEN Notify /\ waiting' = FALSE
  ELSE UNCHANGED <<notified, at, waiting>>

\* sbSEND_COMPLETE_FROM_ISR at the trigger level.
Complete(held) ==
  IF waiting /\ held >= Trigger
  THEN Notify /\ waiting' = FALSE
  ELSE UNCHANGED <<notified, at, waiting>>

Send(data) ==
  /\ SpacesAvailable > 0
  /\ WriteBytes(Fitting(data))
  /\ Complete(BytesInBuffer + Len(Fitting(data)))
  /\ UNCHANGED <<tail, suspended, rx, count, received>>

-----------------------------------------------------------------------------
\* The receiver: xStreamBufferReceive.

Runs(place) == ~suspended /\ at = place

\* Looks for bytes and, in the same critical section, announces itself.
LookOrWait(otherwise) ==
  IF BytesInBuffer >= Trigger
  THEN /\ at' = "copy" /\ rx' = <<>>
       /\ count' = IF BytesInBuffer <= Most THEN BytesInBuffer ELSE Most
  ELSE /\ at' = otherwise /\ UNCHANGED <<rx, count>>

Enter ==
  /\ Runs("enter")
  /\ LookOrWait("notify")
  /\ IF BytesInBuffer < Trigger
     THEN waiting' = TRUE /\ notified' = FALSE
     ELSE UNCHANGED <<waiting, notified>>
  /\ UNCHANGED <<ring, suspended, received>>

\* xTaskNotifyWait returns at once when the notification has come already.
NotifyWait ==
  /\ Runs("notify")
  /\ at' = IF notified THEN "woken" ELSE "blocked"
  /\ UNCHANGED <<ring, waiting, notified, suspended, rx, count, received>>

\* Out of xTaskNotifyWait; nobody waits any more.
Woken ==
  /\ Runs("woken")
  /\ at' = "recheck" /\ notified' = FALSE /\ waiting' = FALSE
  /\ UNCHANGED <<ring, suspended, rx, count, received>>

\* Looks again. Woken by a resume it may find too little, and returns 0.
Recheck ==
  /\ Runs("recheck")
  /\ LookOrWait("enter")
  /\ UNCHANGED <<ring, waiting, notified, suspended, received>>

\* prvReadBytesFromBuffer, byte by byte ...
CopyByte ==
  /\ Runs("copy") /\ Len(rx) < count
  /\ rx' = Append(rx, mem[Wrap(tail + Len(rx))])
  /\ UNCHANGED <<ring, waiting, notified, suspended, at, count, received>>

\* ... and the tail moves when all are copied.
Consume ==
  /\ Runs("copy") /\ Len(rx) = count
  /\ tail' = Wrap(tail + count)
  /\ received' = rx /\ at' = "enter" /\ rx' = <<>> /\ count' = 0
  /\ UNCHANGED <<mem, head, waiting, notified, suspended>>

-----------------------------------------------------------------------------
\* The task that disables and enables a sensor.

\* vTaskSuspend ends the wait for a notification.
Suspend ==
  /\ Runs("blocked")
  /\ suspended' = TRUE
  /\ UNCHANGED <<ring, waiting, notified, receiver>>

\* xStreamBufferReset, modified: also with a task that waits, which it forgets.
Reset ==
  /\ suspended
  /\ mem' \in Filled /\ head' = 0 /\ tail' = 0 /\ waiting' = FALSE
  /\ UNCHANGED <<notified, suspended, receiver>>

\* Mutant: a resumed task goes on waiting for its notification.
ResumeWaits ==
  /\ suspended /\ suspended' = FALSE
  /\ UNCHANGED <<ring, waiting, notified, receiver>>

\* vTaskResume makes the task ready, also out of the wait it was suspended in.
Resume ==
  /\ suspended /\ suspended' = FALSE
  /\ at' = IF at = "blocked" THEN "woken" ELSE at
  /\ UNCHANGED <<ring, waiting, notified, rx, count, received>>

-----------------------------------------------------------------------------
Messages == [1 .. ItemBytes -> Bytes]

ReceiverStep == Enter \/ NotifyWait \/ Woken \/ Recheck \/ CopyByte \/ Consume

Next == (\E data \in Messages : Send(data)) \/ ReceiverStep \/ Suspend \/ Reset \/ Resume

Spec == Init /\ [][Next]_vars

\* The ready task of highest priority is the receiver.
FairSpec == Spec /\ WF_vars(ReceiverStep)

-----------------------------------------------------------------------------
\* A receiver sleeps only while there is less than the trigger level, and then
\* the sender knows that it sleeps: an interrupt between the look and the wait,
\* a reset that forgets the waiting task, a notification that comes while the
\* task is suspended, none leaves it asleep on data.
NoLostWakeup ==
  Runs("blocked") => waiting /\ BytesInBuffer < Trigger

\* Bytes in the trigger's number are received, unless the task is suspended.
DataIsReceived ==
  (BytesInBuffer >= Trigger /\ ~suspended) ~> (at = "copy" \/ suspended)

\* The ring with its two indices, the bytes copied while interrupts write and
\* the tail moved last are a queue of bytes: nothing received twice, lost after
\* it was accepted, or overwritten before it was read.
Fifo == INSTANCE ByteFifo WITH Size <- Length - 1, items <- Contents

IsFifo == Fifo!Spec
=============================================================================
