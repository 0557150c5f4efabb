--------------------------- MODULE StreamBufferProofs ---------------------------
(***************************************************************************)
(* That the ring is a queue of bytes, and wakes its receiver, for any      *)
(* length, message, trigger level and receiver's array.                    *)
(***************************************************************************)
EXTENDS StreamBuffer, SequenceTheorems, TLAPS

\* A receiver about to wait, and not told otherwise, is known to the sender.
WaitIsAnnounced ==
  at = "notify" /\ ~notified => waiting /\ BytesInBuffer < Trigger

\* A receiver is suspended before it ever ran, or in its wait.
SuspendedAtRest == suspended => at \in {"enter", "blocked"}

\* What has been copied is the beginning of what the ring holds.
CopyIsPrefix ==
  at = "copy" =>
    /\ Trigger <= count /\ count <= BytesInBuffer
    /\ Len(rx) <= count
    /\ \A i \in 1 .. Len(rx) : rx[i] = mem[Wrap(tail + i - 1)]

StreamInv ==
  TypeOK /\ NoLostWakeup /\ WaitIsAnnounced /\ SuspendedAtRest /\ CopyIsPrefix

-----------------------------------------------------------------------------
\* The indices.

LEMMA RingBounds ==
  ASSUME head \in Places, tail \in Places
  PROVE  /\ BytesInBuffer \in 0 .. Length - 1
         /\ SpacesAvailable = Length - 1 - BytesInBuffer
         /\ \A i \in 0 .. Length - 1 : Wrap(tail + i) \in Places
  BY StreamBufferAssumption DEF Places, BytesInBuffer, SpacesAvailable, Wrap

\* As many bytes of a message as fit, in their order.
LEMMA FittingProperties ==
  ASSUME head \in Places, tail \in Places, NEW data \in Messages
  PROVE  /\ data \in Seq(Bytes) /\ Len(data) = ItemBytes
         /\ Fitting(data) \in Seq(Bytes)
         /\ Len(Fitting(data)) \in 0 .. SpacesAvailable
         /\ \A i \in 1 .. Len(Fitting(data)) : Fitting(data)[i] \in Bytes
  <1> DEFINE n == IF Len(data) <= SpacesAvailable THEN Len(data) ELSE SpacesAvailable
  <1>1. data \in Seq(Bytes) /\ Len(data) = ItemBytes
    BY StreamBufferAssumption, SeqDef DEF Messages
  <1>2. SpacesAvailable \in Nat
    BY RingBounds, StreamBufferAssumption
  <1>3. n \in Int /\ 0 <= n /\ n <= SpacesAvailable /\ n <= Len(data)
    BY <1>1, <1>2, StreamBufferAssumption
  <1>4. \A i \in 1 .. n : data[i] \in Bytes
    BY <1>1, <1>3, ElementOfSeq, StreamBufferAssumption
  <1> HIDE DEF n
  <1>5. /\ SubSeq(data, 1, n) \in Seq(Bytes)
        /\ Len(SubSeq(data, 1, n)) = IF 1 <= n THEN n - 1 + 1 ELSE 0
    BY <1>3, <1>4, SubSeqProperties
  <1>6. Fitting(data) = SubSeq(data, 1, n)
    BY DEF Fitting, n
  <1>7. Len(Fitting(data)) \in 0 .. SpacesAvailable
    BY <1>2, <1>3, <1>5, <1>6
  <1> QED BY <1>1, <1>5, <1>6, <1>7, ElementOfSeq

\* A write lengthens what the ring holds by the bytes that fit, and leaves the
\* bytes that were there alone.
LEMMA WriteAppends ==
  ASSUME TypeOK, NEW d \in Seq(Bytes), Len(d) <= SpacesAvailable,
         WriteBytes(d), tail' = tail
  PROVE  /\ mem' \in [Places -> Bytes] /\ head' \in Places
         /\ BytesInBuffer' = BytesInBuffer + Len(d)
         /\ \A i \in 1 .. BytesInBuffer :
              mem'[Wrap(tail + i - 1)] = mem[Wrap(tail + i - 1)]
         /\ \A i \in 1 .. Len(d) :
              mem'[Wrap(tail + BytesInBuffer + i - 1)] = d[i]
  <1>1. Len(d) \in Nat /\ \A i \in 1 .. Len(d) : d[i] \in Bytes
    BY ElementOfSeq, LenProperties
  <1>2. head \in Places /\ tail \in Places /\ mem \in [Places -> Bytes]
    BY DEF TypeOK
  <1>3. mem' \in [Places -> Bytes]
    <2> SUFFICES ASSUME NEW p \in Places,
                        Wrap(Length + p - head) < Len(d)
                 PROVE  d[Wrap(Length + p - head) + 1] \in Bytes
      BY <1>2 DEF WriteBytes
    <2>1. Wrap(Length + p - head) \in Nat
      BY <1>2, StreamBufferAssumption DEF Places, Wrap
    <2> QED BY <1>1, <2>1
  <1>4. head' \in Places /\ BytesInBuffer' = BytesInBuffer + Len(d)
    BY <1>1, <1>2, RingBounds, StreamBufferAssumption
    DEF WriteBytes, BytesInBuffer, SpacesAvailable, Wrap, Places
  <1>5. ASSUME NEW i \in 1 .. BytesInBuffer
        PROVE  mem'[Wrap(tail + i - 1)] = mem[Wrap(tail + i - 1)]
    <2> DEFINE p == Wrap(tail + i - 1)
    <2>1. p \in Places /\ ~(Wrap(Length + p - head) < Len(d))
      BY <1>1, <1>2, RingBounds, StreamBufferAssumption
      DEF BytesInBuffer, SpacesAvailable, Wrap, Places
    <2> HIDE DEF p
    <2>2. mem'[p] = mem[p]
      BY <2>1 DEF WriteBytes
    <2> QED BY <2>2 DEF p
  <1>6. ASSUME NEW i \in 1 .. Len(d)
        PROVE  mem'[Wrap(tail + BytesInBuffer + i - 1)] = d[i]
    <2> DEFINE p == Wrap(tail + BytesInBuffer + i - 1)
    <2>1. p \in Places /\ Wrap(Length + p - head) = i - 1
      BY <1>1, <1>2, RingBounds, StreamBufferAssumption
      DEF BytesInBuffer, SpacesAvailable, Wrap, Places
    <2> HIDE DEF p
    <2>2. mem'[p] = d[i - 1 + 1]
      BY <1>1, <2>1 DEF WriteBytes
    <2> QED BY <1>1, <2>2 DEF p
  <1> QED BY <1>3, <1>4, <1>5, <1>6

\* What the ring holds, as a sequence.
ContentsAreBytes ==
  /\ Contents \in Seq(Bytes) /\ Len(Contents) = BytesInBuffer
  /\ \A i \in 1 .. BytesInBuffer : Contents[i] = mem[Wrap(tail + i - 1)]

LEMMA ContentsProperties == TypeOK => ContentsAreBytes
  <1> SUFFICES ASSUME TypeOK PROVE ContentsAreBytes
    OBVIOUS
  <1>1. BytesInBuffer \in Nat
    BY RingBounds, StreamBufferAssumption DEF TypeOK
  <1>2. \A i \in 1 .. BytesInBuffer : Wrap(tail + i - 1) \in Places
    BY RingBounds, StreamBufferAssumption DEF TypeOK, Wrap, Places
  <1>3. Contents \in [1 .. BytesInBuffer -> Bytes]
    BY <1>2 DEF Contents, TypeOK
  <1>4. Contents \in Seq(Bytes) /\ Len(Contents) = BytesInBuffer
    BY <1>1, <1>3, SeqDef, LenProperties
  <1> QED BY <1>4 DEF Contents, ContentsAreBytes

LEMMA ContentsPropertiesNext == TypeOK' => ContentsAreBytes'
  BY ContentsProperties, PTL

-----------------------------------------------------------------------------
\* The invariant.

LEMMA InitEstablishes == Init => StreamInv
  <1> SUFFICES ASSUME Init PROVE StreamInv
    OBVIOUS
  <1>1. TypeOK
    BY StreamBufferAssumption DEF Init, TypeOK, Places, Filled
  <1> QED BY <1>1
    DEF Init, StreamInv, NoLostWakeup, Runs, WaitIsAnnounced, SuspendedAtRest,
        CopyIsPrefix

LEMMA SendPreserves ==
  ASSUME StreamInv, NEW data \in Messages, Send(data)
  PROVE  StreamInv'
  <1> DEFINE d == Fitting(data)
  <1>1. TypeOK /\ NoLostWakeup /\ WaitIsAnnounced /\ SuspendedAtRest /\ CopyIsPrefix
    BY DEF StreamInv
  <1>2. d \in Seq(Bytes) /\ Len(d) \in 0 .. SpacesAvailable
    BY <1>1, FittingProperties DEF TypeOK
  <1> HIDE DEF d
  <1>3. /\ WriteBytes(d) /\ Complete(BytesInBuffer + Len(d)) /\ tail' = tail
        /\ UNCHANGED <<suspended, rx, count, received>>
    BY DEF Send, d
  <1>4. BytesInBuffer \in Nat /\ SpacesAvailable \in Nat /\ Len(d) \in Nat
    BY <1>1, <1>2, RingBounds, StreamBufferAssumption DEF TypeOK
  <1>5. /\ mem' \in [Places -> Bytes] /\ head' \in Places
        /\ BytesInBuffer' = BytesInBuffer + Len(d)
        /\ \A i \in 1 .. BytesInBuffer :
             mem'[Wrap(tail + i - 1)] = mem[Wrap(tail + i - 1)]
    BY <1>1, <1>2, <1>3, <1>4, WriteAppends
  <1>6. CASE waiting /\ BytesInBuffer + Len(d) >= Trigger
    <2>1. /\ notified' = TRUE /\ waiting' = FALSE
          /\ at' = IF at = "blocked" /\ ~suspended THEN "woken" ELSE at
      BY <1>3, <1>6 DEF Complete, Notify
    <2>2. TypeOK'
      BY <1>1, <1>3, <1>5, <2>1 DEF TypeOK
    <2>3. NoLostWakeup' /\ WaitIsAnnounced' /\ SuspendedAtRest'
      BY <1>1, <1>3, <2>1
      DEF NoLostWakeup, Runs, WaitIsAnnounced, SuspendedAtRest
    <2>4. CopyIsPrefix'
      <3> SUFFICES ASSUME at' = "copy"
                   PROVE  /\ Trigger <= count /\ count <= BytesInBuffer'
                          /\ Len(rx) <= count
                          /\ \A i \in 1 .. Len(rx) :
                               rx[i] = mem'[Wrap(tail + i - 1)]
        BY <1>3 DEF CopyIsPrefix
      <3>1. at = "copy"
        BY <2>1
      <3> QED BY <3>1, <1>1, <1>4, <1>5, LenProperties, StreamBufferAssumption
        DEF CopyIsPrefix, TypeOK
    <2> QED BY <2>2, <2>3, <2>4 DEF StreamInv
  <1>7. CASE ~(waiting /\ BytesInBuffer + Len(d) >= Trigger)
    <2>1. UNCHANGED <<notified, at, waiting>>
      BY <1>3, <1>7 DEF Complete
    <2>2. TypeOK'
      BY <1>1, <1>3, <1>5, <2>1 DEF TypeOK
    <2>3. NoLostWakeup' /\ WaitIsAnnounced' /\ SuspendedAtRest'
      BY <1>1, <1>3, <1>4, <1>5, <1>7, <2>1, StreamBufferAssumption
      DEF NoLostWakeup, Runs, WaitIsAnnounced, SuspendedAtRest
    <2>4. CopyIsPrefix'
      <3> SUFFICES ASSUME at = "copy"
                   PROVE  /\ Trigger <= count /\ count <= BytesInBuffer'
                          /\ Len(rx) <= count
                          /\ \A i \in 1 .. Len(rx) :
                               rx[i] = mem'[Wrap(tail + i - 1)]
        BY <1>3, <2>1 DEF CopyIsPrefix
      <3> QED BY <1>1, <1>4, <1>5, LenProperties, StreamBufferAssumption
        DEF CopyIsPrefix, TypeOK
    <2> QED BY <2>2, <2>3, <2>4 DEF StreamInv
  <1> QED BY <1>6, <1>7

\* Steps that leave the ring alone also leave what it holds alone.
LEMMA RingUnchanged ==
  ASSUME UNCHANGED ring
  PROVE  /\ mem' = mem /\ head' = head /\ tail' = tail
         /\ BytesInBuffer' = BytesInBuffer
         /\ Contents' = Contents
  BY DEF ring, BytesInBuffer, Contents

LEMMA ReceiverPreserves ==
  ASSUME StreamInv, ReceiverStep
  PROVE  StreamInv'
  <1>1. TypeOK /\ NoLostWakeup /\ WaitIsAnnounced /\ SuspendedAtRest /\ CopyIsPrefix
    BY DEF StreamInv
  <1>2. BytesInBuffer \in 0 .. Length - 1
    BY <1>1, RingBounds DEF TypeOK
  <1>3. <<>> \in Seq(Bytes) /\ Len(<<>>) = 0
    BY EmptySeq
  <1>4. CASE Enter
    <2>1. UNCHANGED ring /\ UNCHANGED <<suspended, received>> /\ at = "enter" /\ ~suspended
      BY <1>4 DEF Enter, Runs
    <2>2. CASE BytesInBuffer >= Trigger
      <3>1. /\ at' = "copy" /\ rx' = <<>> /\ UNCHANGED <<waiting, notified>>
            /\ count' = IF BytesInBuffer <= Most THEN BytesInBuffer ELSE Most
        BY <1>4, <2>2, <1>2, StreamBufferAssumption DEF Enter, LookOrWait
      <3>2. count' \in 0 .. Most /\ Trigger <= count' /\ count' <= BytesInBuffer
        BY <1>2, <2>2, <3>1, StreamBufferAssumption
      <3>3. TypeOK'
        BY <1>1, <1>3, <2>1, <3>1, <3>2, RingUnchanged DEF TypeOK
      <3>4. CopyIsPrefix'
        <4>1. Len(rx') = 0 /\ BytesInBuffer' = BytesInBuffer
          BY <1>3, <2>1, <3>1, RingUnchanged
        <4> QED BY <3>2, <4>1, StreamBufferAssumption DEF CopyIsPrefix
      <3> QED BY <2>1, <3>1, <3>3, <3>4
        DEF StreamInv, NoLostWakeup, Runs, WaitIsAnnounced, SuspendedAtRest
    <2>3. CASE ~(BytesInBuffer >= Trigger)
      <3>1. /\ at' = "notify" /\ waiting' = TRUE /\ notified' = FALSE
            /\ UNCHANGED <<rx, count>>
        BY <1>4, <2>3, <1>2, StreamBufferAssumption DEF Enter, LookOrWait
      <3>2. TypeOK'
        BY <1>1, <2>1, <3>1, RingUnchanged DEF TypeOK
      <3>3. BytesInBuffer' < Trigger
        BY <1>2, <2>1, <2>3, RingUnchanged, StreamBufferAssumption
      <3> QED BY <2>1, <3>1, <3>2, <3>3
        DEF StreamInv, NoLostWakeup, Runs, WaitIsAnnounced, SuspendedAtRest, CopyIsPrefix
    <2> QED BY <2>2, <2>3
  <1>5. CASE NotifyWait
    <2>1. /\ UNCHANGED ring /\ at = "notify" /\ ~suspended
          /\ UNCHANGED <<waiting, notified, suspended, rx, count, received>>
          /\ at' = IF notified THEN "woken" ELSE "blocked"
      BY <1>5 DEF NotifyWait, Runs
    <2>2. TypeOK'
      BY <1>1, <2>1, RingUnchanged DEF TypeOK
    <2>3. NoLostWakeup'
      BY <1>1, <2>1, RingUnchanged DEF NoLostWakeup, Runs, WaitIsAnnounced
    <2> QED BY <2>1, <2>2, <2>3
      DEF StreamInv, WaitIsAnnounced, SuspendedAtRest, CopyIsPrefix
  <1>6. CASE Woken
    <2>1. /\ UNCHANGED ring /\ at' = "recheck" /\ notified' = FALSE /\ waiting' = FALSE
          /\ ~suspended /\ UNCHANGED <<suspended, rx, count, received>>
      BY <1>6 DEF Woken, Runs
    <2>2. TypeOK'
      BY <1>1, <2>1, RingUnchanged DEF TypeOK
    <2> QED BY <2>1, <2>2
      DEF StreamInv, NoLostWakeup, Runs, WaitIsAnnounced, SuspendedAtRest, CopyIsPrefix
  <1>7. CASE Recheck
    <2>1. /\ UNCHANGED ring /\ ~suspended
          /\ UNCHANGED <<waiting, notified, suspended, received>>
      BY <1>7 DEF Recheck, Runs
    <2>2. CASE BytesInBuffer >= Trigger
      <3>1. /\ at' = "copy" /\ rx' = <<>>
            /\ count' = IF BytesInBuffer <= Most THEN BytesInBuffer ELSE Most
        BY <1>7, <2>2, <1>2, StreamBufferAssumption DEF Recheck, LookOrWait
      <3>2. count' \in 0 .. Most /\ Trigger <= count' /\ count' <= BytesInBuffer
        BY <1>2, <2>2, <3>1, StreamBufferAssumption
      <3>3. TypeOK'
        BY <1>1, <1>3, <2>1, <3>1, <3>2, RingUnchanged DEF TypeOK
      <3>4. CopyIsPrefix'
        <4>1. Len(rx') = 0 /\ BytesInBuffer' = BytesInBuffer
          BY <1>3, <2>1, <3>1, RingUnchanged
        <4> QED BY <3>2, <4>1, StreamBufferAssumption DEF CopyIsPrefix
      <3> QED BY <2>1, <3>1, <3>3, <3>4
        DEF StreamInv, NoLostWakeup, Runs, WaitIsAnnounced, SuspendedAtRest
    <2>3. CASE ~(BytesInBuffer >= Trigger)
      <3>1. at' = "enter" /\ UNCHANGED <<rx, count>>
        BY <1>7, <2>3, <1>2, StreamBufferAssumption DEF Recheck, LookOrWait
      <3>2. TypeOK'
        BY <1>1, <2>1, <3>1, RingUnchanged DEF TypeOK
      <3> QED BY <2>1, <3>1, <3>2
        DEF StreamInv, NoLostWakeup, Runs, WaitIsAnnounced, SuspendedAtRest, CopyIsPrefix
    <2> QED BY <2>2, <2>3
  <1>8. CASE CopyByte
    <2> DEFINE b == mem[Wrap(tail + Len(rx))]
    <2>1. /\ UNCHANGED ring /\ at = "copy" /\ ~suspended /\ Len(rx) < count
          /\ rx' = Append(rx, b)
          /\ UNCHANGED <<waiting, notified, suspended, at, count, received>>
      BY <1>8 DEF CopyByte, Runs
    <2>2. Len(rx) \in Nat /\ Len(rx) < BytesInBuffer /\ count \in Nat
      BY <1>1, <1>2, <2>1, LenProperties, StreamBufferAssumption DEF CopyIsPrefix, TypeOK
    <2>3. b \in Bytes
      <3>1. Wrap(tail + Len(rx)) \in Places
        BY <1>1, <1>2, <2>2, RingBounds, StreamBufferAssumption DEF TypeOK
      <3> QED BY <1>1, <3>1 DEF TypeOK
    <2>4. /\ rx' \in Seq(Bytes) /\ Len(rx') = Len(rx) + 1
          /\ \A i \in 1 .. Len(rx) : rx'[i] = rx[i]
          /\ rx'[Len(rx) + 1] = b
      <3> HIDE DEF b
      <3> QED BY <1>1, <2>1, <2>3, AppendProperties DEF TypeOK
    <2>5. TypeOK'
      BY <1>1, <2>1, <2>4, RingUnchanged DEF TypeOK
    <2>6. CopyIsPrefix'
      <3>1. ASSUME NEW i \in 1 .. Len(rx')
            PROVE  rx'[i] = mem[Wrap(tail + i - 1)]
        <4>1. CASE i \in 1 .. Len(rx)
          BY <1>1, <2>1, <2>4, <4>1 DEF CopyIsPrefix
        <4>2. CASE i = Len(rx) + 1
          <5>1. tail + i - 1 = tail + Len(rx)
            BY <1>1, <2>2, <4>2, StreamBufferAssumption DEF TypeOK, Places
          <5> QED BY <2>4, <4>2, <5>1
        <4> QED BY <2>2, <2>4, <4>1, <4>2
      <3>2. Trigger <= count /\ count <= BytesInBuffer' /\ Len(rx') <= count
        BY <1>1, <2>1, <2>2, <2>4, RingUnchanged, StreamBufferAssumption DEF CopyIsPrefix
      <3>3. mem' = mem /\ tail' = tail /\ count' = count
        BY <2>1, RingUnchanged
      <3> QED BY <3>1, <3>2, <3>3 DEF CopyIsPrefix
    <2> QED BY <1>1, <2>1, <2>5, <2>6, RingUnchanged
      DEF StreamInv, NoLostWakeup, Runs, WaitIsAnnounced, SuspendedAtRest
  <1>9. CASE Consume
    <2>1. /\ at = "copy" /\ ~suspended /\ tail' = Wrap(tail + count)
          /\ received' = rx /\ at' = "enter" /\ rx' = <<>> /\ count' = 0
          /\ UNCHANGED <<mem, head, waiting, notified, suspended>>
      BY <1>9 DEF Consume, Runs
    <2>2. tail' \in Places
      BY <1>1, <1>2, <2>1, RingBounds, StreamBufferAssumption DEF TypeOK, CopyIsPrefix
    <2>3. TypeOK'
      BY <1>1, <1>3, <2>1, <2>2, StreamBufferAssumption DEF TypeOK
    <2> QED BY <2>1, <2>3
      DEF StreamInv, NoLostWakeup, Runs, WaitIsAnnounced, SuspendedAtRest, CopyIsPrefix
  <1> QED BY <1>4, <1>5, <1>6, <1>7, <1>8, <1>9 DEF ReceiverStep

LEMMA NextPreserves == StreamInv /\ [Next]_vars => StreamInv'
  <1> SUFFICES ASSUME StreamInv, [Next]_vars PROVE StreamInv'
    OBVIOUS
  <1>1. TypeOK /\ NoLostWakeup /\ WaitIsAnnounced /\ SuspendedAtRest /\ CopyIsPrefix
    BY DEF StreamInv
  <1>2. ASSUME NEW data \in Messages, Send(data) PROVE StreamInv'
    BY <1>2, SendPreserves
  <1>3. CASE ReceiverStep
    BY <1>3, ReceiverPreserves
  <1>4. CASE Suspend
    <2>1. /\ UNCHANGED ring /\ at = "blocked" /\ suspended' = TRUE
          /\ UNCHANGED <<waiting, notified, at, rx, count, received>>
      BY <1>4 DEF Suspend, Runs, receiver
    <2>2. TypeOK'
      BY <1>1, <2>1, RingUnchanged DEF TypeOK
    <2> QED BY <2>1, <2>2
      DEF StreamInv, NoLostWakeup, Runs, WaitIsAnnounced, SuspendedAtRest, CopyIsPrefix
  <1>5. CASE Reset
    <2>1. /\ suspended /\ head' = 0 /\ tail' = 0 /\ waiting' = FALSE
          /\ mem' \in [Places -> Bytes]
          /\ UNCHANGED <<notified, suspended, at, rx, count, received>>
      BY <1>5 DEF Reset, receiver, Filled
    <2>2. 0 \in Places
      BY StreamBufferAssumption DEF Places
    <2>3. TypeOK'
      BY <1>1, <2>1, <2>2 DEF TypeOK
    <2> QED BY <1>1, <2>1, <2>3
      DEF StreamInv, NoLostWakeup, Runs, WaitIsAnnounced, SuspendedAtRest, CopyIsPrefix
  <1>6. CASE Resume
    <2>1. /\ UNCHANGED ring /\ suspended /\ suspended' = FALSE
          /\ at' = IF at = "blocked" THEN "woken" ELSE at
          /\ UNCHANGED <<waiting, notified, rx, count, received>>
      BY <1>6 DEF Resume
    <2>2. TypeOK'
      BY <1>1, <2>1, RingUnchanged DEF TypeOK
    <2> QED BY <1>1, <2>1, <2>2
      DEF StreamInv, NoLostWakeup, Runs, WaitIsAnnounced, SuspendedAtRest, CopyIsPrefix
  <1>7. CASE UNCHANGED vars
    <2>1. UNCHANGED ring
          /\ UNCHANGED <<waiting, notified, suspended, at, rx, count, received>>
      BY <1>7 DEF vars, receiver
    <2>2. TypeOK'
      BY <1>1, <2>1, RingUnchanged DEF TypeOK
    <2>3. mem' = mem /\ tail' = tail /\ BytesInBuffer' = BytesInBuffer
      BY <2>1, RingUnchanged
    <2> QED BY <1>1, <2>1, <2>2, <2>3
      DEF StreamInv, NoLostWakeup, Runs, WaitIsAnnounced, SuspendedAtRest, CopyIsPrefix
  <1> QED BY <1>2, <1>3, <1>4, <1>5, <1>6, <1>7 DEF Next

-----------------------------------------------------------------------------
\* The theorems.

\* The invariant holds.
THEOREM StreamInvariant == Spec => []StreamInv
  BY InitEstablishes, NextPreserves, PTL DEF Spec

\* The indices stay on the ring and the receive within its array, whatever the
\* interrupt and the resets do between its steps.
THEOREM StreamTyped == Spec => []TypeOK
  <1>1. StreamInv => TypeOK
    BY DEF StreamInv
  <1> QED BY <1>1, StreamInvariant, PTL

\* A receiver sleeps only on less than the trigger level, known to the sender.
THEOREM NoWakeupIsLost == Spec => []NoLostWakeup
  <1>1. StreamInv => NoLostWakeup
    BY DEF StreamInv
  <1> QED BY <1>1, StreamInvariant, PTL

-----------------------------------------------------------------------------
\* The ring is a queue of bytes.

LEMMA EmptyIsEmpty ==
  ASSUME NEW s \in Seq(Bytes), Len(s) = 0
  PROVE  s = <<>>
  BY EmptySeq

\* An accepted message is appended.
LEMMA SendAppends ==
  ASSUME TypeOK, TypeOK', NEW data \in Messages, Send(data)
  PROVE  Fifo!Send(data)
  <1> DEFINE d == Fitting(data)
             n == BytesInBuffer
  <1>1. data \in Seq(Bytes) /\ d \in Seq(Bytes) /\ Len(d) \in 0 .. SpacesAvailable
    BY FittingProperties DEF TypeOK
  <1>2. ContentsAreBytes /\ ContentsAreBytes'
    BY ContentsProperties, ContentsPropertiesNext
  <1>3. /\ n \in 0 .. Length - 1 /\ SpacesAvailable = Length - 1 - n
        /\ Len(d) \in Nat
    BY <1>1, RingBounds, StreamBufferAssumption DEF TypeOK
  <1>4. Fifo!Accepted(data, Len(Contents)) = d
    BY <1>2, <1>3 DEF Fifo!Accepted, Fitting, ContentsAreBytes
  <1>5. WriteBytes(d) /\ tail' = tail /\ received' = received
    BY DEF Send
  <1> HIDE DEF d
  <1>6. /\ BytesInBuffer' = n + Len(d)
        /\ \A i \in 1 .. n : mem'[Wrap(tail + i - 1)] = mem[Wrap(tail + i - 1)]
        /\ \A i \in 1 .. Len(d) : mem'[Wrap(tail + n + i - 1)] = d[i]
    BY <1>1, <1>3, <1>5, WriteAppends
  <1>7. /\ Contents \o d \in Seq(Bytes)
        /\ Len(Contents \o d) = n + Len(d)
        /\ \A i \in 1 .. n + Len(d) :
             (Contents \o d)[i] = IF i <= n THEN Contents[i] ELSE d[i - n]
    BY <1>1, <1>2, ConcatProperties DEF ContentsAreBytes
  <1> HIDE DEF n
  <1>8. Contents' \in Seq(Bytes) /\ Len(Contents') = n + Len(d)
    BY <1>2, <1>6 DEF ContentsAreBytes
  <1>9. ASSUME NEW i \in 1 .. n + Len(d)
        PROVE  Contents'[i] = (Contents \o d)[i]
    <2>1. Contents'[i] = mem'[Wrap(tail + i - 1)]
      BY <1>2, <1>5, <1>6 DEF ContentsAreBytes
    <2>2. CASE i <= n
      <3>1. i \in 1 .. n
        BY <1>3, <2>2
      <3>2. Contents[i] = mem[Wrap(tail + i - 1)]
        BY <1>2, <3>1 DEF ContentsAreBytes, n
      <3> QED BY <1>6, <1>7, <2>1, <2>2, <3>1, <3>2
    <2>3. CASE ~(i <= n)
      <3>1. i - n \in 1 .. Len(d) /\ tail + n + (i - n) - 1 = tail + i - 1
        BY <1>3, <2>3, StreamBufferAssumption DEF TypeOK, Places
      <3>2. mem'[Wrap(tail + n + (i - n) - 1)] = d[i - n]
        BY <1>6, <3>1
      <3> QED BY <1>7, <2>1, <2>3, <3>1, <3>2
    <2> QED BY <2>2, <2>3
  <1>10. Contents' = Contents \o d
    BY <1>7, <1>8, <1>9, SeqEqual
  <1> QED BY <1>4, <1>5, <1>10 DEF Fifo!Send

\* The bytes copied one by one are those the ring held when the tail moves,
\* and the tail moves past them and no further.
LEMMA ConsumeReceives ==
  ASSUME StreamInv, TypeOK', Consume
  PROVE  Fifo!Receive(count) /\ count \in Trigger .. Most
  <1> DEFINE n == BytesInBuffer
  <1>1. TypeOK /\ CopyIsPrefix
    BY DEF StreamInv
  <1>2. ContentsAreBytes /\ ContentsAreBytes'
    BY <1>1, ContentsProperties, ContentsPropertiesNext
  <1>3. /\ Len(rx) = count /\ tail' = Wrap(tail + count) /\ received' = rx
        /\ UNCHANGED <<mem, head>>
        /\ Trigger <= count /\ count <= n
        /\ \A i \in 1 .. count : rx[i] = mem[Wrap(tail + i - 1)]
    BY <1>1 DEF Consume, Runs, CopyIsPrefix
  <1>4. count \in 0 .. Most /\ rx \in Seq(Bytes) /\ head \in Places /\ tail \in Places
    BY <1>1 DEF TypeOK
  <1>5. n \in 0 .. Length - 1 /\ BytesInBuffer' = n - count
    BY <1>3, <1>4, StreamBufferAssumption
    DEF BytesInBuffer, Wrap, Places
  <1> HIDE DEF n
  <1>6. Len(Contents) = n /\ \A i \in 1 .. n : Contents[i] \in Bytes
    BY <1>2, ElementOfSeq DEF ContentsAreBytes, n
  <1>7. /\ SubSeq(Contents, 1, count) \in Seq(Bytes)
        /\ Len(SubSeq(Contents, 1, count)) = count
        /\ \A i \in 1 .. count : SubSeq(Contents, 1, count)[i] = Contents[i]
    <2>1. \A i \in 1 .. count : Contents[i] \in Bytes
      BY <1>3, <1>4, <1>5, <1>6, StreamBufferAssumption
    <2>2. /\ SubSeq(Contents, 1, count) \in Seq(Bytes)
          /\ Len(SubSeq(Contents, 1, count)) = IF 1 <= count THEN count - 1 + 1 ELSE 0
          /\ \A i \in 1 .. count - 1 + 1 : SubSeq(Contents, 1, count)[i] = Contents[1 + i - 1]
      BY <1>4, <2>1, SubSeqProperties
    <2> QED BY <1>4, <2>2
  <1>8. \A i \in 1 .. count : SubSeq(Contents, 1, count)[i] = rx[i]
    <2>1. \A i \in 1 .. count : Contents[i] = mem[Wrap(tail + i - 1)]
      BY <1>2, <1>3, <1>4, <1>5, StreamBufferAssumption DEF ContentsAreBytes, n
    <2> QED BY <1>3, <1>7, <2>1
  <1>9. received' = SubSeq(Contents, 1, count)
    BY <1>3, <1>4, <1>7, <1>8, SeqEqual
  <1>10. /\ SubSeq(Contents, count + 1, n) \in Seq(Bytes)
         /\ Len(SubSeq(Contents, count + 1, n)) = n - count
         /\ \A i \in 1 .. n - count :
              SubSeq(Contents, count + 1, n)[i] = Contents[count + i]
    <2>1. \A i \in count + 1 .. n : Contents[i] \in Bytes
      BY <1>4, <1>6, <1>5, StreamBufferAssumption
    <2>2. /\ SubSeq(Contents, count + 1, n) \in Seq(Bytes)
          /\ Len(SubSeq(Contents, count + 1, n))
               = IF count + 1 <= n THEN n - (count + 1) + 1 ELSE 0
          /\ \A i \in 1 .. n - (count + 1) + 1 :
               SubSeq(Contents, count + 1, n)[i] = Contents[count + 1 + i - 1]
      BY <1>4, <1>5, <2>1, SubSeqProperties, StreamBufferAssumption
    <2>3. \A i \in 1 .. n - count : count + 1 + i - 1 = count + i
      BY <1>4, <1>5
    <2>4. n - (count + 1) + 1 = n - count
      BY <1>4, <1>5, StreamBufferAssumption
    <2> QED BY <1>3, <1>4, <1>5, <2>2, <2>3, <2>4, StreamBufferAssumption
  <1>11. Contents' \in Seq(Bytes) /\ Len(Contents') = n - count
    BY <1>2, <1>5 DEF ContentsAreBytes
  <1>12. ASSUME NEW i \in 1 .. n - count
         PROVE  Contents'[i] = SubSeq(Contents, count + 1, n)[i]
    <2>1. Contents'[i] = mem[Wrap(Wrap(tail + count) + i - 1)]
      BY <1>2, <1>3, <1>5 DEF ContentsAreBytes
    <2>2. count + i \in 1 .. n
      BY <1>3, <1>4, <1>5, StreamBufferAssumption
    <2>3. Contents[count + i] = mem[Wrap(tail + (count + i) - 1)]
      BY <1>2, <2>2 DEF ContentsAreBytes, n
    <2>4. Wrap(Wrap(tail + count) + i - 1) = Wrap(tail + (count + i) - 1)
      BY <1>3, <1>4, <1>5, <2>2, StreamBufferAssumption DEF Wrap, Places
    <2> QED BY <1>10, <2>1, <2>3, <2>4
  <1>13. Contents' = SubSeq(Contents, count + 1, n)
    BY <1>10, <1>11, <1>12, SeqEqual
  <1>14. count \in Trigger .. Most
    BY <1>3, <1>4, StreamBufferAssumption
  <1> QED BY <1>3, <1>6, <1>9, <1>13, <1>14 DEF Fifo!Receive

LEMMA RefinementInit == Init => Fifo!Init
  <1> SUFFICES ASSUME Init PROVE Fifo!Init
    OBVIOUS
  <1>1. TypeOK
    BY InitEstablishes DEF StreamInv
  <1>2. BytesInBuffer = 0
    BY StreamBufferAssumption DEF Init, BytesInBuffer, Wrap
  <1>3. Contents = <<>>
    BY <1>1, <1>2, ContentsProperties, EmptyIsEmpty DEF ContentsAreBytes
  <1> QED BY <1>3 DEF Init, Fifo!Init

LEMMA RefinementStep ==
  StreamInv /\ StreamInv' /\ [Next]_vars => [Fifo!Next]_<<Contents, received>>
  <1> SUFFICES ASSUME StreamInv, StreamInv', [Next]_vars
               PROVE  [Fifo!Next]_<<Contents, received>>
    OBVIOUS
  <1>1. TypeOK /\ TypeOK'
    BY DEF StreamInv
  <1>2. ASSUME NEW data \in Messages, Send(data)
        PROVE  Fifo!Next
    <2>1. data \in Fifo!Messages
      BY DEF Messages, Fifo!Messages
    <2>2. Fifo!Send(data)
      BY <1>1, <1>2, SendAppends
    <2> QED BY <2>1, <2>2 DEF Fifo!Next
  <1>3. CASE Consume
    BY <1>1, <1>3, ConsumeReceives DEF Fifo!Next
  <1>4. CASE Reset
    <2>1. BytesInBuffer' = 0 /\ received' = received
      BY <1>4, StreamBufferAssumption DEF Reset, receiver, BytesInBuffer, Wrap
    <2>2. Contents' = <<>>
      BY <1>1, <2>1, ContentsPropertiesNext, EmptyIsEmpty DEF ContentsAreBytes
    <2> QED BY <2>1, <2>2 DEF Fifo!Next, Fifo!Reset
  <1>5. CASE Enter \/ NotifyWait \/ Woken \/ Recheck \/ CopyByte
    <2>1. UNCHANGED ring /\ UNCHANGED received
      BY <1>5 DEF Enter, NotifyWait, Woken, Recheck, CopyByte
    <2> QED BY <2>1, RingUnchanged
  <1>6. CASE Suspend \/ Resume \/ UNCHANGED vars
    <2>1. UNCHANGED ring /\ UNCHANGED received
      BY <1>6 DEF Suspend, Resume, vars, receiver
    <2> QED BY <2>1, RingUnchanged
  <1> QED BY <1>2, <1>3, <1>4, <1>5, <1>6 DEF Next, ReceiverStep

\* The stream buffer is a queue of bytes for every length, message size and
\* trigger level: an interrupt between two bytes of a receive, a message that
\* fits only in part and a reset under a waiting task change nothing in that.
THEOREM StreamImplementsFifo == Spec => IsFifo
  <1>1. Init => Fifo!Init
    BY RefinementInit
  <1>2. StreamInv /\ StreamInv' /\ [Next]_vars => [Fifo!Next]_<<Contents, received>>
    BY RefinementStep
  <1> QED BY <1>1, <1>2, StreamInvariant, PTL DEF Spec, IsFifo, Fifo!Spec
=============================================================================
