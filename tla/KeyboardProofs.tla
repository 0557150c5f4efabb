----------------------------- MODULE KeyboardProofs -----------------------------
(***************************************************************************)
(* That INT is never left low and unserved, and that no change of a key    *)
(* between two reads is forgotten, for any number of keys, length of the   *)
(* stream buffer and debounce delay.                                       *)
(***************************************************************************)
EXTENDS Keyboard, SequenceTheorems, TLAPS

\* What the handler has read and not yet sent is what it read last.
SampleIsLastRead == irq = "send" /\ ~garbage => sample = lastRead

\* The last read is on its way to the known state: in the one packet sent, or
\* in the packet the task works on, or there. More packets than one are never
\* received one by one, so nothing need be said of them.
LastReadIsOnItsWay ==
  irq # "send" /\ ~garbage /\ ~overrun =>
    /\ Len(packets) = 1 => packets[1] = lastRead
    /\ Len(packets) = 0 /\ pin # 0 => news = lastRead
    /\ Len(packets) = 0 /\ pin = 0 => known = lastRead

\* The pins handled so far are known as the packet has them.
HandledIsKnown ==
  pin # 0 => \A q \in 1 .. pin - 1 : q \in known <=> q \in news

KeyboardInv ==
  /\ TypeOK /\ AssertedIsServed
  /\ SampleIsLastRead /\ LastReadIsOnItsWay /\ HandledIsKnown

-----------------------------------------------------------------------------
LEMMA InitEstablishes == Init => KeyboardInv
  <1> SUFFICES ASSUME Init PROVE KeyboardInv
    OBVIOUS
  <1>1. <<>> \in Seq(KeySets) /\ Len(<<>>) = 0
    BY EmptySeq
  <1>2. TypeOK
    <2>1. 0 \in 0 .. NumberOfPins /\ 0 \in 0 .. DebounceDelay + 1 /\ 0 <= Capacity
      BY KeyboardAssumption
    <2>2. {} \in KeySets
      BY DEF KeySets
    <2> QED BY <1>1, <2>1, <2>2 DEF Init, TypeOK
  <1> QED BY <1>1, <1>2
    DEF Init, KeyboardInv, AssertedIsServed, Asserted, SampleIsLastRead,
        LastReadIsOnItsWay, HandledIsKnown

\* A key, the tick, and the handler until it sends.
LEMMA KeyPreserves ==
  ASSUME KeyboardInv, NEW key \in Pins, KeyChanges(key)
  PROVE  KeyboardInv'
  <1>1. /\ TypeOK /\ AssertedIsServed
        /\ SampleIsLastRead /\ LastReadIsOnItsWay /\ HandledIsKnown
    BY DEF KeyboardInv
  <1>2. /\ pressed' = IF key \in pressed THEN pressed \ {key} ELSE pressed \cup {key}
        /\ edge' = (edge \/ (~Asserted(pressed, lastRead) /\ Asserted(pressed', lastRead)))
        /\ UNCHANGED <<lastRead, irq, sample, garbage, packets,
                       pin, news, known, since, overrun>>
    BY DEF KeyChanges, handler, task
  <1>3. pressed' \in KeySets
    BY <1>1, <1>2 DEF TypeOK, KeySets
  <1>4. edge' \in BOOLEAN
    BY <1>1, <1>2 DEF TypeOK
  <1>5. TypeOK'
    BY <1>1, <1>2, <1>3, <1>4 DEF TypeOK
  <1>6. AssertedIsServed'
    BY <1>1, <1>2 DEF AssertedIsServed
  <1> QED BY <1>1, <1>2, <1>5, <1>6
    DEF KeyboardInv, SampleIsLastRead, LastReadIsOnItsWay, HandledIsKnown

LEMMA InterruptPreserves ==
  ASSUME KeyboardInv, Interrupt
  PROVE  KeyboardInv'
  <1>1. /\ TypeOK /\ AssertedIsServed
        /\ SampleIsLastRead /\ LastReadIsOnItsWay /\ HandledIsKnown
    BY DEF KeyboardInv
  <1>2. CASE EnterHandler
    <2>1. /\ irq = "idle" /\ edge' = FALSE /\ irq' = "check"
          /\ UNCHANGED <<pressed, lastRead, sample, garbage, packets,
                         pin, news, known, since, overrun>>
      BY <1>2 DEF EnterHandler, task
    <2>2. TypeOK'
      BY <1>1, <2>1 DEF TypeOK
    <2> QED BY <1>1, <2>1, <2>2
      DEF KeyboardInv, AssertedIsServed, SampleIsLastRead, LastReadIsOnItsWay,
          HandledIsKnown
  <1>3. CASE CheckPin
    <2>1. /\ irq = "check" /\ irq' = IF Asserted(pressed, lastRead) THEN "read" ELSE "idle"
          /\ UNCHANGED <<pressed, lastRead, edge, sample, garbage, packets,
                         pin, news, known, since, overrun>>
      BY <1>3 DEF CheckPin, hardware, task
    <2>2. TypeOK'
      BY <1>1, <2>1 DEF TypeOK
    <2>3. AssertedIsServed'
      BY <2>1 DEF AssertedIsServed, Asserted
    <2> QED BY <1>1, <2>1, <2>2, <2>3
      DEF KeyboardInv, SampleIsLastRead, LastReadIsOnItsWay, HandledIsKnown
  <1>4. CASE ReadPins
    <2>1. /\ irq' = "send" /\ sample' = pressed /\ lastRead' = pressed
          /\ garbage' = FALSE
          /\ UNCHANGED <<pressed, edge, packets, pin, news, known, since, overrun>>
      BY <1>4 DEF ReadPins, task
    <2>2. TypeOK'
      BY <1>1, <2>1 DEF TypeOK
    <2> QED BY <1>1, <2>1, <2>2
      DEF KeyboardInv, AssertedIsServed, Asserted, SampleIsLastRead,
          LastReadIsOnItsWay, HandledIsKnown
  <1>5. CASE ReadFails
    <2>1. /\ irq' = "send" /\ sample' \in KeySets /\ garbage' = TRUE
          /\ UNCHANGED <<pressed, lastRead, edge, packets,
                         pin, news, known, since, overrun>>
      BY <1>5 DEF ReadFails, hardware, task
    <2>2. TypeOK'
      BY <1>1, <2>1 DEF TypeOK
    <2> QED BY <1>1, <2>1, <2>2
      DEF KeyboardInv, AssertedIsServed, SampleIsLastRead, LastReadIsOnItsWay,
          HandledIsKnown
  <1>6. CASE SendPacket
    <2>1. /\ irq = "send" /\ irq' = "idle" /\ sample' = {}
          /\ packets' = IF Len(packets) < Capacity THEN Append(packets, sample) ELSE packets
          /\ UNCHANGED <<pressed, lastRead, edge, garbage,
                         pin, news, known, since, overrun>>
      BY <1>6 DEF SendPacket, hardware, task
    <2>2. sample \in KeySets /\ packets \in Seq(KeySets) /\ {} \in KeySets
      BY <1>1 DEF TypeOK, KeySets
    <2>3. Len(packets) \in Nat /\ Len(packets) <= Capacity
      BY <1>1, <2>2, LenProperties DEF TypeOK
    <2>4. /\ Append(packets, sample) \in Seq(KeySets)
          /\ Len(Append(packets, sample)) = Len(packets) + 1
          /\ Append(packets, sample)[Len(packets) + 1] = sample
      BY <2>2, AppendProperties
    <2>5. packets' \in Seq(KeySets) /\ Len(packets') <= Capacity
      BY <2>1, <2>2, <2>3, <2>4, KeyboardAssumption
    <2>6. TypeOK'
      BY <1>1, <2>1, <2>2, <2>5 DEF TypeOK
    <2>7. AssertedIsServed'
      BY <1>1, <2>1 DEF AssertedIsServed
    <2>8. LastReadIsOnItsWay'
      <3>1. Len(packets') # 0 /\ (Len(packets') = 1 => packets'[1] = sample)
        <4>1. CASE Len(packets) < Capacity
          BY <2>1, <2>3, <2>4, <4>1
        <4>2. CASE ~(Len(packets) < Capacity)
          <5>1. packets' = packets
            BY <2>1, <4>2
          <5>2. Len(packets) >= 2
            BY <2>3, <4>2, KeyboardAssumption
          <5> QED BY <2>3, <5>1, <5>2
        <4> QED BY <4>1, <4>2
      <3> QED BY <1>1, <2>1, <3>1 DEF SampleIsLastRead, LastReadIsOnItsWay
    <2> QED BY <1>1, <2>1, <2>6, <2>7, <2>8
      DEF KeyboardInv, SampleIsLastRead, HandledIsKnown
  <1> QED BY <1>2, <1>3, <1>4, <1>5, <1>6 DEF Interrupt

\* The driver's task.
LEMMA ReceivePreserves ==
  ASSUME KeyboardInv, Receive
  PROVE  KeyboardInv'
  <1>1. /\ TypeOK /\ AssertedIsServed
        /\ SampleIsLastRead /\ LastReadIsOnItsWay /\ HandledIsKnown
    BY DEF KeyboardInv
  <1>2. /\ irq = "idle" /\ ~overrun /\ pin = 0 /\ packets # <<>> /\ packets' = <<>>
        /\ UNCHANGED <<pressed, lastRead, edge, irq, sample, garbage, known, since>>
    BY DEF Receive, Runs, hardware, handler
  <1>3. <<>> \in Seq(KeySets) /\ Len(<<>>) = 0
    BY EmptySeq
  <1>4. CASE Len(packets) = 1
    <2>1. news' = Head(packets) /\ pin' = 1 /\ UNCHANGED overrun
      BY <1>4 DEF Receive
    <2>2. Head(packets) = packets[1] /\ packets[1] \in KeySets
      BY <1>1, <1>4, HeadTailProperties, ElementOfSeq DEF TypeOK
    <2>3. TypeOK'
      BY <1>1, <1>2, <1>3, <2>1, <2>2, KeyboardAssumption DEF TypeOK
    <2> QED BY <1>1, <1>2, <1>3, <1>4, <2>1, <2>2, <2>3
      DEF KeyboardInv, AssertedIsServed, SampleIsLastRead, LastReadIsOnItsWay,
          HandledIsKnown
  <1>5. CASE Len(packets) # 1
    <2>1. overrun' = TRUE /\ UNCHANGED <<news, pin>>
      BY <1>5 DEF Receive
    <2>2. TypeOK'
      BY <1>1, <1>2, <1>3, <2>1, KeyboardAssumption DEF TypeOK
    <2> QED BY <1>1, <1>2, <2>1, <2>2
      DEF KeyboardInv, AssertedIsServed, SampleIsLastRead, LastReadIsOnItsWay,
          HandledIsKnown
  <1> QED BY <1>4, <1>5

LEMMA HandlePinPreserves ==
  ASSUME KeyboardInv, HandlePin
  PROVE  KeyboardInv'
  <1>1. /\ TypeOK /\ AssertedIsServed
        /\ SampleIsLastRead /\ LastReadIsOnItsWay /\ HandledIsKnown
    BY DEF KeyboardInv
  <1>2. /\ irq = "idle" /\ ~overrun /\ pin # 0
        /\ UNCHANGED <<pressed, lastRead, edge, irq, sample, garbage, packets, overrun>>
        /\ pin' = IF pin = NumberOfPins THEN 0 ELSE pin + 1
        /\ news' = IF pin = NumberOfPins THEN {} ELSE news
    BY DEF HandlePin, Runs, NextPin, hardware, handler
  <1>3. pin \in Pins /\ pin \in Nat /\ NumberOfPins \in Nat
    BY <1>1, <1>2, KeyboardAssumption DEF TypeOK, Pins
  <1>4. known \in KeySets /\ news \in KeySets /\ since \in 0 .. DebounceDelay + 1
    BY <1>1 DEF TypeOK
  <1>5. /\ known' \in KeySets
        /\ pin \in known' <=> pin \in news
        /\ \A q \in Pins : q # pin => (q \in known' <=> q \in known)
    <2>1. CASE Differs
      <3>1. known' = IF pin \in known THEN known \ {pin} ELSE known \cup {pin}
        BY <2>1 DEF HandlePin, Toggled
      <3>2. (pin \in news) # (pin \in known)
        BY <2>1 DEF Differs
      <3>3. known' \in KeySets
        BY <1>3, <1>4, <3>1 DEF KeySets
      <3>4. pin \in known' <=> pin \in news
        <4>1. CASE pin \in known
          BY <3>1, <3>2, <4>1, Zenon
        <4>2. CASE pin \notin known
          <5>1. pin \in known'
            BY <3>1, <4>2
          <5>2. pin \in news
            BY <3>2, <4>2
          <5> QED BY <5>1, <5>2
        <4> QED BY <4>1, <4>2
      <3>5. \A q \in Pins : q # pin => (q \in known' <=> q \in known)
        BY <3>1
      <3> QED BY <3>3, <3>4, <3>5
    <2>2. CASE ~Differs
      <3>1. known' = known
        BY <2>2 DEF HandlePin
      <3>2. pin \in known <=> pin \in news
        BY <2>2, Zenon DEF Differs
      <3> QED BY <1>4, <3>1, <3>2
    <2> QED BY <2>1, <2>2
  <1>6. since' \in 0 .. DebounceDelay + 1
    BY <1>4, KeyboardAssumption DEF HandlePin
  <1>7. TypeOK'
    <2>1. pin' \in 0 .. NumberOfPins
      BY <1>2, <1>3, KeyboardAssumption DEF Pins
    <2>2. news' \in KeySets
      BY <1>2, <1>4 DEF KeySets
    <2> QED BY <1>1, <1>2, <1>5, <1>6, <2>1, <2>2 DEF TypeOK
  <1>8. \A q \in 1 .. pin : q \in known' <=> q \in news
    <2> TAKE q \in 1 .. pin
    <2>1. CASE q = pin
      BY <1>5, <2>1
    <2>2. CASE q # pin
      <3>1. q \in 1 .. pin - 1 /\ q \in Pins
        BY <1>3, <2>2 DEF Pins
      <3> QED BY <1>1, <1>2, <1>5, <2>2, <3>1 DEF HandledIsKnown
    <2> QED BY <2>1, <2>2
  <1>9. HandledIsKnown'
    <2> SUFFICES ASSUME pin' # 0
                 PROVE  \A q \in 1 .. pin' - 1 : q \in known' <=> q \in news'
      BY DEF HandledIsKnown
    <2>1. pin' - 1 = pin /\ news' = news
      BY <1>2, <1>3
    <2> QED BY <1>8, <2>1
  <1>10. LastReadIsOnItsWay'
    <2>1. CASE pin = NumberOfPins
      <3>1. known' = news
        BY <1>4, <1>5, <1>8, <2>1 DEF KeySets, Pins
      <3> QED BY <1>1, <1>2, <2>1, <3>1 DEF LastReadIsOnItsWay
    <2>2. CASE pin # NumberOfPins
      <3>1. pin' # 0 /\ news' = news
        BY <1>2, <1>3, <2>2
      <3> QED BY <1>1, <1>2, <3>1 DEF LastReadIsOnItsWay
    <2> QED BY <2>1, <2>2
  <1> QED BY <1>1, <1>2, <1>7, <1>9, <1>10
    DEF KeyboardInv, AssertedIsServed, SampleIsLastRead

LEMMA NextPreserves == KeyboardInv /\ [Next]_vars => KeyboardInv'
  <1> SUFFICES ASSUME KeyboardInv, [Next]_vars PROVE KeyboardInv'
    OBVIOUS
  <1>1. /\ TypeOK /\ AssertedIsServed
        /\ SampleIsLastRead /\ LastReadIsOnItsWay /\ HandledIsKnown
    BY DEF KeyboardInv
  <1>2. ASSUME NEW key \in Pins, KeyChanges(key) PROVE KeyboardInv'
    BY <1>2, KeyPreserves
  <1>3. CASE Tick
    <2>1. /\ since <= DebounceDelay /\ since' = since + 1
          /\ UNCHANGED <<pressed, lastRead, edge, irq, sample, garbage, packets,
                         pin, news, known, overrun>>
      BY <1>3 DEF Tick, hardware, handler
    <2>2. since' \in 0 .. DebounceDelay + 1
      BY <1>1, <2>1, KeyboardAssumption DEF TypeOK
    <2>3. TypeOK'
      BY <1>1, <2>1, <2>2 DEF TypeOK
    <2> QED BY <1>1, <2>1, <2>3
      DEF KeyboardInv, AssertedIsServed, SampleIsLastRead, LastReadIsOnItsWay,
          HandledIsKnown
  <1>4. CASE UNCHANGED vars
    <2>1. UNCHANGED <<pressed, lastRead, edge, irq, sample, garbage, packets,
                      pin, news, known, since, overrun>>
      BY <1>4 DEF vars, hardware, handler, task
    <2>2. TypeOK'
      BY <1>1, <2>1 DEF TypeOK
    <2> QED BY <1>1, <2>1, <2>2
      DEF KeyboardInv, AssertedIsServed, SampleIsLastRead, LastReadIsOnItsWay,
          HandledIsKnown
  <1> QED
    BY <1>2, <1>3, <1>4, InterruptPreserves, ReceivePreserves, HandlePinPreserves
    DEF Next

-----------------------------------------------------------------------------
\* The theorems.

\* The invariant holds.
THEOREM KeyboardInvariant == Spec => []KeyboardInv
  BY InitEstablishes, NextPreserves, PTL DEF Spec

\* The handler and the task stay within their packets and pins.
THEOREM KeyboardTyped == Spec => []TypeOK
  <1>1. KeyboardInv => TypeOK
    BY DEF KeyboardInv
  <1> QED BY <1>1, KeyboardInvariant, PTL

\* INT is low only while an edge is latched or the handler will read, unless a
\* read failed: however the keys change while the handler runs.
THEOREM IntIsServed == Spec => []AssertedIsServed
  <1>1. KeyboardInv => AssertedIsServed
    BY DEF KeyboardInv
  <1> QED BY <1>1, KeyboardInvariant, PTL

\* When nothing is on its way the driver knows what the expander was last read
\* to hold, however many reads, releases and debounced releases came before.
THEOREM NoChangeIsForgotten == Spec => []KnownIsLastRead
  <1>1. KeyboardInv => KnownIsLastRead
    <2>1. Len(<<>>) = 0
      BY EmptySeq
    <2> QED BY <2>1 DEF KeyboardInv, LastReadIsOnItsWay, KnownIsLastRead
  <1> QED BY <1>1, KeyboardInvariant, PTL
=============================================================================
