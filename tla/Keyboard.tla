-------------------------------- MODULE Keyboard --------------------------------
(***************************************************************************)
(* The way of a key: the expander asserts INT while its inputs differ from *)
(* the last ones read; the falling edge of INT, latched by the port, calls *)
(* the interrupt's handler, which reads the expander and sends the state   *)
(* of all keys as a packet of two bytes to a stream buffer; the driver's   *)
(* task compares it with the state it knows, key by key, and the keyboard  *)
(* hands releases on, debounced by one clock for all keys.                 *)
(*                                                                         *)
(* A pin reads High while its key is pressed (IPOL). Keys change at any    *)
(* moment, also while the handler reads. A read may fail: GetPinsState     *)
(* does not look at the result and returns whatever its buffer held.       *)
(***************************************************************************)
EXTENDS Integers, Sequences

CONSTANTS
  NumberOfPins,    \* keys (16)
  Capacity,        \* packets the stream buffer holds (80)
  DebounceDelay    \* ticks (5)

ASSUME KeyboardAssumption ==
  /\ NumberOfPins \in Nat \ {0} /\ DebounceDelay \in Nat
  /\ Capacity \in Nat /\ Capacity >= 2

Pins == 1 .. NumberOfPins

VARIABLES
  pressed,   \* the keys held down
  lastRead,  \* those of the expander's last read
  edge,      \* the port has latched a falling edge of INT
  irq,       \* where the handler of that interrupt is
  sample,    \* what it has read
  packets,   \* in SB_pins_status
  pin,       \* the pin the task is at in a packet; 0 while it receives
  news,      \* the packet the task works on
  known,     \* pins: the state of the keys as the driver knows it
  since,     \* ticks since lastChangeTime, up to one more than the delay
  overrun,   \* a receive has written past its array of one packet
  garbage    \* the last read of the expander failed; read by properties only

hardware == <<pressed, lastRead, edge>>
handler == <<irq, sample, garbage>>
task == <<pin, news, known, since, overrun>>
vars == <<hardware, handler, packets, task>>

KeySets == SUBSET Pins

TypeOK ==
  /\ {pressed, lastRead, sample, news, known} \subseteq KeySets
  /\ irq \in {"idle", "check", "read", "send"}
  /\ packets \in Seq(KeySets) /\ Len(packets) <= Capacity
  /\ pin \in 0 .. NumberOfPins
  /\ since \in 0 .. DebounceDelay + 1
  /\ {edge, overrun, garbage} \subseteq BOOLEAN

\* Nobody presses a key while the meter is switched on; the expander may have
\* made an edge before its first read.
Init ==
  /\ pressed = {} /\ lastRead = {} /\ edge \in BOOLEAN
  /\ irq = "idle" /\ sample = {} /\ packets = <<>>
  /\ pin = 0 /\ news = {} /\ known = {} /\ since = 0 /\ overrun = FALSE
  /\ garbage = FALSE

-----------------------------------------------------------------------------
\* The keys and the expander.

\* INT is low.
Asserted(keys, read) == keys # read

\* A key changes; INT may fall, or rise when all keys are again as last read.
KeyChanges(key) ==
  /\ pressed' = IF key \in pressed THEN pressed \ {key} ELSE pressed \cup {key}
  /\ edge' = (edge \/ (~Asserted(pressed, lastRead) /\ Asserted(pressed', lastRead)))
  /\ UNCHANGED <<lastRead, handler, packets, task>>

-----------------------------------------------------------------------------
\* The interrupt: pio_handler_process and MCP23016_driver_IRQHandler.

\* Reading the port's status clears the latched edge.
EnterHandler ==
  /\ irq = "idle" /\ edge
  /\ edge' = FALSE /\ irq' = "check"
  /\ UNCHANGED <<pressed, lastRead, sample, garbage, packets, task>>

\* The handler returns when INT is high.
CheckPin ==
  /\ irq = "check"
  /\ irq' = IF Asserted(pressed, lastRead) THEN "read" ELSE "idle"
  /\ UNCHANGED <<hardware, sample, garbage, packets, task>>

\* GetPinsState: the read makes INT high ...
ReadPins ==
  /\ irq = "read" /\ irq' = "send"
  /\ sample' = pressed /\ lastRead' = pressed /\ garbage' = FALSE
  /\ UNCHANGED <<pressed, edge, packets, task>>

\* ... or fails, and leaves INT low and the buffer as it was.
ReadFails ==
  /\ irq = "read" /\ irq' = "send"
  /\ sample' \in KeySets /\ garbage' = TRUE
  /\ UNCHANGED <<hardware, packets, task>>

\* Mutant: the latched edge is cleared when the handler is done.
SendAndClearEdge ==
  /\ irq = "send" /\ irq' = "idle"
  /\ packets' = IF Len(packets) < Capacity THEN Append(packets, sample) ELSE packets
  /\ sample' = {} /\ edge' = FALSE
  /\ UNCHANGED <<pressed, lastRead, garbage, task>>

\* Mutant: the stream buffer is taken to have room.
SendUnchecked ==
  /\ irq = "send" /\ irq' = "idle"
  /\ packets' = Append(packets, sample) /\ sample' = {}
  /\ UNCHANGED <<hardware, garbage, task>>

SendPacket ==
  /\ irq = "send" /\ irq' = "idle"
  /\ packets' = IF Len(packets) < Capacity THEN Append(packets, sample) ELSE packets
  /\ sample' = {}
  /\ UNCHANGED <<hardware, garbage, task>>

-----------------------------------------------------------------------------
\* The driver's task: InterruptHandler, with Keyboard's callback. It does not
\* run while the interrupt's handler does.

Runs == irq = "idle" /\ ~overrun

\* All packets are received, into an array of one: what is behind it on the
\* stack is overwritten by the others, and nothing is known of the task then.
Receive ==
  /\ Runs /\ pin = 0 /\ packets # <<>>
  /\ packets' = <<>>
  /\ IF Len(packets) = 1
     THEN news' = Head(packets) /\ pin' = 1 /\ UNCHANGED overrun
     ELSE overrun' = TRUE /\ UNCHANGED <<news, pin>>
  /\ UNCHANGED <<hardware, handler, known, since>>

Differs == (pin \in news) # (pin \in known)

Debounced == since > DebounceDelay

\* Next pin, or the next packet.
NextPin ==
  /\ pin' = IF pin = NumberOfPins THEN 0 ELSE pin + 1
  /\ news' = IF pin = NumberOfPins THEN {} ELSE news

Toggled == IF pin \in known THEN known \ {pin} ELSE known \cup {pin}

\* Mutant: the state of a pin is kept when its release is debounced away.
HandlePinIfDebounced ==
  /\ Runs /\ pin # 0
  /\ IF Differs /\ (pin \in known => Debounced)
     THEN known' = Toggled /\ since' = 0
     ELSE UNCHANGED <<known, since>>
  /\ NextPin
  /\ UNCHANGED <<hardware, handler, packets, overrun>>

\* One pin of the packet. Its old state High means a release: within the delay
\* it is not handed on, nor does the delay start anew; the driver takes the
\* new state all the same.
HandlePin ==
  /\ Runs /\ pin # 0
  /\ IF Differs
     THEN /\ known' = Toggled
          /\ since' = IF pin \in known /\ ~Debounced THEN since ELSE 0
     ELSE UNCHANGED <<known, since>>
  /\ NextPin
  /\ UNCHANGED <<hardware, handler, packets, overrun>>

\* The tick's interrupt waits for the handler.
Tick ==
  /\ irq = "idle" /\ since <= DebounceDelay
  /\ since' = since + 1
  /\ UNCHANGED <<hardware, handler, packets, pin, news, known, overrun>>

-----------------------------------------------------------------------------
Interrupt == EnterHandler \/ CheckPin \/ ReadPins \/ ReadFails \/ SendPacket

Next == (\E key \in Pins : KeyChanges(key)) \/ Interrupt \/ Receive \/ HandlePin \/ Tick

Spec == Init /\ [][Next]_vars

\* Interrupts are served, and the task gets its turns.
FairSpec == Spec /\ WF_vars(Interrupt) /\ WF_vars(Receive) /\ WF_vars(HandlePin)

-----------------------------------------------------------------------------
\* INT is an edge for the processor and a level for the expander: while it is
\* low, an edge is latched or the handler will still read. Otherwise no edge
\* would ever come again and the keyboard were dead. A read that failed does
\* leave it so.
AssertedIsServed ==
  Asserted(pressed, lastRead) => edge \/ irq \in {"check", "read"} \/ garbage

\* With no packet on its way the driver knows the keys as they were last read:
\* what came while it worked or was debounced away has not been forgotten.
KnownIsLastRead ==
  irq # "send" /\ packets = <<>> /\ pin = 0 /\ ~garbage /\ ~overrun => known = lastRead

\* When the keys come to rest the driver comes to know their state, unless the
\* last read failed or packets have piled up.
KnownFollowsKeys ==
  <>[][pressed' = pressed]_vars =>
    <>[](known = pressed) \/ []<>garbage \/ <>overrun
=============================================================================
