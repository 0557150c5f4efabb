-------------------------------- MODULE ByteFifo --------------------------------
(***************************************************************************)
(* What a stream buffer promises to one sender and one receiver: the bytes *)
(* accepted are received in order, each once, until a reset throws away    *)
(* those still on the way. A message that does not fit is cut; a receiver  *)
(* gets nothing below the trigger level.                                   *)
(***************************************************************************)
EXTENDS Integers, Sequences

CONSTANTS
  Bytes,     \* what a byte can be
  Size,      \* bytes the buffer holds
  ItemBytes, \* bytes of a message
  Trigger,   \* bytes that must be there before any are received
  Most       \* bytes the receiver takes at once, at most

VARIABLES
  items,     \* accepted and not received
  received   \* what the last receive returned

Messages == [1 .. ItemBytes -> Bytes]

\* The bytes of data that fit beside what a buffer of this size holds.
Accepted(data, held) ==
  SubSeq(data, 1, IF Len(data) <= Size - held THEN Len(data) ELSE Size - held)

Init == items = <<>> /\ received = <<>>

Send(data) ==
  /\ items' = items \o Accepted(data, Len(items))
  /\ UNCHANGED received

Receive(count) ==
  /\ Trigger <= count /\ count <= Len(items)
  /\ received' = SubSeq(items, 1, count)
  /\ items' = SubSeq(items, count + 1, Len(items))

Reset == items' = <<>> /\ UNCHANGED received

Next ==
  \/ \E data \in Messages : Send(data)
  \/ \E count \in Trigger .. Most : Receive(count)
  \/ Reset

Spec == Init /\ [][Next]_<<items, received>>
=============================================================================
