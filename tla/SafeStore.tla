------------------------------- MODULE SafeStore -------------------------------
(***************************************************************************)
(* What the calibration's storage promises to the user, whatever commands  *)
(* it takes: a set is kept only where nothing is, so sets never mix; what  *)
(* the user was told is stored stays until a later calibration erases it;  *)
(* and only hardware that broke off a command leaves anything unknown.     *)
(* Sets are numbered from 1 in the order in which they were measured.      *)
(***************************************************************************)
EXTENDS Integers

VARIABLES
  kept,  \* the set a start would find, or None or Unknown
  told   \* the set the user was told is stored, or None

vars == <<kept, told>>

None == 0
Unknown == -1

Init == kept = None /\ told = None

Forget == kept' = None /\ told' = None

Keep == kept = None /\ kept' \in Nat \ {0} /\ told' = None

Spoil == kept' = Unknown /\ told' = None

Tell == kept \in Nat \ {0} /\ told' = kept /\ kept' = kept

Next == Forget \/ Keep \/ Spoil \/ Tell

Spec == Init /\ [][Next]_vars
=============================================================================
