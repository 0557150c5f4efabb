---------------------------- MODULE CalibrationStore ----------------------------
(***************************************************************************)
(* The calibration's data between the calibration's task, the gain         *)
(* controllers and one page of flash: a calibration measures a value for   *)
(* every slot (the voltage, then shunt and clamp at each level), uses each *)
(* at once, and stores them all with FlashController::Store at its end.    *)
(* Start-up recalls them, or falls back to reserve_calibrations.           *)
(*                                                                         *)
(* Every command to the flash controller may be refused, may end with a    *)
(* verification error, and may be broken off by a loss of power; power     *)
(* may also be lost between any two commands. A value stands for the       *)
(* number of the calibration that measured it.                             *)
(***************************************************************************)
EXTENDS Integers

CONSTANTS
  SlotCount,        \* values in a CalibrationData
  MaxCalibrations   \* bound: calibrations started

ASSUME StoreAssumption == SlotCount \in Nat \ {0} /\ MaxCalibrations \in Nat

VARIABLES
  pc,            \* the statement of the calibration's task, "idle" outside
  cal,           \* cal_data, the local CalibrationData of the task
  slot,          \* the slot measured next
  inUse,         \* the values in the gain controllers
  isCalibrated,  \* the driver's flag
  flash,         \* the page: userData, memoryIntegrityMarker, lock bit
  \* history, read by properties only:
  calibration,   \* number of the present calibration
  announced,     \* calibration announced as stored and not erased since, or 0
  damaged,       \* a command broke off, or ended in error, since the last erase
  trusted        \* the page was not damaged at the last start

task == <<pc, cal, slot>>
meter == <<inUse, isCalibrated>>
history == <<announced, damaged, trusted>>
vars == <<pc, cal, slot, inUse, isCalibrated, flash, calibration, announced, damaged, trusted>>

Slots == 1 .. SlotCount

Reserve == 0    \* a value of reserve_calibrations
Erased == -1
Garbage == -2
Unset == -3

Words == Nat \cup {Erased, Garbage, Unset}
Markers == {"set", "erased", "garbage"}
Pages == [data : [Slots -> Words], marker : Markers, locked : BOOLEAN]

All(value) == [s \in Slots |-> value]

BlankPage == [data |-> All(Erased), marker |-> "erased", locked |-> FALSE]

TypeOK ==
  /\ pc \in {"idle", "measuring", "unlock", "erase", "write", "lock", "stored", "failed"}
  /\ cal \in [Slots -> Words] /\ inUse \in [Slots -> Words]
  /\ slot \in 1 .. SlotCount
  /\ isCalibrated \in BOOLEAN
  /\ flash \in Pages
  /\ calibration \in 0 .. MaxCalibrations
  /\ announced \in 0 .. calibration
  /\ damaged \in BOOLEAN /\ trusted \in BOOLEAN

-----------------------------------------------------------------------------
\* Mutant: an erased page passes for a stored set.
RecallUnlessGarbage(page) ==
  [data |-> IF page.marker = "garbage" THEN All(Reserve) ELSE page.data,
   valid |-> page.marker # "garbage"]

\* FlashController::Recall with the fallback of InitializeSensors.
Recall(page) ==
  [data |-> IF page.marker = "set" THEN page.data ELSE All(Reserve),
   valid |-> page.marker = "set"]

\* Start-up with the page as given: the memory is lost and the set recalled.
Boot(page) ==
  /\ flash' = page
  /\ inUse' = Recall(page).data
  /\ isCalibrated' = Recall(page).valid
  /\ pc' = "idle" /\ cal' = All(Unset) /\ slot' = 1

\* The firmware was programmed into an erased chip.
Init ==
  /\ flash = BlankPage
  /\ inUse = Recall(BlankPage).data
  /\ isCalibrated = Recall(BlankPage).valid
  /\ pc = "idle" /\ cal = All(Unset) /\ slot = 1
  /\ calibration = 0 /\ announced = 0
  /\ damaged = FALSE /\ trusted = TRUE

-----------------------------------------------------------------------------
\* One round of CalibrationTask begins with an empty cal_data.
StartCalibration ==
  /\ pc = "idle" /\ calibration < MaxCalibrations
  /\ pc' = "measuring" /\ cal' = All(Unset) /\ slot' = 1
  /\ calibration' = calibration + 1
  /\ UNCHANGED <<meter, flash, history>>

\* Mutant: the loop over the gain levels goes one value too far.
MeasureOneMore ==
  /\ pc = "measuring"
  /\ cal' = [s \in Slots |-> IF s = slot THEN calibration ELSE cal[s]]
  /\ inUse' = [s \in Slots |-> IF s = slot THEN calibration ELSE inUse[s]]
  /\ pc' = IF slot > SlotCount THEN "unlock" ELSE pc
  /\ slot' = IF slot <= SlotCount THEN slot + 1 ELSE slot
  /\ UNCHANGED <<isCalibrated, flash, calibration, history>>

\* A measured value goes to the gain controller and to cal_data; after the
\* last slot the set is stored.
Measure ==
  /\ pc = "measuring"
  /\ cal' = [cal EXCEPT ![slot] = calibration]
  /\ inUse' = [inUse EXCEPT ![slot] = calibration]
  /\ pc' = IF slot = SlotCount THEN "unlock" ELSE pc
  /\ slot' = IF slot < SlotCount THEN slot + 1 ELSE slot
  /\ UNCHANGED <<isCalibrated, flash, calibration, history>>

-----------------------------------------------------------------------------
\* FlashController::Store. A command that fails ends it at the label failed.
Goto(from, to) == pc = from /\ pc' = to /\ UNCHANGED <<cal, slot, meter, calibration, trusted>>

\* What a page can be when the change of it to another was broken off.
Partly(target) ==
  {[data |-> d, marker |-> m, locked |-> flash.locked] :
     d \in {e \in [Slots -> {Erased, Garbage} \cup 1 .. MaxCalibrations \cup {Unset}] :
              \A s \in Slots : e[s] \in {flash.data[s], target.data[s], Garbage}},
     m \in {flash.marker, target.marker, "garbage"}}

\* Programming only clears bits: over a measured value it makes neither the
\* old nor the new one; over the marker, the marker.
Written ==
  [flash EXCEPT
     !.data = [s \in Slots |-> IF flash.data[s] = Erased THEN cal[s] ELSE Garbage],
     !.marker = IF flash.marker \in {"erased", "set"} THEN "set" ELSE "garbage"]

\* The controller refuses the command (FLOCKE, FCMDE): nothing has changed.
Refused(step) ==
  /\ Goto(step, "failed")
  /\ UNCHANGED <<flash, announced, damaged>>

\* The controller reports that the pages do not verify (FLERR).
Unverified(step, target) ==
  /\ Goto(step, "failed")
  /\ flash' \in Partly(target) /\ damaged' = TRUE /\ announced' = 0

Unlock ==
  \/ Goto("unlock", "erase") /\ flash' = [flash EXCEPT !.locked = FALSE]
     /\ UNCHANGED <<announced, damaged>>
  \/ Refused("unlock")

EraseCommand ==
  \/ /\ Goto("erase", "write")
     /\ ~flash.locked
     /\ flash' = BlankPage /\ damaged' = FALSE /\ announced' = 0
  \/ Refused("erase")
  \/ ~flash.locked /\ Unverified("erase", BlankPage)

\* Mutant: the result of the erase is not looked at.
EraseUnchecked ==
  \/ EraseCommand
  \/ Goto("erase", "write") /\ UNCHANGED <<flash, announced, damaged>>

Erase == EraseCommand

\* Mutant: the result of the write is not looked at.
WriteUnchecked ==
  \/ Goto("write", "lock") /\ flash' = Written /\ UNCHANGED <<announced, damaged>>
  \/ Goto("write", "lock") /\ UNCHANGED <<flash, announced, damaged>>

Write ==
  \/ Goto("write", "lock") /\ flash' = Written /\ UNCHANGED <<announced, damaged>>
  \/ Refused("write")
  \/ Unverified("write", Written)

\* A refused lock fails a Store that has written its set.
Lock ==
  \/ Goto("lock", "stored") /\ flash' = [flash EXCEPT !.locked = TRUE]
     /\ UNCHANGED <<announced, damaged>>
  \/ Refused("lock")

\* Only a Store that returned true is announced. Either way the task stops
\* the measurement and itself.
Return ==
  \/ /\ Goto("stored", "idle")
     /\ announced' = calibration
     /\ UNCHANGED <<flash, damaged>>
  \/ /\ Goto("failed", "idle")
     /\ UNCHANGED <<flash, announced, damaged>>

-----------------------------------------------------------------------------
\* Power is lost between two commands, or anywhere in a calibration.
Reset ==
  /\ Boot(flash) /\ trusted' = ~damaged
  /\ UNCHANGED <<calibration, announced, damaged>>

\* Power is lost while a command changes the page.
BreakOff(step, target) ==
  /\ pc = step /\ ~flash.locked
  /\ \E page \in Partly(target) : Boot(page)
  /\ damaged' = TRUE /\ trusted' = FALSE /\ announced' = 0
  /\ UNCHANGED calibration

Next ==
  \/ StartCalibration \/ Measure
  \/ Unlock \/ Erase \/ Write \/ Lock \/ Return
  \/ Reset \/ BreakOff("erase", BlankPage) \/ BreakOff("write", Written)

Spec == Init /\ [][Next]_vars

-----------------------------------------------------------------------------
WholeSet(data) == \E c \in 1 .. calibration : data = All(c)

Mixed == -2

\* What a start would find, seen from the user's side; Mixed is no state of
\* the abstract specification.
Kept ==
  IF damaged THEN -1
  ELSE IF ~Recall(flash).valid THEN 0
  ELSE IF WholeSet(Recall(flash).data) THEN Recall(flash).data[1]
  ELSE Mixed

Promise == INSTANCE SafeStore WITH kept <- Kept, told <- announced

\* The storage implements SafeStore: as long as the hardware finishes its
\* commands, Recall finds nothing or one whole set, a set is written only
\* over nothing, and what was announced stays until it is erased.
StoreIsSafe == Promise!Spec

\* Whoever was told "calibration data stored successfully" has that set in
\* use after every start, in every slot, and no warning.
AnnouncedIsUsed ==
  [][Reset /\ announced # 0 => isCalibrated' /\ inUse' = All(announced)]_vars

\* A meter that does not warn of a missing calibration computes with measured
\* values only, also in the middle of a calibration of it and after one was
\* broken off; unless it recalled a damaged page.
CalibratedIsMeasured ==
  isCalibrated /\ trusted => \A s \in Slots : inUse[s] \in 1 .. calibration
=============================================================================
