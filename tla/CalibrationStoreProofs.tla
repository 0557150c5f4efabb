------------------------- MODULE CalibrationStoreProofs -------------------------
(***************************************************************************)
(* That the calibration's storage keeps its promise for any number of      *)
(* slots and of calibrations. The invariant behind it says what the page   *)
(* and cal_data hold at each statement of Store.                           *)
(***************************************************************************)
EXTENDS CalibrationStore, TLAPS

Storing == {"unlock", "erase", "write", "lock", "stored"}

\* The part of cal_data measured so far is of this calibration.
CalIsFresh ==
  /\ pc = "measuring" =>
       /\ calibration >= 1
       /\ \A s \in Slots : s < slot => cal[s] = calibration
  /\ pc \in Storing => calibration >= 1 /\ cal = All(calibration)

\* The page around the two commands that change it.
PageFollowsStore ==
  /\ pc = "write" => flash.data = All(Erased) /\ flash.marker = "erased" /\ announced = 0
  /\ pc \in {"write", "lock", "stored"} => ~damaged
  /\ pc \in {"lock", "stored"} => flash.data = cal /\ flash.marker = "set"

PageIsWhole ==
  ~damaged /\ flash.marker = "set" => \E c \in 1 .. calibration : flash.data = All(c)

AnnouncedIsKept ==
  announced # 0 => ~damaged /\ flash.marker = "set" /\ flash.data = All(announced)

StoreInv ==
  /\ TypeOK
  /\ CalIsFresh /\ PageFollowsStore /\ PageIsWhole /\ AnnouncedIsKept
  /\ CalibratedIsMeasured

LEMMA AllTyped ==
  /\ \A w \in Words : All(w) \in [Slots -> Words]
  /\ All(Unset) \in [Slots -> Words]
  /\ All(Reserve) \in [Slots -> Words]
  /\ All(Erased) \in [Slots -> Words]
  BY DEF All, Words, Reserve

LEMMA BlankTyped == BlankPage \in Pages
  BY AllTyped DEF BlankPage, Pages, Markers, Words

LEMMA WrittenTyped ==
  ASSUME flash \in Pages, cal \in [Slots -> Words]
  PROVE  Written \in Pages
  BY DEF Written, Pages, Markers, Words

LEMMA PartlyTyped ==
  ASSUME flash \in Pages, NEW target \in Pages
  PROVE  Partly(target) \subseteq Pages
  BY StoreAssumption DEF Partly, Pages, Markers, Words

LEMMA RecallTyped ==
  ASSUME NEW page \in Pages
  PROVE  /\ Recall(page).data \in [Slots -> Words]
         /\ Recall(page).valid \in BOOLEAN
         /\ Recall(page).valid <=> page.marker = "set"
         /\ Recall(page).valid => Recall(page).data = page.data
  BY AllTyped DEF Recall, Pages, Words, Reserve

LEMMA StoreTypedInit == Init => TypeOK
<1>1. Init => Recall(BlankPage).data \in [Slots -> Words] /\ Recall(BlankPage).valid \in BOOLEAN
  BY BlankTyped, RecallTyped
<1>2. Init => isCalibrated \in BOOLEAN /\ inUse \in [Slots -> Words]
  BY <1>1, Zenon DEF Init
<1>3. Init => damaged \in BOOLEAN /\ trusted \in BOOLEAN
  BY DEF Init
<1> QED
  BY <1>2, <1>3, StoreAssumption, BlankTyped, AllTyped DEF Init, TypeOK

LEMMA StoreTypedNext == TypeOK /\ [Next]_vars => TypeOK'
<1> SUFFICES ASSUME TypeOK, [Next]_vars PROVE TypeOK'
  OBVIOUS
<1> USE StoreAssumption
<1>1. CASE StartCalibration
  BY <1>1, AllTyped DEF StartCalibration, TypeOK, meter, history
<1>2. CASE Measure
  BY <1>2 DEF Measure, TypeOK, history, Words, Slots
<1>3. CASE Unlock
  <2>1. [flash EXCEPT !.locked = FALSE] \in Pages
    BY DEF TypeOK, Pages
  <2> QED
    BY <1>3, <2>1 DEF Unlock, Goto, Refused, TypeOK, meter
<1>4. CASE Erase
  <2>1. Partly(BlankPage) \subseteq Pages
    BY BlankTyped, PartlyTyped DEF TypeOK
  <2>2. flash' \in Pages
    BY <1>4, <2>1, BlankTyped
       DEF Erase, EraseCommand, Refused, Unverified, TypeOK
  <2>3. damaged' \in BOOLEAN
    BY <1>4, Zenon DEF Erase, EraseCommand, Refused, Unverified, TypeOK
  <2>4. announced' \in 0 .. calibration
    BY <1>4 DEF Erase, EraseCommand, Refused, Unverified, TypeOK
  <2> QED
    BY <1>4, <2>2, <2>3, <2>4
       DEF Erase, EraseCommand, Goto, Refused, Unverified, TypeOK, meter
<1>5. CASE Write
  <2>1. Written \in Pages
    BY WrittenTyped DEF TypeOK
  <2>2. Partly(Written) \subseteq Pages
    BY <2>1, PartlyTyped DEF TypeOK
  <2>3. flash' \in Pages
    BY <1>5, <2>1, <2>2 DEF Write, Refused, Unverified, TypeOK
  <2>4. damaged' \in BOOLEAN
    BY <1>5, Zenon DEF Write, Refused, Unverified, TypeOK
  <2>5. announced' \in 0 .. calibration
    BY <1>5 DEF Write, Refused, Unverified, TypeOK
  <2> QED
    BY <1>5, <2>3, <2>4, <2>5 DEF Write, Goto, Refused, Unverified, TypeOK, meter
<1>6. CASE Lock
  <2>1. [flash EXCEPT !.locked = TRUE] \in Pages
    BY DEF TypeOK, Pages
  <2> QED
    BY <1>6, <2>1 DEF Lock, Goto, Refused, TypeOK, meter
<1>7. CASE Return
  BY <1>7 DEF Return, Goto, TypeOK, meter
<1>8. ASSUME NEW page \in Pages, Boot(page)
      PROVE  /\ pc' = "idle" /\ cal' \in [Slots -> Words]
             /\ slot' \in 1 .. SlotCount /\ inUse' \in [Slots -> Words]
             /\ isCalibrated' \in BOOLEAN /\ flash' \in Pages
  BY <1>8, RecallTyped, AllTyped DEF Boot, Words, Unset, Slots
<1>9. CASE Reset
  BY <1>8, <1>9 DEF Reset, TypeOK
<1>10. ASSUME NEW step, NEW target \in Pages, BreakOff(step, target)
       PROVE  TypeOK'
  <2>1. PICK page \in Partly(target) : Boot(page)
    BY <1>10 DEF BreakOff
  <2>2. page \in Pages
    BY PartlyTyped DEF TypeOK
  <2>3. damaged' \in BOOLEAN /\ trusted' \in BOOLEAN
    BY <1>10 DEF BreakOff
  <2>4. calibration' \in 0 .. MaxCalibrations /\ announced' \in 0 .. calibration'
    BY <1>10 DEF BreakOff, TypeOK
  <2>5. /\ pc' = "idle" /\ cal' \in [Slots -> Words]
        /\ slot' \in 1 .. SlotCount /\ inUse' \in [Slots -> Words]
        /\ isCalibrated' \in BOOLEAN /\ flash' \in Pages
    BY <1>8, <2>1, <2>2
  <2> QED
    BY <2>3, <2>4, <2>5 DEF TypeOK
<1>11. CASE UNCHANGED vars
  BY <1>11 DEF vars, TypeOK
<1> QED
  BY <1>1, <1>2, <1>3, <1>4, <1>5, <1>6, <1>7, <1>9, <1>10, <1>11,
     BlankTyped, WrittenTyped DEF Next, TypeOK

\* The type invariant: no value, slot or page leaves its set, and nothing is
\* announced that no calibration measured.
THEOREM StoreTyped == Spec => []TypeOK
  BY StoreTypedInit, StoreTypedNext, PTL DEF Spec

-----------------------------------------------------------------------------
\* Broken-off commands and refused ones leave the rest of the state alone, so
\* a start from a page that is damaged, or whole, satisfies the invariant.
LEMMA BootFromPage ==
  ASSUME TypeOK, NEW page \in Pages, Boot(page),
         calibration' = calibration,
         trusted' /\ page.marker = "set" => \E c \in 1 .. calibration : page.data = All(c)
  PROVE  CalIsFresh' /\ PageFollowsStore' /\ CalibratedIsMeasured'
<1>1. pc' = "idle"
  BY DEF Boot
<1>2. CalIsFresh' /\ PageFollowsStore'
  BY <1>1 DEF CalIsFresh, PageFollowsStore, Storing
<1>3. ASSUME isCalibrated', trusted' PROVE \A s \in Slots : inUse'[s] \in 1 .. calibration'
  <2>1. page.marker = "set" /\ inUse' = page.data
    BY <1>3, RecallTyped DEF Boot
  <2>2. PICK c \in 1 .. calibration : page.data = All(c)
    BY <1>3, <2>1
  <2> QED
    BY <2>1, <2>2 DEF All
<1> QED
  BY <1>2, <1>3 DEF CalibratedIsMeasured

LEMMA StoreInvInit == Init => StoreInv
<1> SUFFICES ASSUME Init PROVE StoreInv
  OBVIOUS
<1>1. TypeOK
  BY StoreTypedInit
<1>2. CalIsFresh /\ PageFollowsStore /\ AnnouncedIsKept
  BY DEF Init, CalIsFresh, PageFollowsStore, AnnouncedIsKept, Storing
<1>3. PageIsWhole
  BY DEF Init, PageIsWhole, BlankPage
<1>4. ~isCalibrated
  BY DEF Init, Recall, BlankPage
<1> QED
  BY <1>1, <1>2, <1>3, <1>4 DEF StoreInv, CalibratedIsMeasured

LEMMA StoreInvNext == StoreInv /\ [Next]_vars => StoreInv'
<1> SUFFICES ASSUME StoreInv, [Next]_vars PROVE StoreInv'
  OBVIOUS
<1>0. TypeOK /\ TypeOK'
  BY StoreTypedNext DEF StoreInv
<1> USE StoreAssumption
<1>1. CASE StartCalibration
  <2>1. calibration \in Nat /\ calibration' = calibration + 1
    BY <1>0, <1>1 DEF StartCalibration, TypeOK
  <2>2. 1 .. calibration \subseteq 1 .. calibration'
    BY <2>1
  <2>3. CalIsFresh' /\ PageFollowsStore'
    BY <1>0, <1>1, <2>1
       DEF StartCalibration, TypeOK, CalIsFresh, PageFollowsStore, Storing, Slots
  <2>4. PageIsWhole' /\ CalibratedIsMeasured'
    BY <1>1, <2>2
       DEF StartCalibration, StoreInv, PageIsWhole, CalibratedIsMeasured, meter, history
  <2> QED
    BY <1>0, <1>1, <2>3, <2>4 DEF StartCalibration, StoreInv, AnnouncedIsKept, history
<1>2. CASE Measure
  <2>1. calibration \in Nat /\ calibration >= 1 /\ slot \in Slots
    BY <1>0, <1>2 DEF Measure, StoreInv, TypeOK, CalIsFresh, Slots
  <2>2. \A s \in Slots : s <= slot => cal'[s] = calibration
    BY <1>0, <1>2, <2>1 DEF Measure, StoreInv, TypeOK, CalIsFresh, Slots
  <2>3. slot = SlotCount => cal' = All(calibration)
    <3>1. slot = SlotCount => \A s \in Slots : cal'[s] = calibration
      BY <2>2 DEF Slots
    <3>2. cal' \in [Slots -> Words]
      BY <1>0 DEF TypeOK
    <3> QED
      BY <3>1, <3>2 DEF All
  <2>4. CalIsFresh'
    BY <1>0, <1>2, <2>1, <2>2, <2>3
       DEF Measure, CalIsFresh, Storing, TypeOK, history, Slots, All
  <2>5. CalibratedIsMeasured'
    BY <1>0, <1>2, <2>1 DEF Measure, StoreInv, CalibratedIsMeasured, TypeOK, history
  <2> QED
    BY <1>0, <1>2, <2>4, <2>5
       DEF Measure, StoreInv, PageFollowsStore, PageIsWhole, AnnouncedIsKept, history
<1>3. CASE Unlock
  BY <1>0, <1>3 DEF Unlock, Goto, Refused, StoreInv, TypeOK, Pages, CalIsFresh,
     PageFollowsStore, PageIsWhole, AnnouncedIsKept, CalibratedIsMeasured, Storing, meter
<1>4. CASE Erase
  BY <1>0, <1>4 DEF Erase, EraseCommand, Goto, Refused, Unverified, BlankPage, StoreInv,
     CalIsFresh, PageFollowsStore, PageIsWhole, AnnouncedIsKept, CalibratedIsMeasured,
     Storing, meter
<1>5. CASE Write
  <2>1. pc = "write" => Written.data = cal /\ Written.marker = "set"
    BY <1>0 DEF StoreInv, PageFollowsStore, Written, All, TypeOK, Pages
  <2>2. pc = "write" => calibration \in 1 .. calibration /\ cal = All(calibration)
    BY <1>0 DEF StoreInv, CalIsFresh, Storing, TypeOK
  <2> QED
    BY <1>0, <1>5, <2>1, <2>2 DEF Write, Goto, Refused, Unverified, StoreInv,
       CalIsFresh, PageFollowsStore, PageIsWhole, AnnouncedIsKept, CalibratedIsMeasured,
       Storing, meter
<1>6. CASE Lock
  BY <1>0, <1>6 DEF Lock, Goto, Refused, StoreInv, TypeOK, Pages, CalIsFresh,
     PageFollowsStore, PageIsWhole, AnnouncedIsKept, CalibratedIsMeasured, Storing, meter
<1>7. CASE Return
  BY <1>0, <1>7 DEF Return, Goto, StoreInv, CalIsFresh, PageFollowsStore, PageIsWhole,
     AnnouncedIsKept, CalibratedIsMeasured, Storing, meter
<1>8. CASE Reset
  <2>1. trusted' /\ flash.marker = "set" => \E c \in 1 .. calibration : flash.data = All(c)
    BY <1>8 DEF Reset, StoreInv, PageIsWhole
  <2>2. CalIsFresh' /\ PageFollowsStore' /\ CalibratedIsMeasured'
    BY <1>0, <1>8, <2>1, BootFromPage DEF Reset, TypeOK
  <2> QED
    BY <1>0, <1>8, <2>2 DEF Reset, Boot, StoreInv, PageIsWhole, AnnouncedIsKept
<1>9. ASSUME NEW step, NEW target \in Pages, BreakOff(step, target)
      PROVE  StoreInv'
  <2>1. PICK page \in Partly(target) : Boot(page)
    BY <1>9 DEF BreakOff
  <2>2. page \in Pages
    BY <1>0, PartlyTyped DEF TypeOK
  <2>3. damaged' = TRUE /\ trusted' = FALSE /\ announced' = 0 /\ calibration' = calibration
    BY <1>9 DEF BreakOff
  <2>4. CalIsFresh' /\ PageFollowsStore' /\ CalibratedIsMeasured'
    BY <1>0, <2>1, <2>2, <2>3, BootFromPage
  <2> QED
    BY <1>0, <2>3, <2>4 DEF StoreInv, PageIsWhole, AnnouncedIsKept
<1>10. CASE UNCHANGED vars
  BY <1>0, <1>10 DEF vars, StoreInv, CalIsFresh, PageFollowsStore, PageIsWhole,
     AnnouncedIsKept, CalibratedIsMeasured, Storing
<1>11. BlankPage \in Pages /\ Written \in Pages
  BY <1>0, BlankTyped, WrittenTyped DEF TypeOK
<1> QED
  BY <1>1, <1>2, <1>3, <1>4, <1>5, <1>6, <1>7, <1>8, <1>9, <1>10, <1>11 DEF Next

THEOREM StoreInvariant == Spec => []StoreInv
  BY StoreInvInit, StoreInvNext, PTL DEF Spec

\* A meter that does not warn computes with measured values only.
THEOREM MeasuredIfCalibrated == Spec => []CalibratedIsMeasured
<1>1. StoreInv => CalibratedIsMeasured
  BY DEF StoreInv
<1> QED
  BY <1>1, StoreInvariant, PTL

\* An announced set is in use after every start.
THEOREM AnnouncedSetIsUsed == Spec => AnnouncedIsUsed
<1>1. ASSUME StoreInv, Reset, announced # 0
      PROVE  isCalibrated' /\ inUse' = All(announced)
  BY <1>1, RecallTyped DEF Reset, Boot, StoreInv, AnnouncedIsKept, TypeOK
<1>2. StoreInv /\ [Next]_vars => [Reset /\ announced # 0 => isCalibrated' /\ inUse' = All(announced)]_vars
  BY <1>1
<1> QED
  BY <1>2, StoreInvariant, PTL DEF Spec, AnnouncedIsUsed

-----------------------------------------------------------------------------
\* In a state of the invariant the page is, for the user, unknown, empty or
\* one set; never a mixture.
KeptMeans ==
  /\ damaged => Kept = -1
  /\ ~damaged /\ flash.marker # "set" => Kept = 0
  /\ ~damaged /\ flash.marker = "set" =>
       /\ Kept \in 1 .. calibration
       /\ flash.data = All(Kept)

LEMMA KeptIsSet == StoreInv => KeptMeans
<1> SUFFICES ASSUME StoreInv PROVE KeptMeans
  OBVIOUS
<1>1. TypeOK /\ 1 \in Slots
  BY StoreAssumption DEF StoreInv, Slots
<1>2. /\ Recall(flash).valid <=> flash.marker = "set"
      /\ Recall(flash).valid => Recall(flash).data = flash.data
  BY <1>1, RecallTyped DEF TypeOK
<1>3. ASSUME ~damaged, flash.marker = "set"
      PROVE  Kept \in 1 .. calibration /\ flash.data = All(Kept)
  <2>1. PICK c \in 1 .. calibration : flash.data = All(c)
    BY <1>3 DEF StoreInv, PageIsWhole
  <2>2. flash.data[1] = c
    BY <1>1, <2>1 DEF All
  <2>3. Kept = c
    BY <1>2, <1>3, <2>1, <2>2 DEF Kept, WholeSet
  <2> QED
    BY <2>1, <2>3
<1> QED
  BY <1>2, <1>3 DEF Kept, KeptMeans

\* Equal sets have one number.
LEMMA AllDiffers == \A a, b : All(a) = All(b) => a = b
<1>1. 1 \in Slots
  BY StoreAssumption DEF Slots
<1> QED
  BY <1>1 DEF All

LEMMA PromiseInit == Init => Promise!Init
<1> SUFFICES ASSUME Init PROVE Promise!Init
  OBVIOUS
<1>1. StoreInv
  BY StoreInvInit
<1> QED
  BY <1>1, KeptIsSet DEF KeptMeans, Init, Promise!Init, Promise!None, BlankPage

\* What the user sees depends on the page and on the damage to it only.
LEMMA KeptUnchanged ==
  ASSUME StoreInv, StoreInv', damaged' = damaged,
         flash'.data = flash.data, flash'.marker = flash.marker
  PROVE  Kept' = Kept
<1>1. KeptMeans /\ KeptMeans'
  <2>1. StoreInv' => KeptMeans'
    BY KeptIsSet, PTL
  <2> QED
    BY <2>1, KeptIsSet
<1>2. CASE damaged
  BY <1>1, <1>2 DEF KeptMeans
<1>3. CASE ~damaged /\ flash.marker # "set"
  BY <1>1, <1>3 DEF KeptMeans
<1>4. CASE ~damaged /\ flash.marker = "set"
  BY <1>1, <1>4, AllDiffers DEF KeptMeans
<1> QED
  BY <1>2, <1>3, <1>4

\* Every statement of Store is a step of the promise or invisible to the user.
LEMMA PromiseNext == StoreInv /\ StoreInv' /\ [Next]_vars => [Promise!Next]_(Promise!vars)
<1> SUFFICES ASSUME StoreInv, StoreInv', [Next]_vars PROVE [Promise!Next]_(Promise!vars)
  OBVIOUS
<1> DEFINE Stutter == Kept' = Kept /\ announced' = announced
<1>0. Stutter => [Promise!Next]_(Promise!vars)
  BY DEF Promise!vars
<1>1. KeptMeans /\ KeptMeans'
  <2>1. StoreInv' => KeptMeans'
    BY KeptIsSet, PTL
  <2> QED
    BY <2>1, KeptIsSet
<1>2. TypeOK /\ TypeOK'
  BY DEF StoreInv
<1>3. ASSUME damaged' = damaged, announced' = announced,
             flash'.data = flash.data, flash'.marker = flash.marker
      PROVE  Stutter
  BY <1>3, KeptUnchanged
<1>4. ASSUME damaged' = TRUE, announced' = 0 PROVE Promise!Spoil
  BY <1>1, <1>4 DEF KeptMeans, Promise!Spoil, Promise!None, Promise!Unknown
<1>5. CASE StartCalibration \/ Measure
  BY <1>0, <1>3, <1>5 DEF StartCalibration, Measure, meter, history
<1>6. CASE Unlock
  BY <1>0, <1>2, <1>3, <1>6 DEF Unlock, Refused, TypeOK, Pages
<1>7. CASE Erase
  <2>1. CASE flash' = BlankPage /\ damaged' = FALSE /\ announced' = 0
    BY <1>1, <2>1 DEF KeptMeans, BlankPage, Promise!Next, Promise!Forget, Promise!None
  <2> QED
    BY <1>0, <1>3, <1>4, <1>7, <2>1
       DEF Erase, EraseCommand, Refused, Unverified, Promise!Next
<1>8. CASE Write
  <2>1. CASE flash' = Written /\ pc = "write" /\ UNCHANGED <<announced, damaged>>
    <3>1. Kept = 0 /\ announced' = 0
      BY <1>1, <2>1 DEF KeptMeans, StoreInv, PageFollowsStore
    <3>2. ~damaged' /\ flash'.marker = "set"
      BY <1>2, <2>1 DEF StoreInv, PageFollowsStore, Written, TypeOK, Pages
    <3>3. Kept' \in Nat \ {0}
      BY <1>1, <1>2, <3>2 DEF KeptMeans, TypeOK
    <3> QED
      BY <3>1, <3>3 DEF Promise!Next, Promise!Keep, Promise!None
  <2> QED
    BY <1>0, <1>3, <1>4, <1>8, <2>1 DEF Write, Goto, Refused, Unverified, Promise!Next
<1>9. CASE Lock
  BY <1>0, <1>2, <1>3, <1>9 DEF Lock, Refused, TypeOK, Pages
<1>10. CASE Return
  <2>1. CASE pc = "stored" /\ announced' = calibration /\ UNCHANGED <<flash, damaged>>
    <3>1. ~damaged /\ flash.marker = "set" /\ flash.data = All(calibration)
      BY <2>1 DEF StoreInv, PageFollowsStore, CalIsFresh, Storing
    <3>2. Kept = calibration /\ Kept \in Nat \ {0}
      BY <1>1, <1>2, <3>1, AllDiffers DEF KeptMeans, TypeOK
    <3>3. Kept' = Kept
      BY <2>1, KeptUnchanged
    <3> QED
      BY <2>1, <3>2, <3>3 DEF Promise!Next, Promise!Tell
  <2> QED
    BY <1>0, <1>3, <1>10, <2>1 DEF Return, Goto
<1>11. CASE Reset
  BY <1>0, <1>3, <1>11 DEF Reset, Boot
<1>12. CASE BreakOff("erase", BlankPage) \/ BreakOff("write", Written)
  BY <1>4, <1>12 DEF BreakOff, Promise!Next
<1>13. CASE UNCHANGED vars
  BY <1>0, <1>3, <1>13 DEF vars
<1> QED
  BY <1>5, <1>6, <1>7, <1>8, <1>9, <1>10, <1>11, <1>12, <1>13 DEF Next

\* The storage implements SafeStore, for any number of slots.
THEOREM StoreImplementsPromise == Spec => StoreIsSafe
<1>1. Init => Promise!Init
  BY PromiseInit
<1>2. StoreInv /\ StoreInv' /\ [Next]_vars => [Promise!Next]_(Promise!vars)
  BY PromiseNext
<1> QED
  BY <1>1, <1>2, StoreInvariant, PTL DEF Spec, StoreIsSafe, Promise!Spec
=============================================================================
