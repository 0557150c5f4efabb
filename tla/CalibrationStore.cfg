SPECIFICATION Spec
CONSTANTS
  SlotCount = 3
  MaxCalibrations = 3
INVARIANTS TypeOK CalibratedIsMeasured
PROPERTIES StoreIsSafe AnnouncedIsUsed
