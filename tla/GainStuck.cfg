SPECIFICATION InMeterSpec
CONSTANTS
  MinGain = 1
  MaxGain = 3
  LowTrigger = 4
  HighTrigger = 2
INVARIANT LowSignalRaisesGain
