SPECIFICATION TestSpec
CONSTANTS
  MinGain = 1
  MaxGain = 10
  LowTrigger = 500
  HighTrigger = 50
  TickLimit = 501
INVARIANT TestNeverFails
