SPECIFICATION InMeterSpec
CONSTANTS
  MinGain = 1
  MaxGain = 3
  LowTrigger = 4
  HighTrigger = 2
INVARIANTS TypeOK CountersBelowTriggers KnownLevelRises
PROPERTIES RiseNeedsSteadyLow
