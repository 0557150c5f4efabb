SPECIFICATION FairSpec
CONSTANTS
  Sensors = {voltage, shunt}
  First = voltage
  None = None
  Capacity = 3
  Block = 2
  QueueLength = 2
  TickLimit = 3
  Cycle = 6
INVARIANTS TypeOK TickFollowsSamples
PROPERTIES ReadingsAreContiguous FiledUnderItsSensor MeasuresSamplesOnly KeepsReading
