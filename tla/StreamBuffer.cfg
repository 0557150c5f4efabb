SPECIFICATION FairSpec
CONSTANTS
  Bytes = {zero, one}
  Length = 4
  ItemBytes = 2
  Trigger = 2
  Most = 3
INVARIANTS TypeOK NoLostWakeup
PROPERTIES DataIsReceived IsFifo
