SPECIFICATION FairSpec
CONSTANTS
  NumberOfPins = 2
  Capacity = 2
  DebounceDelay = 1
INVARIANTS TypeOK AssertedIsServed KnownIsLastRead
PROPERTIES KnownFollowsKeys
