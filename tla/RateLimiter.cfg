CONSTANTS
  Request = {r1, r2, r3, r4}
  IP = {i1, i2}
  limit = 1
  windowDuration = 1
  MaxTime = 4
SPECIFICATION FairSpec
INVARIANT TypeOK
INVARIANT HandlersSerialized
INVARIANT HeadersTruthful
INVARIANT SlidingBound
PROPERTY ImplementsFixedWindow
PROPERTY EveryRequestDecided
CHECK_DEADLOCK FALSE
