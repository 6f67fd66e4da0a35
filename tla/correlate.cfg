CONSTANTS
  Buses = {b1, b2}
  Cap = 1
  Window = 1
  Idle = 1
  Warmup = 1
  MinChurn = 2
  RingMax = 1
  MaxEvents = 3
  LastEmit = 2
  Horizon = 4
SPECIFICATION FairSpec
INVARIANTS TypeOK RingIsRecent TimelineCoherent NoEventTwice
PROPERTY RootTracePublished
