CONSTANTS
  a = a
  b = b
  c = c
  Nodes = {a, b, c}
  Schedules <- MCSchedules
  Window = 4
  Ms = 2
  RingMax = 1
  MaxFaults = 1
SPECIFICATION FairSpec
INVARIANTS TypeOK BurstsTogether  StoredOnce
PROPERTY EveryTraceExported
