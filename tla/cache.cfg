CONSTANTS
  Writers = {w1, w2}
  Leaves = {l1, l2}
  MaxCalls = 3
  MaxSetBack = 1
SPECIFICATION Spec
INVARIANTS TypeOK NewestWins
PROPERTY ImplementsAtomic
CHECK_DEADLOCK FALSE
