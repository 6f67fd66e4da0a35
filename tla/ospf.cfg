CONSTANTS
  Rids = {r1}
  Ifaces = {i1, i2}
  States = {"Full", "Init"}
  SockCap = 1
  MaxChanges = 3
  MaxOther = 1
  MaxFail = 2
SPECIFICATION FairSpec
INVARIANTS TypeOK NoLostTrigger BooksMatchView
PROPERTIES TransitionEmits NeverWedged PushConverges FallbackConverges
CHECK_DEADLOCK FALSE
