CONSTANTS
  Ifaces = {i1, i2}
  Chassis = {c1, c2}
  Absent = Absent
  NoId = NoId
  MaxChanges = 2
  MaxFaults = 1
SPECIFICATION FairSpec
INVARIANTS TypeOK SeenIsCache
 
