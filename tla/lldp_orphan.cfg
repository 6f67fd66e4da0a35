CONSTANTS
  Ifaces = {i1}
  Chassis = {c1}
  Absent = Absent
  NoId = NoId
  MaxChanges = 2
  MaxFaults = 0
SPECIFICATION FairSpec
PROPERTY Converges
