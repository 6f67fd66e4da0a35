CONSTANTS
  Links = {l1, l2}
  Macs = {m1}
  Addrs = {a1}
  Labels = {b1}
  Outs = {o1, o2}
  NoIface = NoIface
  MaxOps = 2
  MaxFaults = 1
SPECIFICATION FairSpec
INVARIANTS TypeOK LinksFollow FdbFollows
 
