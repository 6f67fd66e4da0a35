CONSTANTS
  pe = pe
  p = p
  re = re
  ce = ce
  default = default
  cust = cust
  NoHop = NoHop
  Direct = Direct
  Blackhole = Blackhole
  Nodes = {pe, p, re, ce}
  Vrfs = {default, cust}
  Labels = {20, 21, 80}
  Lens = {1, 2}
  Tables <- MCTables
  Start = pe
  StartVrf = cust
  Dst <- MCDst
  MaxHops = 8
  MaxChanges = 1
  MaxFaults = 1
  RefHops = 12
SPECIFICATION FairSpec
INVARIANTS TypeOK VerdictIsTrue
PROPERTY ScrapeServed
