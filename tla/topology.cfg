CONSTANTS
  pe = pe
  p = p
  ce = ce
  ippe = ippe
  ipp = ipp
  ipce = ipce
  cust = cust
  guest = guest
  v10 = v10
  m1 = m1
  stranger = stranger
  rid = rid
  Default = Default
  Fixed = Fixed
  Nobody = Nobody
  Nodes = {pe, p, ce}
  Networks <- MCNetworks
  PlainVlans <- MCPlainVlans
  MaxFaults = 1
SPECIFICATION Spec
INVARIANTS TypeOK TopologyIsClaimed
