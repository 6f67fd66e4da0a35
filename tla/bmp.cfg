CONSTANTS
  rd1 = rd1
  cust = cust
  guest = guest
  Default = Default
  Unspecified = any
  NoName = NoName
  RDs = {rd1}
  VRFNames = {cust, guest}
  Peers = {p1, p2, any}
  Keys = {k1}
  Attrs = {a1, a2}
  VRFOf <- MCOneVRFOf
  MaxConns = 2
  MaxOps = 3
SPECIFICATION Spec
INVARIANTS TypeOK  SessionsAccurate 
PROPERTY LearnedOnce
CHECK_DEADLOCK FALSE
