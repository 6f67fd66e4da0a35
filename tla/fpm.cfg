CONSTANTS
  Prefixes = {p1}
  Tables = {t1, t2}
  Main = main
  Local = local
  Names = {cust, guest}
  NHIds = {1, 2}
  g1 = g1
  g2 = g2
  NoGw = NoGw
  NHObjs <- MCNHObjs
  Routes <- MCRoutes
  MaxConns = 2
  MaxOps = 4
SYMMETRY MCSymmetry
SPECIFICATION Spec
INVARIANTS TypeOK QuietIsFIB 
CHECK_DEADLOCK FALSE
