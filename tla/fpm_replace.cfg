CONSTANTS
  Prefixes = {p1}
  Tables = {main}
  Main = main
  Local = local
  Names = {cust}
  NHIds = {1, 2}
  g1 = g1
  g2 = g2
  NoGw = NoGw
  NHObjs <- MCFewObjs
  Routes <- MCFewRoutes
  MaxConns = 1
  MaxOps = 3
SPECIFICATION Spec
INVARIANTS RoutesResolve
CHECK_DEADLOCK FALSE
