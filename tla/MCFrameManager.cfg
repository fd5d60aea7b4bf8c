SPECIFICATION MCSpec
CONSTANTS
  MainIds = {m1, m2}
  ChildIds = {f1, f2}
  Navs = {n1, n2}
  Contexts = {c1, c2}
  Cap = 1
  MaxDocs = 2
  None = None
INVARIANTS TypeOK TreeConsistent WorldsAlive
PROPERTIES LoadedDocument FollowsMain ImplementsNavigations NavigationReported
CHECK_DEADLOCK FALSE
