SPECIFICATION MCSpec
CONSTANTS
  Callers = {c1,c2}
  Targets = {t1,t2}
  Sessions = {s1,s2,s3}
  Ready = {t1}
  InboxCapacity = 1
  LifecycleCapacity = 1
  WireCapacity = 1
  MaxEvents = 2
  None = None
INVARIANTS TypeOK RoutesPending TablesAgree NavigationComplete
PROPERTIES RouterUnblocks EveryCallerEnds
CHECK_DEADLOCK FALSE
