SPECIFICATION Spec
CONSTANTS
  Callers = {c1, c2}
  Http = {c1}
  Pages = {p1}
  Capacities = {1, 2}
  Budget = 1
INVARIANTS TypeOK NoLostWakeUp GaveUpUnsent
PROPERTIES NavigationFullTimeout MessagesProcessed EveryFutureEnds
CHECK_DEADLOCK FALSE
