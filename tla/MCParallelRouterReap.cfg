SPECIFICATION Spec
CONSTANTS
  Callers = {c1}
  Targets = {t1}
  Sessions = {s1}
  Ready = {}
  InboxCapacity = 1
  LifecycleCapacity = 1
  WireCapacity = 1
  MaxEvents = 1
  None = None
PROPERTIES SlotsReaped
CHECK_DEADLOCK FALSE
