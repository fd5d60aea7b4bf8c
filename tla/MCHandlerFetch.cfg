CONSTANTS
  Callers = {c1, c2}
  Targets = {t1}
  Sessions = {s1}
  MaxCalls = 4
  None = None
SPECIFICATION Spec
PROPERTY FetchKeepsInitiators
CHECK_DEADLOCK FALSE
