CONSTANTS
  Callers = {c1}
  Targets = {t1}
  Sessions = {s1}
  MaxCalls = 6
  None = None
SPECIFICATION FairSpec
PROPERTY CommandsAnswered
PROPERTY NavigationsEnd
CHECK_DEADLOCK FALSE
